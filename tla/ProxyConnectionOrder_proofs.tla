--------------------- MODULE ProxyConnectionOrder_proofs ---------------------
(***************************************************************************)
(* Proofs about ProxyConnection: the order in which units are carried,     *)
(* whatever the peers do, and what an exchange between peers that take     *)
(* turns comes to, and that the connection implements StreamRelay.         *)
(* Carried is defined with FlattenSeq and the channels with Only; what     *)
(* joining sequences does to them is said in SequenceLemmas.               *)
(***************************************************************************)
EXTENDS ProxyConnection_proofs, MCProxyConnection, SequenceLemmas

-----------------------------------------------------------------------------
(***************************************************************************)
(* What has been carried from a side is what its peer has been written,    *)
(* frames aside, one after the other.                                      *)
(***************************************************************************)
Parts(ws) == [n \in DOMAIN ws |-> IF ws[n].kind = "frame" THEN <<>> ELSE ws[n].of]

LEMMA PartsTyped ==
    ASSUME NEW ws \in Seq(Written)
    PROVE  Parts(ws) \in Seq(Seq(Nat)) /\ Len(Parts(ws)) = Len(ws)
<1> DEFINE e(n) == IF ws[n].kind = "frame" THEN <<>> ELSE ws[n].of
<1>1. Len(ws) \in Nat /\ DOMAIN ws = 1..Len(ws)
  OBVIOUS
<1>2. \A n \in 1..Len(ws) : e(n) \in Seq(Nat)
  <2>1. \A n \in 1..Len(ws) : ws[n] \in Written
    BY <1>1
  <2>2. \A w \in Written : w.of \in Seq(Nat)
    BY DEF Written
  <2>3. <<>> \in Seq(Nat)
    OBVIOUS
  <2> QED
    BY <2>1, <2>2, <2>3
<1>3. Parts(ws) = [n \in 1..Len(ws) |-> e(n)]
  BY <1>1 DEF Parts
<1> HIDE DEF e
<1>4. Parts(ws) \in Seq(Seq(Nat))
  BY <1>1, <1>2, <1>3, IsASeq
<1>5. DOMAIN Parts(ws) = 1..Len(ws) /\ DOMAIN Parts(ws) = 1..Len(Parts(ws)) /\ Len(Parts(ws)) \in Nat
  BY <1>3, <1>4
<1>6. Len(Parts(ws)) = Len(ws)
  BY <1>1, <1>5
<1> QED
  BY <1>4, <1>6

LEMMA PartsConcat ==
    ASSUME NEW ws \in Seq(Written), NEW us \in Seq(Written)
    PROVE  Parts(ws \o us) = Parts(ws) \o Parts(us)
<1>1. /\ ws \o us \in Seq(Written) /\ Len(ws \o us) = Len(ws) + Len(us)
      /\ \A i \in 1..(Len(ws) + Len(us)) :
            (ws \o us)[i] = IF i <= Len(ws) THEN ws[i] ELSE us[i - Len(ws)]
  BY ConcatProperties
<1>2. /\ Parts(ws) \in Seq(Seq(Nat)) /\ Len(Parts(ws)) = Len(ws)
      /\ Parts(us) \in Seq(Seq(Nat)) /\ Len(Parts(us)) = Len(us)
      /\ Parts(ws \o us) \in Seq(Seq(Nat)) /\ Len(Parts(ws \o us)) = Len(ws) + Len(us)
  BY <1>1, PartsTyped
<1>3. /\ Parts(ws) \o Parts(us) \in Seq(Seq(Nat)) /\ Len(Parts(ws) \o Parts(us)) = Len(ws) + Len(us)
      /\ \A i \in 1..(Len(ws) + Len(us)) :
            (Parts(ws) \o Parts(us))[i] = IF i <= Len(ws) THEN Parts(ws)[i] ELSE Parts(us)[i - Len(ws)]
  <2> DEFINE P == Parts(ws)
             Q == Parts(us)
  <2>1. P \in Seq(Seq(Nat)) /\ Q \in Seq(Seq(Nat)) /\ Len(P) = Len(ws) /\ Len(Q) = Len(us)
    BY <1>2
  <2> HIDE DEF P, Q
  <2>2. /\ P \o Q \in Seq(Seq(Nat)) /\ Len(P \o Q) = Len(P) + Len(Q)
        /\ \A i \in 1..(Len(P) + Len(Q)) : (P \o Q)[i] = IF i <= Len(P) THEN P[i] ELSE Q[i - Len(P)]
    BY <2>1, ConcatProperties
  <2> QED
    BY <2>1, <2>2 DEF P, Q
<1>4. ASSUME NEW i \in 1..(Len(ws) + Len(us))
      PROVE  Parts(ws \o us)[i] = (Parts(ws) \o Parts(us))[i]
  <2>1. /\ Len(ws) \in Nat /\ Len(us) \in Nat /\ DOMAIN ws = 1..Len(ws) /\ DOMAIN us = 1..Len(us)
        /\ DOMAIN (ws \o us) = 1..(Len(ws) + Len(us))
    BY <1>1
  <2>2. CASE i <= Len(ws)
    <3>1. i \in DOMAIN ws /\ (ws \o us)[i] = ws[i] /\ i \in DOMAIN (ws \o us)
      BY <1>1, <2>1, <2>2
    <3>2. Parts(ws \o us)[i] = Parts(ws)[i]
      BY <3>1 DEF Parts
    <3> QED
      BY <1>3, <2>2, <3>2
  <2>3. CASE ~(i <= Len(ws))
    <3>1. /\ i - Len(ws) \in DOMAIN us /\ (ws \o us)[i] = us[i - Len(ws)] /\ i \in DOMAIN (ws \o us)
      BY <1>1, <2>1, <2>3
    <3>2. Parts(ws \o us)[i] = Parts(us)[i - Len(ws)]
      BY <3>1 DEF Parts
    <3> QED
      BY <1>3, <2>3, <3>2
  <2> QED
    BY <2>2, <2>3
<1> QED
  BY <1>2, <1>3, <1>4, SeqEqual

LEMMA CarriedParts ==
    ASSUME TypeInv, NEW s \in Side
    PROVE  /\ out[Other(s)] \in Seq(Written)
           /\ Carried(s) = FlattenSeq(Parts(out[Other(s)])) /\ Carried(s) \in Seq(Nat)
<1>1. out[Other(s)] \in Seq(Written)
  BY SideTypes
<1>2. Carried(s) = FlattenSeq(Parts(out[Other(s)]))
  BY DEF Carried, Parts
<1> QED
  BY <1>1, <1>2, PartsTyped, FlattenTyped

\* Frames and the proxy's own answers carry nothing ...
LEMMA CarriedNothing ==
    ASSUME TypeInv, NEW s \in Side, NEW units \in Seq(Written),
           out'[Other(s)] = out[Other(s)] \o units,
           \A i \in DOMAIN units : units[i].kind = "frame" \/ units[i].of = <<>>
    PROVE  Carried(s)' = Carried(s)
<1>1. out[Other(s)] \in Seq(Written) /\ Carried(s) = FlattenSeq(Parts(out[Other(s)]))
  BY CarriedParts
<1>2. Carried(s)' = FlattenSeq(Parts(out[Other(s)] \o units))
  BY DEF Carried, Parts
<1>3. Parts(out[Other(s)]) \in Seq(Seq(Nat)) /\ Parts(units) \in Seq(Seq(Nat))
  BY <1>1, PartsTyped
<1>4. \A i \in DOMAIN Parts(units) : Parts(units)[i] = <<>>
  BY DEF Parts
<1> QED
  BY <1>1, <1>2, <1>3, <1>4, PartsConcat, FlattenNothing, ZenonT(60)

\* ... anything else the units it is made of.
LEMMA CarriedOne ==
    ASSUME TypeInv, NEW s \in Side, NEW w \in Written, w.kind # "frame",
           out'[Other(s)] = out[Other(s)] \o <<w>>
    PROVE  Carried(s)' = Carried(s) \o w.of
<1>1. out[Other(s)] \in Seq(Written) /\ Carried(s) = FlattenSeq(Parts(out[Other(s)]))
  BY CarriedParts
<1>2. Carried(s)' = FlattenSeq(Parts(out[Other(s)] \o <<w>>))
  BY DEF Carried, Parts
<1>3. <<w>> \in Seq(Written) /\ w.of \in Seq(Nat) /\ Parts(<<w>>) = <<w.of>>
  <2>1. <<w>> \in Seq(Written) /\ w.of \in Seq(Nat)
    BY DEF Written
  <2>2. Parts(<<w>>) \in Seq(Seq(Nat)) /\ Len(Parts(<<w>>)) = 1 /\ Parts(<<w>>)[1] = w.of
    <3>1. Len(<<w>>) = 1 /\ 1 \in DOMAIN <<w>> /\ <<w>>[1] = w
      OBVIOUS
    <3> QED
      BY <2>1, <3>1, PartsTyped DEF Parts
  <2>3. <<w.of>> \in Seq(Seq(Nat)) /\ Len(<<w.of>>) = 1 /\ <<w.of>>[1] = w.of
    BY <2>1
  <2>4. \A i \in 1..Len(Parts(<<w>>)) : Parts(<<w>>)[i] = <<w.of>>[i]
    BY <2>2, <2>3
  <2>5. Parts(<<w>>) = <<w.of>>
    BY <2>2, <2>3, <2>4, SeqEqual
  <2> QED
    BY <2>1, <2>5
<1>4. Parts(out[Other(s)]) \in Seq(Seq(Nat))
  BY <1>1, PartsTyped
<1>5. Parts(out[Other(s)] \o <<w>>) = Append(Parts(out[Other(s)]), w.of)
  <2>1. Parts(out[Other(s)] \o <<w>>) = Parts(out[Other(s)]) \o <<w.of>>
    BY <1>1, <1>3, PartsConcat
  <2> QED
    BY <1>3, <1>4, <2>1, AppendIsConcat
<1> QED
  BY <1>1, <1>2, <1>3, <1>4, <1>5, FlattenAppend

-----------------------------------------------------------------------------
(***************************************************************************)
(* The order of the units.                                                 *)
(***************************************************************************)
Ascending(us) == \A i, j \in DOMAIN us : i < j => us[i] < us[j]
Before(us, vs) == \A i \in DOMAIN us : \A j \in DOMAIN vs : us[i] < vs[j]

\* What is carried from s, and the message that waits there, comes in the
\* order in which it was read; the message after all that was carried.
Ordered(s) ==
    /\ Ascending(Carried(s)) /\ Within(Carried(s), read[s])
    /\ Ascending(slot[s].units) /\ Before(Carried(s), slot[s].units)

\* Nothing waits for a session that copies bytes, nor, before the origin is
\* reached, for the down session.
NothingWaits ==
    /\ \A s \in Side : ClassOf(s) = "plane" => slot[s] = NoMessage
    /\ client \in {"none", "connecting"} => slot["down"] = NoMessage

OrderInv == (\A s \in Side : Ordered(s)) /\ NothingWaits

LEMMA OneMore ==
    ASSUME NEW us \in Seq(Nat), NEW vs \in Seq(Nat), NEW n \in Nat, Within(us, n), Within(vs, n)
    PROVE  /\ Ascending(us) => Ascending(Append(us, n + 1))
           /\ Within(Append(us, n + 1), n + 1)
           /\ Before(us, vs) => Before(us, Append(vs, n + 1))
<1>1. /\ Len(us) \in Nat /\ DOMAIN us = 1..Len(us) /\ DOMAIN Append(us, n + 1) = 1..(Len(us) + 1)
      /\ \A i \in 1..Len(us) : Append(us, n + 1)[i] = us[i] /\ us[i] \in 1..n
      /\ Append(us, n + 1)[Len(us) + 1] = n + 1
  BY DEF Within
<1>2. /\ Len(vs) \in Nat /\ DOMAIN vs = 1..Len(vs) /\ DOMAIN Append(vs, n + 1) = 1..(Len(vs) + 1)
      /\ \A i \in 1..Len(vs) : Append(vs, n + 1)[i] = vs[i]
      /\ Append(vs, n + 1)[Len(vs) + 1] = n + 1
  OBVIOUS
<1>3. Ascending(us) => Ascending(Append(us, n + 1))
  <2>1. SUFFICES ASSUME Ascending(us), NEW i \in 1..(Len(us) + 1), NEW j \in 1..(Len(us) + 1), i < j
                 PROVE  Append(us, n + 1)[i] < Append(us, n + 1)[j]
    BY <1>1 DEF Ascending
  <2>0. Len(us) \in Nat
    BY <1>1
  <2>2. i \in 1..Len(us) /\ (j \in 1..Len(us) \/ j = Len(us) + 1)
    BY <2>0, <2>1, OneMoreIndex, SMTT(30)
  <2>3. CASE j \in 1..Len(us)
    BY <1>1, <2>1, <2>2, <2>3 DEF Ascending
  <2>4. CASE j = Len(us) + 1
    BY <1>1, <2>2, <2>4
  <2> QED
    BY <2>2, <2>3, <2>4
<1>4. Within(Append(us, n + 1), n + 1)
  <2>1. ASSUME NEW i \in 1..(Len(us) + 1) PROVE Append(us, n + 1)[i] \in 1..(n + 1)
    <3>1. i \in 1..Len(us) \/ i = Len(us) + 1
      BY <1>1
    <3> QED
      BY <1>1, <3>1
  <2> QED
    BY <1>1, <2>1 DEF Within
<1>5. Before(us, vs) => Before(us, Append(vs, n + 1))
  <2>1. SUFFICES ASSUME Before(us, vs), NEW i \in 1..Len(us), NEW j \in 1..(Len(vs) + 1)
                 PROVE  us[i] < Append(vs, n + 1)[j]
    BY <1>1, <1>2 DEF Before
  <2>2. j \in 1..Len(vs) \/ j = Len(vs) + 1
    BY <1>2, OneMoreIndex
  <2>3. us[i] \in 1..n
    BY <1>1
  <2>4. CASE j \in 1..Len(vs)
    <3>1. Append(vs, n + 1)[j] = vs[j] /\ i \in DOMAIN us /\ j \in DOMAIN vs
      BY <1>1, <1>2, <2>4
    <3> QED
      BY <2>1, <3>1 DEF Before
  <2>5. CASE j = Len(vs) + 1
    BY <1>2, <2>3, <2>5
  <2> QED
    BY <2>2, <2>4, <2>5
<1> QED
  BY <1>3, <1>4, <1>5

LEMMA TogetherAscending ==
    ASSUME NEW us \in Seq(Nat), NEW vs \in Seq(Nat), Ascending(us), Ascending(vs), Before(us, vs),
           NEW n \in Nat, Within(us, n), Within(vs, n)
    PROVE  Ascending(us \o vs) /\ Within(us \o vs, n)
<1>1. /\ Len(us) \in Nat /\ Len(vs) \in Nat /\ DOMAIN us = 1..Len(us) /\ DOMAIN vs = 1..Len(vs)
      /\ DOMAIN (us \o vs) = 1..(Len(us) + Len(vs))
  OBVIOUS
<1>2. ASSUME NEW i \in 1..(Len(us) + Len(vs))
      PROVE  /\ i <= Len(us) => i \in DOMAIN us /\ (us \o vs)[i] = us[i]
             /\ ~(i <= Len(us)) => i - Len(us) \in DOMAIN vs /\ (us \o vs)[i] = vs[i - Len(us)]
  BY <1>1, ConcatProperties
<1>3. ASSUME NEW i \in 1..(Len(us) + Len(vs)), NEW j \in 1..(Len(us) + Len(vs)), i < j
      PROVE  (us \o vs)[i] < (us \o vs)[j]
  <2>1. CASE j <= Len(us)
    <3>1. i <= Len(us)
      BY <1>1, <1>3, <2>1
    <3> QED
      BY <1>2, <1>3, <2>1, <3>1 DEF Ascending
  <2>2. CASE i <= Len(us) /\ ~(j <= Len(us))
    BY <1>2, <2>2 DEF Before
  <2>3. CASE ~(i <= Len(us))
    <3>1. ~(j <= Len(us)) /\ i - Len(us) < j - Len(us)
      BY <1>1, <1>3, <2>3
    <3> QED
      BY <1>2, <2>3, <3>1 DEF Ascending
  <2> QED
    BY <2>1, <2>2, <2>3
<1> QED
  BY <1>1, <1>2, <1>3 DEF Ascending, Within

LEMMA OrderStep ==
    ASSUME AgreeInv, OrderInv, NEW s \in Side, read'[s] \in Nat, read[s] <= read'[s],
           \/ Carried(s)' = Carried(s) /\ slot'[s] \in {slot[s], NoMessage}
           \/ /\ Carried(s)' = Carried(s) /\ read[s] < read'[s]
              /\ slot'[s].units = Append(slot[s].units, read[s] + 1)
           \/ Carried(s)' = Carried(s) \o slot[s].units /\ slot'[s] = NoMessage
           \/ /\ Carried(s)' = Append(Carried(s), read[s] + 1) /\ read[s] < read'[s]
              /\ slot'[s] = NoMessage
    PROVE  Ordered(s)'
<1> DEFINE us == Carried(s)
           vs == slot[s].units
           n == read[s]
           n1 == read'[s]
<1>1. us \in Seq(Nat) /\ vs \in Seq(Nat) /\ n \in Nat /\ n1 \in Nat /\ n <= n1
  BY CarriedParts, SideTypes DEF AgreeInv
<1>2. Ascending(us) /\ Within(us, n) /\ Ascending(vs) /\ Before(us, vs) /\ Within(vs, n)
  BY DEF OrderInv, Ordered, AgreeInv, Positions, SlotRead
<1>3. NoMessage.units = <<>> /\ Ascending(<<>>) /\ (\A ws : Before(ws, <<>>))
  BY SideNames, NothingIn DEF Ascending, Before
<1>4. SUFFICES /\ Ascending(Carried(s)') /\ Within(Carried(s)', n1)
               /\ Ascending(slot'[s].units) /\ Before(Carried(s)', slot'[s].units)
  BY DEF Ordered, Ascending, Within, Before
<1> HIDE DEF us, vs, n, n1
<1>5. Within(us, n1) /\ (n < n1 => Within(us, n + 1))
  BY <1>1, <1>2, WithinGrows DEF Within
<1>6. CASE Carried(s)' = us /\ slot'[s] \in {slot[s], NoMessage}
  BY <1>2, <1>3, <1>5, <1>6 DEF vs
<1>7. CASE Carried(s)' = us /\ n < n1 /\ slot'[s].units = Append(vs, n + 1)
  BY <1>1, <1>2, <1>5, <1>7, OneMore
<1>8. CASE Carried(s)' = us \o vs /\ slot'[s] = NoMessage
  <2>1. Within(vs, n1)
    BY <1>1, <1>2, WithinGrows
  <2> QED
    BY <1>1, <1>2, <1>3, <1>5, <1>8, <2>1, TogetherAscending
<1>9. CASE Carried(s)' = Append(us, n + 1) /\ n < n1 /\ slot'[s] = NoMessage
  <2>1. Within(Append(us, n + 1), n1)
    BY <1>1, <1>2, <1>9, WithinGrows
  <2> QED
    BY <1>1, <1>2, <1>3, <1>9, <2>1, OneMore
<1> QED
  BY <1>6, <1>7, <1>8, <1>9 DEF us, vs, n, n1

-----------------------------------------------------------------------------
\* What a step does to what is carried.
LEMMA CarriedSame ==
    ASSUME NEW s \in Side, out'[Other(s)] = out[Other(s)] PROVE Carried(s)' = Carried(s)
BY DEF Carried

LEMMA FlushQueueCarried ==
    ASSUME AgreeInv, NEW s \in Side, FlushQueue(s)
    PROVE  \A t \in Side : Carried(t)' = Carried(t)
<1>0. TypeInv
  BY DEF AgreeInv
<1>1. CASE UNCHANGED <<out, queue, recvwait>>
  BY <1>1, CarriedSame
<1>2. ASSUME NEW units \in Seq(Written),
             out' = [out EXCEPT ![Other(s)] = @ \o units],
             \A i \in DOMAIN units : units[i].kind = "frame"
      PROVE  \A t \in Side : Carried(t)' = Carried(t)
  <2>1. /\ out'[Other(s)] = out[Other(s)] \o units
        /\ \A t \in Side : t # s => out'[Other(t)] = out[Other(t)]
    BY <1>0, <1>2, OutSides
  <2>2. Carried(s)' = Carried(s)
    BY <1>0, <1>2, <2>1, CarriedNothing
  <2> QED
    BY <2>1, <2>2, CarriedSame
<1>3. CASE ~UNCHANGED <<out, queue, recvwait>>
  <2>1. \E units \in Seq(Written) :
           /\ units = Frames(queue[s])
           /\ out' = [out EXCEPT ![Other(s)] = @ \o units]
           /\ \A i \in DOMAIN units : units[i].kind = "frame" /\ Within(units[i].of, read[s])
    BY <1>3, FlushQueueSteps, Zenon
  <2>2. PICK units \in Seq(Written) :
           /\ out' = [out EXCEPT ![Other(s)] = @ \o units]
           /\ \A i \in DOMAIN units : units[i].kind = "frame"
    BY <2>1
  <2> QED
    BY <1>2, <2>2
<1> QED
  BY <1>1, <1>3

\* An answer of the proxy's own.
LEMMA AnswerCarried ==
    ASSUME AgreeInv, NEW k \in {"101", "200", "goaway"}, write("up", <<Own(k)>>)
    PROVE  \A t \in Side : Carried(t)' = Carried(t)
<1>0. TypeInv /\ "down" \in Side /\ Other("down") = "up"
  BY SideNames DEF AgreeInv, Other
<1>1. out' = [out EXCEPT ![Other("down")] = @ \o <<Own(k)>>]
  BY <1>0 DEF write
<1>2. <<Own(k)>> \in Seq(Written) /\ \A i \in DOMAIN <<Own(k)>> : <<Own(k)>>[i].of = <<>>
  BY OwnWritten DEF Own
<1>3. /\ out'[Other("down")] = out[Other("down")] \o <<Own(k)>>
      /\ \A t \in Side : t # "down" => out'[Other(t)] = out[Other(t)]
  BY <1>0, <1>1, <1>2, OutSides
<1>4. Carried("down")' = Carried("down")
  BY <1>0, <1>2, <1>3, CarriedNothing
<1> QED
  BY <1>0, <1>3, <1>4, CarriedSame

\* The message of one side.
LEMMA MessageCarried ==
    ASSUME AgreeInv, NEW s \in Side, out' = [out EXCEPT ![Other(s)] = @ \o <<Http1(slot[s])>>]
    PROVE  /\ Carried(s)' = Carried(s) \o slot[s].units
           /\ \A t \in Side : t # s => Carried(t)' = Carried(t)
<1>0. TypeInv /\ slot[s] \in Message
  BY SideTypes DEF AgreeInv
<1> DEFINE w == Http1(slot[s])
<1>1. w \in Written /\ w.kind # "frame" /\ w.of = slot[s].units /\ <<w>> \in Seq(Written)
  BY <1>0 DEF Http1, Written, Message
<1> HIDE DEF w
<1>2. /\ out'[Other(s)] = out[Other(s)] \o <<w>>
      /\ \A t \in Side : t # s => out'[Other(t)] = out[Other(t)]
  <2>1. out' = [out EXCEPT ![Other(s)] = @ \o <<w>>]
    BY DEF w
  <2> QED
    BY <1>0, <1>1, <2>1, OutSides
<1>3. Carried(s)' = Carried(s) \o w.of
  BY <1>0, <1>1, <1>2, CarriedOne
<1> QED
  BY <1>1, <1>2, <1>3, CarriedSame

\* Whatever else a step does, if nothing is carried and messages are only
\* dropped, order is kept.
LEMMA OrderKept ==
    ASSUME AgreeInv, OrderInv,
           \A s \in Side : read'[s] \in Nat /\ read[s] <= read'[s],
           \A s \in Side : slot'[s] \in {slot[s], NoMessage} /\ Carried(s)' = Carried(s),
           up' = "plane" => up = "plane" \/ slot'["up"] = NoMessage,
           down' = "plane" => down = "plane" \/ slot'["down"] = NoMessage,
           client' \in {"none", "connecting"} => client \in {"none", "connecting"}
    PROVE  OrderInv'
<1>1. \A s \in Side : Ordered(s)'
  <2> TAKE s \in Side
  <2> QED
    BY OrderStep
<1>2. NothingWaits'
  <2>1. NothingWaits /\ "up" \in Side /\ "down" \in Side
    BY SideNames DEF OrderInv
  <2>2. ASSUME NEW s \in Side, ClassOf(s)' = "plane" PROVE slot'[s] = NoMessage
    <3>1. slot'[s] = NoMessage \/ ClassOf(s) = "plane"
      BY <2>2 DEF ClassOf, Side
    <3> QED
      BY <2>1, <3>1 DEF NothingWaits
  <2>3. client' \in {"none", "connecting"} => slot'["down"] = NoMessage
    BY <2>1 DEF NothingWaits
  <2> QED
    BY <2>2, <2>3 DEF NothingWaits
<1> QED
  BY <1>1, <1>2 DEF OrderInv

LEMMA InitOrder == ASSUME Init PROVE OrderInv
<1>1. TypeInv /\ \A s \in Side : out[s] = <<>> /\ slot[s] = NoMessage
  BY InitTypeInv DEF Init
<1>2. ASSUME NEW s \in Side PROVE Ordered(s)
  <2>1. Carried(s) = <<>>
    <3>1. /\ Carried(s) = FlattenSeq(Parts(out[Other(s)]))
          /\ Parts(out[Other(s)]) \in Seq(Seq(Nat)) /\ Len(Parts(out[Other(s)])) = Len(out[Other(s)])
      BY <1>1, CarriedParts, PartsTyped
    <3>2. Len(out[Other(s)]) = 0
      BY <1>1, SideTypes
    <3>3. FlattenSeq(Parts(out[Other(s)])) = Parts(out[Other(s)])
      BY <3>1, <3>2 DEF FlattenSeq
    <3> QED
      BY <3>1, <3>2, <3>3
  <2>2. slot[s].units = <<>>
    BY <1>1, SideNames
  <2> QED
    BY <2>1, <2>2, NothingIn DEF Ordered, Ascending, Within, Before
<1>3. NothingWaits
  BY <1>1, SideNames DEF NothingWaits
<1> QED
  BY <1>2, <1>3 DEF OrderInv

LEMMA PeersOrder == ASSUME AgreeInv, OrderInv, Peers \/ readcb \/ on_read PROVE OrderInv'
<1>0. TypeInv /\ slot \in [Side -> Message]
  BY DEF AgreeInv, TypeInv, TypeOK
<1>1. UNCHANGED <<inputVars, clientVars, out>>
  <2>1. CASE App \/ Origin
    BY <2>1, PeerWrites DEF Write
  <2>2. CASE readcb \/ on_read
    BY <2>2 DEF readcb, on_read
  <2> QED
    BY <2>1, <2>2 DEF Peers, PeerClose
<1>2. /\ \A s \in Side : slot'[s] \in {slot[s], NoMessage}
      /\ up' = up \/ up' = "http2"
  <2>1. CASE App \/ Origin
    BY <2>1, PeerWrites DEF Write, serverVars
  <2>2. CASE readcb
    BY <1>0, <2>2 DEF readcb, Side
  <2>3. CASE on_read
    BY <2>3 DEF on_read, serverVars
  <2> QED
    BY <2>1, <2>2, <2>3 DEF Peers, PeerClose, serverVars
<1>3. \A s \in Side : Carried(s)' = Carried(s)
  BY <1>1, CarriedSame
<1>4. \A s \in Side : read'[s] \in Nat /\ read[s] <= read'[s]
  BY <1>0, <1>1, SameReads
<1> QED
  BY <1>1, <1>2, <1>3, <1>4, OrderKept DEF clientVars

LEMMA ParseOrder ==
    ASSUME AgreeInv, OrderInv, NEW s \in Side,
           ParseBegin(s) \/ ParseRest(s) \/ ParseShort(s) \/ ParseError(s)
    PROVE  OrderInv'
<1>0. TypeInv /\ slot \in [Side -> Message] /\ NothingWaits
  BY DEF AgreeInv, TypeInv, TypeOK, OrderInv
<1>1. /\ Taking(s, "http1")
      /\ UNCHANGED <<serverVars, client, protocol, down, out, handler>>
      /\ \/ UNCHANGED slot /\ (Take(s) \/ UNCHANGED <<read, readAs>>)
         \/ /\ Take(s)
            /\ \E m \in Message : m.units = Append(slot[s].units, read[s] + 1)
                                  /\ slot' = [slot EXCEPT ![s] = m]
  BY ParseSteps DEF Fed
<1>2. /\ \A t \in Side : read'[t] \in Nat /\ read[t] <= read'[t]
      /\ Take(s) => read[s] < read'[s]
  <2>1. \A t \in Side : read[t] \in Nat
    BY <1>0, SideTypes
  <2>2. Take(s) => /\ read'[s] = read[s] + 1
                   /\ \A t \in Side : read'[t] \in Nat /\ read[t] <= read'[t]
    BY <1>0, TakeReads
  <2>3. CASE Take(s)
    BY <2>1, <2>2, <2>3
  <2>4. CASE ~Take(s)
    BY <1>1, <2>1, <2>4
  <2> QED
    BY <2>3, <2>4
<1>3. \A t \in Side : Carried(t)' = Carried(t)
  BY <1>1, CarriedSame
<1>4. \A t \in Side : Ordered(t)'
  <2>1. ASSUME NEW t \in Side
        PROVE  \/ slot'[t] = slot[t]
               \/ read[t] < read'[t] /\ slot'[t].units = Append(slot[t].units, read[t] + 1)
    BY <1>0, <1>1, <1>2
  <2> TAKE t \in Side
  <2> QED
    BY <1>2, <1>3, <2>1, OrderStep
<1>5. NothingWaits'
  <2>1. ClassOf(s) = "http1" /\ \A t \in Side : ClassOf(t)' = ClassOf(t)
    BY <1>1 DEF Taking, ClassOf, serverVars
  <2>2. \A t \in Side : t # s => slot'[t] = slot[t]
    BY <1>0, <1>1
  <2>3. s = "down" => client = "connected"
    BY <1>1 DEF Taking, AgreeInv, SessionsOf
  <2>4. s # "down" => slot'["down"] = slot["down"]
    BY <2>2, SideNames
  <2> QED
    BY <1>0, <1>1, <2>1, <2>2, <2>3, <2>4 DEF NothingWaits
<1> QED
  BY <1>4, <1>5 DEF OrderInv

LEMMA TakeHttp2Order ==
    ASSUME AgreeInv, OrderInv, NEW s \in Side, TakePreface \/ TakeFrame(s) PROVE OrderInv'
<1>0. TypeInv
  BY DEF AgreeInv
<1>1. UNCHANGED <<serverVars, clientVars, slot, out>>
  BY DEF TakePreface, TakeFrame
<1>2. \A t \in Side : read'[t] \in Nat /\ read[t] <= read'[t]
  <2>1. \A t \in Side : read[t] \in Nat
    BY <1>0, SideTypes
  <2>2. CASE TakePreface
    <3>1. PICK k \in {0, 1, 2} : read' = [read EXCEPT !["up"] = @ + k]
      BY <1>0, <2>2, PrefaceTaken
    <3>2. \A t \in Side : read'[t] = read[t] \/ read'[t] = read[t] + k
      BY <1>0, <3>1 DEF TypeInv, TypeOK
    <3> QED
      BY <2>1, <3>1, <3>2
  <2>3. CASE TakeFrame(s)
    BY <1>0, <2>3, TakeReads DEF TakeFrame
  <2> QED
    BY <2>2, <2>3
<1> QED
  BY <1>1, <1>2, CarriedSame, OrderKept DEF serverVars, clientVars

LEMMA CopyOrder == ASSUME AgreeInv, OrderInv, NEW s \in Side, CopyBytes(s) PROVE OrderInv'
<1>0. TypeInv /\ NothingWaits /\ read[s] \in Nat /\ Carried(s) \in Seq(Nat)
  BY SideTypes, CarriedParts DEF AgreeInv, OrderInv
<1> DEFINE w == [kind |-> "raw", of |-> <<read[s] + 1>>]
<1>1. /\ Taking(s, "plane") /\ Take(s) /\ out' = [out EXCEPT ![Other(s)] = @ \o <<w>>]
      /\ UNCHANGED <<serverVars, clientVars, slot>>
  BY DEF CopyBytes, write
<1>2. w \in Written /\ <<w>> \in Seq(Written) /\ w.kind # "frame" /\ w.of = <<read[s] + 1>>
  <2>1. read[s] + 1 \in Nat
    BY <1>0
  <2>2. w \in Written
    BY <2>1, WrittenTypes DEF Written
  <2> QED
    BY <2>2
<1> HIDE DEF w
<1>3. /\ out'[Other(s)] = out[Other(s)] \o <<w>>
      /\ \A t \in Side : t # s => out'[Other(t)] = out[Other(t)]
  BY <1>0, <1>1, <1>2, OutSides
<1>4. Carried(s)' = Append(Carried(s), read[s] + 1)
  <2>1. Carried(s)' = Carried(s) \o <<read[s] + 1>>
    BY <1>0, <1>2, <1>3, CarriedOne
  <2>2. read[s] + 1 \in Nat
    BY <1>0
  <2> QED
    BY <1>0, <2>1, <2>2, AppendIsConcat
<1>5. /\ \A t \in Side : read'[t] \in Nat /\ read[t] <= read'[t]
      /\ read[s] < read'[s]
  <2>1. read'[s] = read[s] + 1 /\ \A t \in Side : read'[t] \in Nat /\ read[t] <= read'[t]
    BY <1>0, <1>1, TakeReads
  <2> QED
    BY <1>0, <2>1
<1>6. slot[s] = NoMessage
  BY <1>0, <1>1 DEF Taking, NothingWaits
<1>7. \A t \in Side : Ordered(t)'
  <2> TAKE t \in Side
  <2>1. CASE t = s
    BY <1>1, <1>4, <1>5, <1>6, <2>1, OrderStep
  <2>2. CASE t # s
    BY <1>1, <1>3, <1>5, <2>2, CarriedSame, OrderStep
  <2> QED
    BY <2>1, <2>2
<1>8. NothingWaits'
  BY <1>0, <1>1 DEF NothingWaits, ClassOf, serverVars, clientVars
<1> QED
  BY <1>7, <1>8 DEF OrderInv

LEMMA EndReads ==
    ASSUME TypeInv, UNCHANGED inputVars
    PROVE  \A s \in Side : read'[s] \in Nat /\ read[s] <= read'[s]
BY SameReads

LEMMA UpHttpOrder == ASSUME AgreeInv, OrderInv, UpHttpDone PROVE OrderInv'
<1>0. TypeInv /\ slot \in [Side -> Message] /\ NothingWaits /\ "up" \in Side /\ "down" \in Side
  BY SideNames DEF AgreeInv, TypeInv, TypeOK, OrderInv
<1>1. /\ UNCHANGED <<inputVars, serverVars>>
      /\ FlushRequest(slot["up"])
      /\ \E asked \in {"none", "http1", "both", "http2", "plane"} : InitClient(asked)
  <2> DEFINE m == slot["up"]
             asks == m # NoMessage /\ sent["up"][m.units[1]] = "begin"
             asked == CASE ~asks -> "none"
                        [] asks /\ m.h2 -> "both"
                        [] asks /\ ~m.h2 /\ m.connect -> "plane"
                        [] asks /\ ~m.h2 /\ ~m.connect -> "http1"
  <2>1. UNCHANGED <<inputVars, serverVars>> /\ FlushRequest(m) /\ InitClient(asked)
    BY DEF UpHttpDone
  <2>2. asked \in {"none", "http1", "both", "http2", "plane"}
    BY Zenon
  <2> HIDE DEF asked
  <2> QED
    BY <2>1, <2>2
<1>2. /\ client' \in {"none", "connecting"} => client \in {"none", "connecting"}
      /\ down' = down \/ client = "none"
  BY <1>1, InitClientSteps
<1>3. CASE UNCHANGED <<out, slot, recvwait>>
  <2>1. \A s \in Side : slot'[s] = slot[s] /\ Carried(s)' = Carried(s)
    BY <1>3, CarriedSame
  <2>2. down' = "plane" => down = "plane" \/ slot'["down"] = NoMessage
    BY <1>0, <1>2, <1>3 DEF NothingWaits
  <2> QED
    BY <1>0, <1>1, <1>2, <2>1, <2>2, EndReads, OrderKept DEF serverVars
<1>4. CASE /\ slot' = [slot EXCEPT !["up"] = NoMessage]
           /\ out' = [out EXCEPT !["down"] = @ \o <<Http1(slot["up"])>>]
  <2>1. slot'["up"] = NoMessage /\ slot'["down"] = slot["down"]
    BY <1>0, <1>4
  <2>2. /\ Carried("up")' = Carried("up") \o slot["up"].units
        /\ Carried("down")' = Carried("down")
    <3>1. out' = [out EXCEPT ![Other("up")] = @ \o <<Http1(slot["up"])>>]
      BY <1>4 DEF Other
    <3> QED
      BY <1>0, <3>1, MessageCarried
  <2>3. Ordered("up")' /\ Ordered("down")'
    BY <1>0, <1>1, <2>1, <2>2, EndReads, OrderStep
  <2>4. NothingWaits'
    BY <1>0, <1>1, <1>2, <2>1 DEF NothingWaits, ClassOf, serverVars, Side
  <2> QED
    BY <2>3, <2>4 DEF OrderInv, Side
<1> QED
  BY <1>1, <1>3, <1>4, FlushRequestSteps

LEMMA UpOthersOrder == ASSUME AgreeInv, OrderInv, UpHttp2Done \/ UpPlaneDone PROVE OrderInv'
<1>0. TypeInv
  BY DEF AgreeInv
<1>1. CASE UpHttp2Done
  <2>1. /\ UNCHANGED <<inputVars, serverVars, slot>> /\ FlushQueue("up")
        /\ InitClient("http2") \/ InitClient("none")
    BY <1>1 DEF UpHttp2Done
  <2>2. /\ client' \in {"none", "connecting"} => client \in {"none", "connecting"}
        /\ down' = down \/ down' = "http2"
    BY <2>1 DEF InitClient
  <2>3. \A s \in Side : Carried(s)' = Carried(s)
    BY <2>1, SideNames, FlushQueueCarried
  <2> QED
    BY <1>0, <2>1, <2>2, <2>3, EndReads, OrderKept DEF serverVars
<1>2. CASE UpPlaneDone
  BY <1>0, <1>2, CarriedSame, EndReads, OrderKept DEF UpPlaneDone, serverVars, clientVars
<1> QED
  BY <1>1, <1>2

LEMMA DownHttpOrder == ASSUME AgreeInv, OrderInv, DownHttpDone PROVE OrderInv'
<1>0. /\ TypeInv /\ slot \in [Side -> Message] /\ NothingWaits /\ "up" \in Side /\ "down" \in Side
      /\ slot["down"] \in Message /\ out["up"] \in Seq(Written)
  BY SideNames, SideTypes DEF AgreeInv, TypeInv, TypeOK, OrderInv
<1>1. /\ ReadEnds("down") /\ UNCHANGED <<inputVars, client>>
      /\ \A s \in Side : read'[s] \in Nat /\ read[s] <= read'[s]
  BY <1>0, DownHttpSteps, EndReads
<1>2. client = "connected"
  BY <1>1 DEF ReadEnds, AgreeInv, SessionsOf
<1>3. \/ UNCHANGED slot /\ UNCHANGED <<up, down>>
      \/ (\A s \in Side : slot'[s] = NoMessage)
      \/ UNCHANGED <<up, down>> /\ slot' = [slot EXCEPT !["down"] = NoMessage]
  <2>1. SwitchSessions => \A s \in Side : slot'[s] = NoMessage
    BY DEF SwitchSessions
  <2> QED
    BY <1>0, <2>1, DownHttpSteps
<1>4. CASE UNCHANGED out
  <2>1. \A s \in Side : slot'[s] \in {slot[s], NoMessage} /\ Carried(s)' = Carried(s)
    BY <1>0, <1>3, <1>4, CarriedSame
  <2>2. /\ up' = "plane" => up = "plane" \/ slot'["up"] = NoMessage
        /\ down' = "plane" => down = "plane" \/ slot'["down"] = NoMessage
    BY <1>0, <1>3
  <2> QED
    BY <1>1, <2>1, <2>2, OrderKept
<1>5. CASE out' = [out EXCEPT !["up"] = Append(@, Http1(slot["down"]))] /\ slot'["down"] = NoMessage
  <2>1. out' = [out EXCEPT ![Other("down")] = @ \o <<Http1(slot["down"])>>]
    <3>1. Http1(slot["down"]) \in Written
      BY <1>0 DEF Http1, Message, Written
    <3>2. Append(out["up"], Http1(slot["down"])) = out["up"] \o <<Http1(slot["down"])>>
      BY <1>0, <3>1, AppendIsConcat
    <3> QED
      BY <1>5, <3>2 DEF Other
  <2>2. /\ Carried("down")' = Carried("down") \o slot["down"].units
        /\ Carried("up")' = Carried("up")
    BY <1>0, <2>1, MessageCarried
  <2>3. slot'["up"] \in {slot["up"], NoMessage}
    BY <1>0, <1>3
  <2>4. Ordered("up")' /\ Ordered("down")'
    BY <1>0, <1>1, <1>5, <2>2, <2>3, OrderStep
  <2>5. NothingWaits'
    <3>1. \A s \in Side : slot'[s] = NoMessage \/ (ClassOf(s)' = ClassOf(s) /\ slot'[s] = slot[s])
      BY <1>0, <1>3 DEF ClassOf
    <3> QED
      BY <1>0, <1>1, <1>2, <3>1 DEF NothingWaits
  <2> QED
    BY <2>4, <2>5 DEF OrderInv, Side
<1>6. UNCHANGED out \/ (out' = [out EXCEPT !["up"] = Append(@, Http1(slot["down"]))] /\ slot'["down"] = NoMessage)
  <2>1. SwitchSessions => slot'["down"] = NoMessage
    BY <1>0 DEF SwitchSessions
  <2> QED
    BY <1>0, <2>1, DownHttpSteps
<1> QED
  BY <1>4, <1>5, <1>6

LEMMA DownOthersOrder == ASSUME AgreeInv, OrderInv, DownHttp2Done \/ DownPlaneDone PROVE OrderInv'
<1>0. TypeInv
  BY DEF AgreeInv
<1>1. UNCHANGED <<inputVars, serverVars, clientVars, slot>>
  BY DEF DownHttp2Done, DownPlaneDone
<1>2. \A s \in Side : Carried(s)' = Carried(s)
  BY SideNames, FlushQueueCarried, CarriedSame DEF DownHttp2Done, DownPlaneDone
<1> QED
  BY <1>0, <1>1, <1>2, EndReads, OrderKept DEF serverVars, clientVars

LEMMA OutcomeOrder == ASSUME AgreeInv, OrderInv, Outcome \/ removeSocket PROVE OrderInv'
<1>0. TypeInv /\ slot \in [Side -> Message] /\ NothingWaits /\ "up" \in Side /\ "down" \in Side
  BY SideNames DEF AgreeInv, TypeInv, TypeOK, OrderInv
<1>1. CASE ConnectedH2
  <2>1. /\ UNCHANGED inputVars /\ client' = "connected" /\ down' = "http2"
        /\ up' = "http2" \/ UNCHANGED up
        /\ slot' = [slot EXCEPT !["up"] = NoMessage] \/ UNCHANGED slot
        /\ write("up", <<Own("101")>>) \/ FlushQueue("up") \/ UNCHANGED out
    BY <1>1, ConnectedH2Steps
  <2>2. \A s \in Side : Carried(s)' = Carried(s)
    BY <1>0, <2>1, AnswerCarried, FlushQueueCarried, CarriedSame
  <2>3. \A s \in Side : slot'[s] \in {slot[s], NoMessage}
    BY <1>0, <2>1
  <2> QED
    BY <1>0, <2>1, <2>2, <2>3, EndReads, OrderKept
<1>2. CASE Refused
  <2>1. UNCHANGED <<inputVars, serverVars, down, slot>> /\ client' = "refused" /\ write("up", <<Own("goaway")>>)
    BY <1>2 DEF Refused
  <2> QED
    BY <1>0, <2>1, AnswerCarried, EndReads, OrderKept DEF serverVars
<1>3. CASE Connected
  <2>1. /\ UNCHANGED <<inputVars, down>> /\ client' = "connected"
        /\ \/ /\ up' = "plane" /\ slot' = [slot EXCEPT !["up"] = NoMessage]
              /\ write("up", <<Own("200")>>)
           \/ UNCHANGED up /\ FlushRequest(slot["up"])
           \/ UNCHANGED <<up, slot>> /\ (FlushQueue("up") \/ UNCHANGED out)
    BY <1>0, <1>3, ConnectedSteps
  <2>2. CASE /\ up' = "plane" /\ slot' = [slot EXCEPT !["up"] = NoMessage]
             /\ write("up", <<Own("200")>>)
    <3>1. slot'["up"] = NoMessage /\ slot'["down"] = slot["down"]
      BY <1>0, <2>2
    <3>2. \A s \in Side : slot'[s] \in {slot[s], NoMessage}
      BY <3>1 DEF Side
    <3> QED
      BY <1>0, <2>1, <2>2, <3>1, <3>2, AnswerCarried, EndReads, OrderKept
  <2>3. CASE UNCHANGED <<up, slot>> /\ (FlushQueue("up") \/ UNCHANGED out)
    <3>1. \A s \in Side : Carried(s)' = Carried(s)
      BY <1>0, <2>3, FlushQueueCarried, CarriedSame
    <3> QED
      BY <1>0, <2>1, <2>3, <3>1, EndReads, OrderKept
  <2>4. CASE UNCHANGED up /\ FlushRequest(slot["up"])
    <3>1. CASE UNCHANGED <<out, slot, recvwait>>
      BY <1>0, <2>1, <2>4, <3>1, CarriedSame, EndReads, OrderKept
    <3>2. CASE /\ slot' = [slot EXCEPT !["up"] = NoMessage]
               /\ out' = [out EXCEPT !["down"] = @ \o <<Http1(slot["up"])>>]
      <4>1. slot'["up"] = NoMessage /\ slot'["down"] = slot["down"]
        BY <1>0, <3>2
      <4>2. /\ Carried("up")' = Carried("up") \o slot["up"].units
            /\ Carried("down")' = Carried("down")
        <5>1. out' = [out EXCEPT ![Other("up")] = @ \o <<Http1(slot["up"])>>]
          BY <3>2 DEF Other
        <5> QED
          BY <1>0, <5>1, MessageCarried
      <4>3. Ordered("up")' /\ Ordered("down")'
        BY <1>0, <2>1, <4>1, <4>2, EndReads, OrderStep
      <4>4. NothingWaits'
        BY <1>0, <2>1, <2>4, <4>1 DEF NothingWaits, ClassOf, Side
      <4> QED
        BY <4>3, <4>4 DEF OrderInv, Side
    <3> QED
      BY <2>4, <3>1, <3>2, FlushRequestSteps
  <2> QED
    BY <2>1, <2>2, <2>3, <2>4
<1>4. CASE removeSocket
  BY <1>0, <1>4, CarriedSame, EndReads, OrderKept DEF removeSocket, serverVars, clientVars
<1> QED
  BY <1>1, <1>2, <1>3, <1>4 DEF Outcome, Failed

LEMMA NextOrder == AgreeInv /\ OrderInv /\ [Next]_vars => OrderInv'
<1> SUFFICES ASSUME AgreeInv, OrderInv, [Next]_vars PROVE OrderInv'
  OBVIOUS
<1>1. ASSUME NEW s \in Side, Callback(s) PROVE OrderInv'
  BY <1>1, PeersOrder, TakeHttp2Order, UpHttpOrder, UpOthersOrder, DownHttpOrder,
     DownOthersOrder, ParseOrder, CopyOrder, SideNames DEF Callback
<1>2. ASSUME NEW s \in Side, Closed(s) PROVE OrderInv'
  BY <1>2, OutcomeOrder DEF Closed
<1>3. ASSUME UNCHANGED vars PROVE OrderInv'
  BY <1>3, CarriedSame, EndReads, OrderKept DEF vars, AgreeInv, inputVars
<1> QED
  BY <1>1, <1>2, <1>3, PeersOrder, OutcomeOrder DEF Next

LEMMA OrderInOrder == OrderInv => InOrder
BY DEF OrderInv, Ordered, Ascending, InOrder

(***************************************************************************)
(* No part of a message is relayed twice and none overtakes another, in    *)
(* either direction, however requests are pipelined, responses interleaved *)
(* with interim ones, the one slot of a session reused by the next message *)
(* or its content dropped when the sessions change.                        *)
(***************************************************************************)
THEOREM InOrderCorrect == Spec => []InOrder
<1>1. Init => OrderInv
  BY InitOrder
<1> QED
  BY <1>1, InitAgree, NextAgree, NextOrder, OrderInOrder, PTL DEF Spec

-----------------------------------------------------------------------------
(***************************************************************************)
(* Peers that take turns.  An application that waits for its answers and   *)
(* an origin that answers what it has been sent write one message at a     *)
(* time, so a slot never meets a second one; what follows a change of      *)
(* protocol is of the new one.  How far an exchange has come is a matter   *)
(* of counting: requests written and relayed, responses written and told.  *)
(***************************************************************************)
Exchanging == plan \in {"get", "h2c", "other"}
Starts(s) == Cardinality(Of(s, {"begin"}))
Rests(s) == Cardinality(Of(s, {"rest"}))
Relays == Cardinality(Messages("down"))
Answers == Cardinality(Of("down", {"rest", "101"}))
Told == Cardinality(Answered)

Counts ==
    /\ Rests("up") <= Starts("up") /\ Starts("up") <= Told + 1
    /\ Answers <= Relays /\ Relays <= Rests("up")
    /\ Rests("down") <= Starts("down") /\ Starts("down") <= Rests("down") + 1

\* Where a side is in its message: everything has been taken; the beginning
\* has been written, and perhaps taken; or all of it has, and perhaps taken.
Quiet(s) == slot[s] = NoMessage /\ read[s] = Len(sent[s])
Opened(s, n) == slot[s].stat = "HEADER" /\ slot[s].units = <<n>> /\ ~slot[s].h2 /\ read[s] = n
Full(s, n) == slot[s].stat = "COMPLETE" /\ slot[s].units = <<n, n + 1>> /\ read[s] = n + 1
Half(s) ==
    \E n \in DOMAIN sent[s] :
       /\ n = Len(sent[s]) /\ sent[s][n] = "begin"
       /\ (slot[s] = NoMessage /\ read[s] = n - 1) \/ Opened(s, n)
Ended(s) ==
    \E n \in DOMAIN sent[s] :
       /\ n + 1 = Len(sent[s]) /\ sent[s][n] = "begin" /\ sent[s][n + 1] = "rest"
       /\ \/ slot[s] = NoMessage /\ read[s] = n - 1
          \/ Opened(s, n) /\ (plan = "connect" => handler = "up" /\ ~stopped)
          \/ Full(s, n) /\ (s = "down" => handler = "down")

\* The origin has agreed to another protocol, and perhaps begun to speak it.
NewKinds == IF plan = "h2c" THEN {"settings", "frame"} ELSE {"raw"}
Leaving ==
    \E n \in DOMAIN sent["down"] :
       /\ sent["down"][n] = "101"
       /\ \A k \in n + 1..Len(sent["down"]) : sent["down"][k] \in NewKinds
       /\ \/ slot["down"] = NoMessage /\ read["down"] = n - 1 /\ switching = ""
          \/ /\ slot["down"].stat = "COMPLETE" /\ slot["down"].units = <<n>> /\ read["down"] = n
             /\ handler = "down" /\ stopped /\ switching # ""

UpTurn ==
    plan # "direct" /\ up = "http1" =>
       \/ Quiet("up") /\ Starts("up") <= Rests("up")
       \/ Half("up") /\ Starts("up") > Rests("up") /\ plan # "connect"
       \/ Ended("up") /\ Starts("up") <= Rests("up") /\ Rests("up") > Relays
DownTurn ==
    Exchanging /\ down = "http1" =>
       \/ Leaving /\ Starts("down") <= Rests("down") /\ Relays <= Answers
       \/ /\ switching = "" /\ Of("down", {"101"}) = {}
          /\ \/ Quiet("down") /\ Starts("down") <= Rests("down")
             \/ Half("down") /\ Starts("down") > Rests("down") /\ Relays > Answers
             \/ Ended("down") /\ Starts("down") <= Rests("down") /\ Relays <= Answers

\* After the change of protocol nothing of HTTP/1 is left.
Over ==
    plan # "direct" /\ up # "http1" =>
       /\ Agreed /\ \A s \in Side : slot[s] = NoMessage
       /\ Starts("up") <= Rests("up") /\ Starts("down") <= Rests("down") /\ Relays <= Answers
       /\ switching = ""
Unread ==
    \A s \in Side : ClassOf(s) # "http1" =>
       \A n \in read[s] + 1..Len(sent[s]) : ClassFor(sent[s][n]) = ClassOf(s)

\* What orderly peers write, and when.
UpKinds ==
    /\ \A n \in DOMAIN sent["up"] :
       /\ sent["up"][n] \in {"settings", "frame"} => plan = "direct" \/ (plan = "h2c" /\ up = "http2")
       /\ sent["up"][n] = "raw" => up = "plane"
       /\ plan = "direct" => sent["up"][n] \in {"preface", "settings", "frame"}
       /\ sent["up"][n] # "preface1"
    /\ plan \in {"other", "connect"} /\ Agreed => up = "plane"
DownKinds ==
    \A n \in DOMAIN sent["down"] :
       /\ sent["down"][n] \in {"settings", "frame"} =>
            plan = "direct" \/ (plan = "h2c" /\ (Of("down", {"101"}) # {} \/ down = "http2"))
       /\ plan = "direct" => sent["down"][n] \in {"settings", "frame"}
       /\ sent["down"][n] # "100"
Opening ==
    plan = "direct" =>
       /\ Relays = 0 /\ up # "plane"
       /\ sent["up"] # <<>> => sent["up"][1] = "preface"
       /\ up = "http1" => read["up"] = 0 /\ handler # "up" /\ ~upgrade /\ ~tunnel
Reading ==
    /\ handler # "crashed" /\ \A s \in Side : ~dead[s]
    /\ handler = "down" /\ down = "http1" =>
          slot["down"] # NoMessage \/ (read["down"] < Len(sent["down"]) /\ ~stopped)
Readers ==
    \A s \in Side : /\ Len(readAs[s]) = read[s]
                    /\ \A n \in DOMAIN readAs[s] : readAs[s][n] = ClassFor(sent[s][n])

Turns == /\ Counts /\ UpTurn /\ DownTurn /\ Over
         /\ Unread /\ UpKinds /\ DownKinds /\ Opening
         /\ Reading /\ Readers /\ CompleteOnly
TurnInv == Orderly => Turns

-----------------------------------------------------------------------------
(***************************************************************************)
(* Counting.                                                               *)
(***************************************************************************)
At(q, K) == {n \in DOMAIN q : q[n] \in K}

LEMMA AtFinite ==
    ASSUME NEW S, NEW q \in Seq(S), NEW K
    PROVE  IsFiniteSet(At(q, K)) /\ Cardinality(At(q, K)) \in Nat
<1>1. At(q, K) \in SUBSET (1..Len(q)) /\ Len(q) \in Nat
  BY DEF At
<1>2. IsFiniteSet(1..Len(q))
  BY <1>1, FS_Interval
<1> QED
  BY <1>1, <1>2, FS_Subset, FS_CardinalityType

LEMMA AtAppend ==
    ASSUME NEW S, NEW q \in Seq(S), NEW e \in S, NEW K
    PROVE  /\ e \in K => Cardinality(At(Append(q, e), K)) = Cardinality(At(q, K)) + 1
           /\ e \notin K => At(Append(q, e), K) = At(q, K)
<1> DEFINE y == Append(q, e)
           n == Len(q) + 1
<1>1. /\ DOMAIN q = 1..Len(q) /\ Len(q) \in Nat
      /\ DOMAIN y = 1..n /\ y[n] = e /\ \A i \in 1..Len(q) : y[i] = q[i]
  BY AppendProperties
<1>2. 1..n = (1..Len(q)) \cup {n} /\ n \notin 1..Len(q)
  BY <1>1
<1> HIDE DEF y, n
<1>3. At(y, K) = IF e \in K THEN At(q, K) \cup {n} ELSE At(q, K)
  BY <1>1, <1>2 DEF At
<1>4. n \notin At(q, K)
  BY <1>1, <1>2 DEF At
<1>5. Cardinality(At(q, K) \cup {n}) = Cardinality(At(q, K)) + 1
  BY <1>4, AtFinite, FS_AddElement
<1> QED
  BY <1>3, <1>5 DEF y

LEMMA OfAt ==
    /\ \A s, K : Of(s, K) = At(sent[s], K)
    /\ \A s, K : Of(s, K)' = At(sent'[s], K)
BY DEF Of, At

LEMMA MessagesAt ==
    /\ \A s : out[s] \in Seq(Written) => Messages(s) = At(out[s], {w \in Written : w.kind = "http1"})
    /\ \A s : out'[s] \in Seq(Written) => Messages(s)' = At(out'[s], {w \in Written : w.kind = "http1"})
<1>1. ASSUME NEW q \in Seq(Written)
      PROVE  {n \in DOMAIN q : q[n].kind = "http1"} = At(q, {w \in Written : w.kind = "http1"})
  <2>1. \A n \in DOMAIN q : q[n] \in Written
    OBVIOUS
  <2> QED
    BY <2>1 DEF At
<1> QED
  BY <1>1 DEF Messages

\* What has been counted is a number, and no rest is told that was not written.
LEMMA Numbers ==
    ASSUME TypeInv
    PROVE  /\ \A s \in Side : Starts(s) \in Nat /\ Rests(s) \in Nat
           /\ Relays \in Nat /\ Answers \in Nat /\ Told \in Nat
           /\ Told <= Rests("down") /\ Rests("down") <= Answers
           /\ Of("down", {"101"}) # {} => Rests("down") + 1 <= Answers
           /\ Told = Rests("down") => Answered = Of("down", {"rest"})
<1>0. "up" \in Side /\ "down" \in Side
  BY SideNames
<1>1. \A s \in Side : sent[s] \in Seq(Kind) /\ out[s] \in Seq(Written)
  BY SideTypes
<1>2. \A s \in Side : \A K : IsFiniteSet(Of(s, K)) /\ Cardinality(Of(s, K)) \in Nat
  BY <1>1, AtFinite, OfAt
<1>3. \A s \in Side : Starts(s) \in Nat /\ Rests(s) \in Nat
  BY <1>2 DEF Starts, Rests
<1>4. Answers \in Nat
  BY <1>0, <1>2 DEF Answers
<1>5. Relays \in Nat
  BY <1>0, <1>1, AtFinite, MessagesAt DEF Relays
<1> DEFINE R == Of("down", {"rest"})
           A == Of("down", {"rest", "101"})
<1>6. IsFiniteSet(R) /\ IsFiniteSet(A) /\ R \subseteq A /\ Answered \subseteq R
  BY <1>0, <1>2 DEF Of, Answered
<1> HIDE DEF R, A
<1>7. /\ IsFiniteSet(Answered) /\ Cardinality(Answered) <= Cardinality(R)
      /\ Cardinality(Answered) = Cardinality(R) => Answered = R
      /\ Cardinality(R) <= Cardinality(A)
      /\ Cardinality(R) = Cardinality(A) => R = A
      /\ Cardinality(Answered) \in Nat /\ Cardinality(R) \in Nat /\ Cardinality(A) \in Nat
  BY <1>6, FS_Subset, FS_CardinalityType
<1>8. Of("down", {"101"}) # {} => R # A
  BY DEF R, A, Of
<1>9. Of("down", {"101"}) # {} => Cardinality(R) + 1 <= Cardinality(A)
  BY <1>7, <1>8
<1> QED
  BY <1>3, <1>4, <1>5, <1>7, <1>9 DEF Rests, Told, Answers, R, A

\* A peer writes: only its own units become more, and nothing is told by it.
LEMMA WriteKeeps ==
    ASSUME AgreeInv, NEW s \in Side, NEW units \in Seq(Kind), Write(s, units)
    PROVE  /\ sent'[s] = sent[s] \o units
           /\ \A t \in Side : t # s => sent'[t] = sent[t] /\ \A K : Of(t, K)' = Of(t, K)
           /\ \A t \in Side : \A n \in 1..read[t] : sent'[t][n] = sent[t][n]
           /\ UNCHANGED <<plan, manners, up, down, switching, upgrade, tunnel, slot, read, readAs,
                          dead, handler, stopped, out, client>>
           /\ handler = "idle" /\ Told' = Told /\ Relays' = Relays
<1>0. TypeInv
  BY DEF AgreeInv
<1>1. /\ UNCHANGED <<plan, manners, up, down, switching, upgrade, tunnel, slot, read, readAs,
                     dead, handler, stopped, out, client>>
      /\ handler = "idle" /\ sent' = [sent EXCEPT ![s] = @ \o units]
  BY DEF Write, serverVars, inputVars, clientVars
<1>2. sent \in [Side -> Seq(Kind)] /\ \A t \in Side : sent[t] \in Seq(Kind)
  BY <1>0 DEF TypeInv, TypeOK
<1>3. sent'[s] = sent[s] \o units /\ \A t \in Side : t # s => sent'[t] = sent[t]
  BY <1>1, <1>2
<1>4. \A t \in Side : t # s => \A K : Of(t, K)' = Of(t, K)
  BY <1>3, OfAt
<1>5. ASSUME NEW t \in Side, NEW n \in 1..Len(sent[t])
      PROVE  n \in DOMAIN sent[t] /\ n \in DOMAIN sent'[t] /\ sent'[t][n] = sent[t][n]
  <2>1. n \in 1..Len(sent[t]) /\ Len(sent[t]) \in Nat /\ DOMAIN sent[t] = 1..Len(sent[t])
    BY <1>2, <1>5
  <2>2. CASE t = s
    BY <1>2, <1>3, <2>1, <2>2
  <2>3. CASE t # s
    BY <1>3, <2>1, <2>3
  <2> QED
    BY <2>2, <2>3
<1>6. \A t \in Side : \A n \in 1..read[t] : n \in 1..Len(sent[t])
  BY <1>0, SideTypes
<1>7. Answered' = Answered
  <2>1. \A n : (\E w \in Range(out["up"]) : n \in Range(w.of)) => n \in 1..read["down"]
    <3>1. \A k \in DOMAIN out["up"] : Within(out["up"][k].of, read["down"])
      BY SideNames DEF AgreeInv, Positions, OutRead, Other
    <3> QED
      BY <3>1 DEF Range, Within
  <2>2. \A n \in 1..read["down"] : /\ n \in DOMAIN sent["down"] /\ n \in DOMAIN sent'["down"]
                                   /\ sent'["down"][n] = sent["down"][n]
    BY <1>5, <1>6, SideNames
  <2> QED
    BY <1>1, <2>1, <2>2 DEF Answered, Of
<1>8. Relays' = Relays
  BY <1>1 DEF Relays, Messages
<1> QED
  BY <1>1, <1>3, <1>4, <1>5, <1>6, <1>7, <1>8 DEF Told

\* What one unit more, and a whole message more, is in the counts.
LEMMA WroteOne ==
    ASSUME AgreeInv, NEW s \in Side, NEW k \in Kind, Write(s, <<k>>)
    PROVE  /\ DOMAIN sent'[s] = 1..(Len(sent[s]) + 1) /\ Len(sent'[s]) = Len(sent[s]) + 1
           /\ sent'[s][Len(sent[s]) + 1] = k
           /\ \A i \in 1..Len(sent[s]) : sent'[s][i] = sent[s][i]
           /\ Starts(s)' = IF k = "begin" THEN Starts(s) + 1 ELSE Starts(s)
           /\ Rests(s)' = IF k = "rest" THEN Rests(s) + 1 ELSE Rests(s)
           /\ k # "101" => Of(s, {"101"})' = Of(s, {"101"})
           /\ s = "down" => Answers' = IF k \in {"rest", "101"} THEN Answers + 1 ELSE Answers
           /\ \A t \in Side : t # s => Starts(t)' = Starts(t) /\ Rests(t)' = Rests(t)
           /\ s = "up" => Answers' = Answers
<1>1. sent[s] \in Seq(Kind)
  BY SideTypes DEF AgreeInv
<1>2. <<k>> \in Seq(Kind) /\ sent[s] \o <<k>> = Append(sent[s], k)
  BY <1>1, AppendIsConcat
<1>3. /\ sent'[s] = Append(sent[s], k)
      /\ \A t \in Side : t # s => \A K : Of(t, K)' = Of(t, K)
  BY <1>2, WriteKeeps
<1>4. \A K : /\ k \in K => Cardinality(Of(s, K)') = Cardinality(Of(s, K)) + 1
             /\ k \notin K => Of(s, K)' = Of(s, K)
  <2> TAKE K
  <2>1. /\ k \in K => Cardinality(At(Append(sent[s], k), K)) = Cardinality(At(sent[s], K)) + 1
        /\ k \notin K => At(Append(sent[s], k), K) = At(sent[s], K)
    BY <1>1, AtAppend
  <2>2. Of(s, K) = At(sent[s], K) /\ Of(s, K)' = At(Append(sent[s], k), K)
    BY <1>3, OfAt
  <2> QED
    BY <2>1, <2>2
<1>5. /\ k \in {"begin"} <=> k = "begin"
      /\ k \in {"rest"} <=> k = "rest"
      /\ k \in {"101"} <=> k = "101"
  OBVIOUS
<1>6. /\ Starts(s)' = IF k = "begin" THEN Starts(s) + 1 ELSE Starts(s)
      /\ Rests(s)' = IF k = "rest" THEN Rests(s) + 1 ELSE Rests(s)
      /\ k # "101" => Of(s, {"101"})' = Of(s, {"101"})
  BY <1>4, <1>5 DEF Starts, Rests
<1>7. s = "down" => Answers' = IF k \in {"rest", "101"} THEN Answers + 1 ELSE Answers
  BY <1>4 DEF Answers
<1>8. \A t \in Side : t # s => Starts(t)' = Starts(t) /\ Rests(t)' = Rests(t)
  BY <1>3 DEF Starts, Rests
<1>9. s = "up" => Answers' = Answers
  BY <1>3, SideNames DEF Answers
<1>10. /\ DOMAIN sent'[s] = 1..(Len(sent[s]) + 1) /\ Len(sent'[s]) = Len(sent[s]) + 1
       /\ sent'[s][Len(sent[s]) + 1] = k
       /\ \A i \in 1..Len(sent[s]) : sent'[s][i] = sent[s][i]
  BY <1>1, <1>3, AppendProperties
<1> QED
  BY <1>6, <1>7, <1>8, <1>9, <1>10

LEMMA WroteBoth ==
    ASSUME AgreeInv, Write("up", <<"begin", "rest">>)
    PROVE  /\ DOMAIN sent'["up"] = 1..(Len(sent["up"]) + 2) /\ Len(sent'["up"]) = Len(sent["up"]) + 2
           /\ sent'["up"][Len(sent["up"]) + 1] = "begin" /\ sent'["up"][Len(sent["up"]) + 2] = "rest"
           /\ \A i \in 1..Len(sent["up"]) : sent'["up"][i] = sent["up"][i]
           /\ Starts("up")' = Starts("up") + 1 /\ Rests("up")' = Rests("up") + 1
           /\ Starts("down")' = Starts("down") /\ Rests("down")' = Rests("down") /\ Answers' = Answers
<1> DEFINE q == sent["up"]
           a == Append(q, "begin")
<1>1. q \in Seq(Kind) /\ "begin" \in Kind /\ "rest" \in Kind /\ "up" \in Side /\ "down" \in Side
  BY SideTypes, SideNames DEF AgreeInv, Kind
<1>2. a \in Seq(Kind) /\ <<"begin", "rest">> \in Seq(Kind)
  BY <1>1
<1>3. q \o <<"begin", "rest">> = Append(a, "rest")
  BY <1>1
<1>4. /\ sent'["up"] = Append(a, "rest")
      /\ \A K : Of("down", K)' = Of("down", K)
  <2>1. /\ sent'["up"] = q \o <<"begin", "rest">>
        /\ \A t \in Side : t # "up" => \A K : Of(t, K)' = Of(t, K)
    BY <1>1, <1>2, WriteKeeps
  <2> QED
    BY <1>1, <1>3, <2>1
<1>5. /\ DOMAIN a = 1..(Len(q) + 1) /\ Len(a) = Len(q) + 1 /\ Len(q) \in Nat
      /\ a[Len(q) + 1] = "begin" /\ \A i \in 1..Len(q) : a[i] = q[i]
  BY <1>1, AppendProperties
<1>6. /\ Cardinality(At(a, {"begin"})) = Cardinality(At(q, {"begin"})) + 1
      /\ At(a, {"rest"}) = At(q, {"rest"})
  <2>1. "begin" \in {"begin"} /\ "begin" \notin {"rest"}
    OBVIOUS
  <2> HIDE DEF q
  <2> QED
    BY <1>1, <2>1, AtAppend
<1> HIDE DEF q, a
<1>7. /\ DOMAIN sent'["up"] = 1..(Len(a) + 1) /\ Len(sent'["up"]) = Len(a) + 1
      /\ sent'["up"][Len(a) + 1] = "rest" /\ \A i \in 1..Len(a) : sent'["up"][i] = a[i]
  BY <1>1, <1>2, <1>4, AppendProperties
<1>8. /\ Cardinality(At(sent'["up"], {"rest"})) = Cardinality(At(a, {"rest"})) + 1
      /\ At(sent'["up"], {"begin"}) = At(a, {"begin"})
  <2>1. "rest" \in {"rest"} /\ "rest" \notin {"begin"}
    OBVIOUS
  <2> QED
    BY <1>1, <1>2, <1>4, <2>1, AtAppend
<1>9. Starts("up")' = Starts("up") + 1 /\ Rests("up")' = Rests("up") + 1
  BY <1>6, <1>8, OfAt DEF Starts, Rests, q
<1>10. Starts("down")' = Starts("down") /\ Rests("down")' = Rests("down") /\ Answers' = Answers
  BY <1>4 DEF Starts, Rests, Answers
<1>11. Len(a) + 1 = Len(q) + 2 /\ Len(q) + 1 \in 1..Len(a) /\ \A i \in 1..Len(q) : i \in 1..Len(a)
  BY <1>5
<1>12. sent'["up"][Len(q) + 1] = "begin" /\ \A i \in 1..Len(q) : sent'["up"][i] = q[i]
  BY <1>5, <1>7, <1>11
<1> QED
  BY <1>7, <1>9, <1>10, <1>11, <1>12 DEF q

\* More is written to the peer of a side, but no message of HTTP/1.
LEMMA OtherUnits ==
    ASSUME AgreeInv, UNCHANGED sent, NEW s \in Side, NEW units \in Seq(Written),
           out' = [out EXCEPT ![s] = @ \o units], \A i \in DOMAIN units : units[i].kind # "http1"
    PROVE  /\ \A t \in Side : /\ Messages(t)' = Messages(t)
                              /\ \A n \in DOMAIN out[t] : n \in DOMAIN out'[t] /\ out'[t][n] = out[t][n]
<1>1. out \in [Side -> Seq(Written)] /\ \A t \in Side : out[t] \in Seq(Written)
  BY DEF AgreeInv, TypeInv, TypeOK
<1>2. out'[s] = out[s] \o units /\ \A t \in Side : t # s => out'[t] = out[t]
  BY <1>1
<1>3. CASE TRUE
  <2>1. /\ DOMAIN out[s] = 1..Len(out[s]) /\ Len(out[s]) \in Nat /\ Len(units) \in Nat
        /\ DOMAIN units = 1..Len(units)
        /\ DOMAIN out'[s] = 1..(Len(out[s]) + Len(units))
        /\ \A n \in 1..(Len(out[s]) + Len(units)) :
             out'[s][n] = IF n <= Len(out[s]) THEN out[s][n] ELSE units[n - Len(out[s])]
    BY <1>1, <1>2, ConcatProperties
  <2>2. \A n \in DOMAIN out[s] : n \in DOMAIN out'[s] /\ out'[s][n] = out[s][n]
    BY <2>1
  <2>3. ASSUME NEW n \in DOMAIN out'[s], n \notin DOMAIN out[s] PROVE out'[s][n].kind # "http1"
    <3>1. n - Len(out[s]) \in DOMAIN units /\ out'[s][n] = units[n - Len(out[s])]
      BY <2>1, <2>3
    <3> QED
      BY <3>1
  <2>4. Messages(s)' = Messages(s)
    BY <2>2, <2>3 DEF Messages
  <2> QED
    BY <1>2, <2>2, <2>4 DEF Messages
<1> QED
  BY <1>3

\* One more message of HTTP/1 is relayed.
LEMMA OneMessageMore ==
    ASSUME AgreeInv, NEW s \in Side, NEW w \in Written, w.kind = "http1",
           out' = [out EXCEPT ![s] = @ \o <<w>>]
    PROVE  /\ Cardinality(Messages(s)') = Cardinality(Messages(s)) + 1
           /\ \A t \in Side : t # s => Messages(t)' = Messages(t) /\ out'[t] = out[t]
           /\ \A n \in Messages(s)' : (n \in Messages(s) /\ out'[s][n] = out[s][n]) \/ out'[s][n] = w
           /\ \E n \in DOMAIN out'[s] : out'[s][n] = w
           /\ \A n \in DOMAIN out[s] : n \in DOMAIN out'[s] /\ out'[s][n] = out[s][n]
<1>1. out \in [Side -> Seq(Written)] /\ \A t \in Side : out[t] \in Seq(Written)
  BY DEF AgreeInv, TypeInv, TypeOK
<1>2. out'[s] = Append(out[s], w) /\ \A t \in Side : t # s => out'[t] = out[t]
  BY <1>1, AppendIsConcat
<1>3. out'[s] \in Seq(Written)
  BY <1>1, <1>2
<1> DEFINE H == {v \in Written : v.kind = "http1"}
<1>4. w \in H
  OBVIOUS
<1>5. Messages(s) = At(out[s], H) /\ Messages(s)' = At(out'[s], H)
  BY <1>1, <1>3, MessagesAt
<1> HIDE DEF H
<1>6. Cardinality(Messages(s)') = Cardinality(Messages(s)) + 1
  BY <1>1, <1>2, <1>4, <1>5, AtAppend
<1>7. \A t \in Side : t # s => Messages(t)' = Messages(t) /\ out'[t] = out[t]
  BY <1>2 DEF Messages
<1>8. /\ DOMAIN out[s] = 1..Len(out[s]) /\ Len(out[s]) \in Nat
      /\ DOMAIN out'[s] = 1..(Len(out[s]) + 1) /\ out'[s][Len(out[s]) + 1] = w
      /\ \A n \in 1..Len(out[s]) : out'[s][n] = out[s][n]
  BY <1>1, <1>2, AppendProperties
<1>9. \A n \in DOMAIN out'[s] : (n \in DOMAIN out[s] /\ out'[s][n] = out[s][n]) \/ out'[s][n] = w
  BY <1>8
<1>10. \A n \in Messages(s)' : (n \in Messages(s) /\ out'[s][n] = out[s][n]) \/ out'[s][n] = w
  BY <1>9 DEF Messages
<1>11. /\ \E n \in DOMAIN out'[s] : out'[s][n] = w
       /\ \A n \in DOMAIN out[s] : n \in DOMAIN out'[s] /\ out'[s][n] = out[s][n]
  <2>1. Len(out[s]) + 1 \in DOMAIN out'[s] /\ \A n \in 1..Len(out[s]) : n \in 1..(Len(out[s]) + 1)
    BY <1>8
  <2> QED
    BY <1>8, <2>1
<1> QED
  BY <1>6, <1>7, <1>10, <1>11

\* Nothing that has been told is taken back.
LEMMA ToldGrows ==
    ASSUME AgreeInv, TypeInv', UNCHANGED sent,
           \A n \in DOMAIN out["up"] : n \in DOMAIN out'["up"] /\ out'["up"][n] = out["up"][n]
    PROVE  /\ Told <= Told' /\ Told' \in Nat /\ Told' <= Rests("down")
           /\ Agreed => Agreed'
           /\ \A s, K : Of(s, K)' = Of(s, K)
           /\ \A s : Starts(s)' = Starts(s) /\ Rests(s)' = Rests(s)
           /\ Answers' = Answers
<1>1. /\ \A s, K : Of(s, K)' = Of(s, K)
      /\ \A s : Starts(s)' = Starts(s) /\ Rests(s)' = Rests(s)
      /\ Answers' = Answers
  BY DEF Of, Starts, Rests, Answers
<1>2. \A w \in Range(out["up"]) : w \in Range(out'["up"])
  BY DEF Range
<1>3. Answered \subseteq Answered' /\ Answered' \subseteq Of("down", {"rest"})
  BY <1>1, <1>2 DEF Answered
<1>4. IsFiniteSet(Of("down", {"rest"})) /\ Cardinality(Of("down", {"rest"})) \in Nat
  BY SideTypes, SideNames, AtFinite, OfAt DEF AgreeInv
<1>5. /\ IsFiniteSet(Answered') /\ Cardinality(Answered') \in Nat
      /\ Cardinality(Answered) <= Cardinality(Answered')
      /\ Cardinality(Answered') <= Cardinality(Of("down", {"rest"}))
  BY <1>3, <1>4, FS_Subset, FS_CardinalityType
<1>6. Agreed => Agreed'
  BY <1>2 DEF Agreed
<1> QED
  BY <1>1, <1>5, <1>6 DEF Told, Rests

-----------------------------------------------------------------------------
(***************************************************************************)
(* What orderly peers may write.                                           *)
(***************************************************************************)
LEMMA AppCases ==
    ASSUME AgreeInv, Orderly, Turns, App
    PROVE  \/ /\ plan # "direct" /\ up = "http1" /\ Quiet("up")
              /\ Starts("up") = Rests("up") /\ Told = Rests("up")
              /\ Write("up", <<"begin", "rest">>) \/ (plan # "connect" /\ Write("up", <<"begin">>))
           \/ /\ plan # "direct" /\ up = "http1" /\ Half("up") /\ plan # "connect"
              /\ Starts("up") > Rests("up") /\ Write("up", <<"rest">>)
           \/ \E k \in {"preface", "settings", "frame", "raw"} :
                 /\ Write("up", <<k>>)
                 /\ k # "raw" => (plan = "direct" /\ up # "plane") \/ (plan = "h2c" /\ up = "http2")
                 /\ k = "raw" => plan # "direct" /\ up = "plane"
                 /\ plan = "direct" /\ k # "preface" => sent["up"] # <<>>
<1>0. /\ TypeInv /\ Starts("up") \in Nat /\ Rests("up") \in Nat /\ Relays \in Nat /\ Answers \in Nat
      /\ Told \in Nat /\ Told <= Rests("down") /\ Rests("down") <= Answers /\ Rests("down") \in Nat
  BY Numbers, SideNames DEF AgreeInv
<1>1. /\ Counts /\ UpTurn /\ Over /\ UpKinds /\ Opening
      /\ \A x : x \notin manners
  BY DEF Turns, Orderly
<1>2. CASE AppRequest
  <2>1. /\ plan # "direct" /\ ~Agreed /\ Starts("up") = Rests("up") /\ Told = Rests("up")
        /\ Write("up", <<"begin", "rest">>) \/ (plan # "connect" /\ Write("up", <<"begin">>))
    BY <1>1, <1>2 DEF AppRequest, Starts, Rests, Told
  <2>2. up = "http1"
    BY <1>1, <2>1 DEF Over
  <2>3. ~(Starts("up") > Rests("up")) /\ ~(Rests("up") > Relays)
    BY <1>0, <1>1, <2>1 DEF Counts
  <2> QED
    BY <1>1, <2>1, <2>2, <2>3 DEF UpTurn
<1>3. CASE AppRest
  <2>1. Starts("up") > Rests("up") /\ Write("up", <<"rest">>)
    BY <1>3 DEF AppRest, Starts, Rests
  <2>2. plan # "direct"
    <3>1. plan = "direct" => Starts("up") = 0
      BY <1>0, OfFinite, SideNames DEF AgreeInv, AppKinds, Starts
    <3> QED
      BY <1>0, <2>1, <3>1
  <2>3. ~(Starts("up") <= Rests("up"))
    BY <1>0, <2>1
  <2>4. up = "http1"
    BY <1>1, <2>2, <2>3 DEF Over
  <2> QED
    BY <1>1, <2>1, <2>2, <2>3, <2>4 DEF UpTurn
<1>4. /\ plan = "h2c" /\ Agreed => up = "http2"
      /\ plan = "direct" => up # "plane"
      /\ \A n \in DOMAIN sent["up"] :
            sent["up"][n] \in {"preface", "preface1", "preface2", "settings", "frame"} =>
                /\ plan = "direct" \/ (plan = "h2c" /\ up = "http2")
                /\ sent["up"] # <<>>
  <2>1. \A n \in DOMAIN sent["up"] : sent["up"] # <<>>
    BY NothingIn
  <2> QED
    BY <1>1, <2>1 DEF AgreeInv, SessionsOf, AppKinds, UpKinds, Opening
<1>5. CASE AppPreface
  <2>1. Of("up", {"preface1"}) = {} /\ "fragments" \notin manners
    BY <1>1 DEF UpKinds, Of
  <2>2. Write("up", <<"preface">>) /\ (plan = "direct" \/ (plan = "h2c" /\ Agreed))
    BY <1>5, <2>1 DEF AppPreface
  <2> QED
    BY <1>4, <2>2
<1>6. CASE AppSettings
  <2>1. Write("up", <<"settings">>) /\ \E n \in DOMAIN sent["up"] : sent["up"][n] \in {"preface", "preface2"}
    BY <1>6 DEF AppSettings, Of
  <2> QED
    BY <1>4, <2>1
<1>7. CASE AppFrame
  <2>1. Write("up", <<"frame">>) /\ \E n \in DOMAIN sent["up"] : sent["up"][n] = "settings"
    BY <1>7 DEF AppFrame, Of
  <2> QED
    BY <1>4, <2>1
<1>8. CASE AppRaw
  <2>1. plan \in {"connect", "other"} /\ Agreed /\ Write("up", <<"raw">>)
    BY <1>1, <1>8 DEF AppRaw
  <2>2. up = "plane"
    BY <1>1, <2>1 DEF UpKinds
  <2> QED
    BY <2>1, <2>2
<1> QED
  BY <1>2, <1>3, <1>5, <1>6, <1>7, <1>8 DEF App

LEMMA OriginCases ==
    ASSUME AgreeInv, Orderly, Turns, Origin
    PROVE  \/ /\ Exchanging /\ down = "http1" /\ Quiet("down") /\ Starts("down") <= Rests("down")
              /\ switching = "" /\ Of("down", {"101"}) = {} /\ Relays > Answers
              /\ \/ Write("down", <<"begin">>)
                 \/ plan \in {"h2c", "other"} /\ Write("down", <<"101">>)
           \/ /\ Exchanging /\ down = "http1" /\ Half("down") /\ Starts("down") > Rests("down")
              /\ switching = "" /\ Of("down", {"101"}) = {} /\ Relays > Answers
              /\ Write("down", <<"rest">>)
           \/ \E k \in {"settings", "frame", "raw"} :
                 /\ Write("down", <<k>>)
                 /\ down # "http1" => ClassFor(k) = down
                 /\ Exchanging /\ down = "http1" => Leaving /\ k \in NewKinds
                 /\ k # "raw" => \/ plan = "direct"
                                 \/ plan = "h2c" /\ (Of("down", {"101"}) # {} \/ down = "http2")
                 /\ plan = "direct" => k # "raw"
<1>0. /\ TypeInv /\ Starts("down") \in Nat /\ Rests("down") \in Nat /\ Relays \in Nat /\ Answers \in Nat
  BY Numbers, SideNames DEF AgreeInv
<1>1. /\ DownTurn /\ Over /\ DownKinds /\ Opening
      /\ \A x : x \notin manners
  BY DEF Turns, Orderly
<1>2. /\ plan \in {"get", "connect", "h2c", "other", "direct"} /\ up \in Class /\ down \in Class
      /\ plan \in {"get", "h2c", "other"} => up = down
      /\ plan = "direct" => down \in {"http1", "http2"}
      /\ plan = "other" => down # "http2"
      /\ plan = "h2c" => down # "plane"
      /\ plan = "connect" => down # "http2" /\ (client = "connected" => down = "plane")
  <2>1. plan \in {"get", "connect", "h2c", "other", "direct"} /\ up \in Class /\ down \in Class
        /\ client \in {"none", "connecting", "connected", "refused"}
    BY <1>0, ConstantsAssumption DEF TypeInv, TypeOK
  <2> QED
    BY <2>1 DEF AgreeInv, SessionsOf
<1>3. plan = "direct" => Relays = 0 /\ Starts("down") = 0
  <2>1. plan = "direct" => Starts("down") = 0
    BY <1>0, <1>1, OfFinite, SideNames DEF DownKinds, Starts
  <2> QED
    BY <1>1, <2>1 DEF Opening
<1>4. plan = "connect" => Relays = 0 /\ Starts("down") = 0
  <2>1. plan = "connect" => Starts("down") = 0
    BY <1>0, OfFinite, SideNames DEF AgreeInv, ConnectKinds, Starts
  <2>2. plan = "connect" => Messages("down") = {}
    BY DEF AgreeInv, ConnectKinds, Messages
  <2> QED
    BY <2>1, <2>2, FS_EmptySet DEF Relays
<1>5. Relays > Answers \/ Starts("down") > Rests("down") => Exchanging /\ down = "http1"
  <2>1. Relays > Answers => ~(Relays <= Answers)
    BY <1>0
  <2>2. Starts("down") > Rests("down") => ~(Starts("down") <= Rests("down"))
    BY <1>0
  <2>3. Relays > Answers \/ Starts("down") > Rests("down") => plan \notin {"direct", "connect"}
    BY <1>0, <1>3, <1>4
  <2> QED
    BY <1>1, <1>2, <2>1, <2>2, <2>3 DEF Over, Exchanging
<1>6. ASSUME Relays > Answers, ~(Starts("down") > Rests("down"))
      PROVE  /\ Exchanging /\ down = "http1" /\ Quiet("down") /\ Starts("down") <= Rests("down")
             /\ switching = "" /\ Of("down", {"101"}) = {}
  <2>1. ~(Relays <= Answers)
    BY <1>0, <1>6
  <2> QED
    BY <1>1, <1>5, <1>6, <2>1 DEF DownTurn
<1>7. CASE OriginInterim
  BY <1>1, <1>7 DEF OriginInterim
<1>8. CASE OriginBegin \/ OriginSwitch
  <2>1. Relays > Answers /\ ~(Starts("down") > Rests("down"))
    BY <1>8 DEF OriginBegin, OriginSwitch, Unanswered, Responding, Relays, Answers, Starts, Rests
  <2>2. \/ Write("down", <<"begin">>)
        \/ plan \in {"h2c", "other"} /\ Write("down", <<"101">>)
    BY <1>8 DEF OriginBegin, OriginSwitch
  <2> QED
    BY <1>6, <2>1, <2>2
<1>9. CASE OriginRest
  <2>1. Starts("down") > Rests("down") /\ Write("down", <<"rest">>)
    BY <1>9 DEF OriginRest, Responding, Starts, Rests
  <2>2. ~(Starts("down") <= Rests("down"))
    BY <1>0, <2>1
  <2> QED
    BY <1>1, <1>5, <2>1, <2>2 DEF DownTurn
<1>10. Of("down", {"101"}) # {} /\ Exchanging /\ down = "http1" => Leaving
  BY <1>1 DEF DownTurn
<1>11. CASE OriginSettings
  <2>1. /\ Write("down", <<"settings">>)
        /\ down = "http2" \/ (plan = "h2c" /\ Of("down", {"101"}) # {})
    BY <1>11 DEF OriginSettings
  <2>2. ClassFor("settings") = "http2"
    BY DEF ClassFor
  <2>3. plan = "direct" \/ (plan = "h2c" /\ (Of("down", {"101"}) # {} \/ down = "http2"))
    BY <1>2, <2>1 DEF AgreeInv, SessionsOf
  <2>4. (down # "http1" => down = "http2") /\ (Exchanging /\ down = "http1" => Leaving /\ "settings" \in NewKinds)
    BY <1>2, <1>10, <2>1, <2>3 DEF Class, NewKinds, Exchanging
  <2> QED
    BY <2>1, <2>2, <2>3, <2>4
<1>12. CASE OriginFrame
  <2>1. Write("down", <<"frame">>) /\ \E n \in DOMAIN sent["down"] : sent["down"][n] = "settings"
    BY <1>12 DEF OriginFrame, Of
  <2>2. ClassFor("frame") = "http2"
    BY DEF ClassFor
  <2>3. plan = "direct" \/ (plan = "h2c" /\ (Of("down", {"101"}) # {} \/ down = "http2"))
    BY <1>1, <2>1 DEF DownKinds
  <2>4. (down # "http1" => down = "http2") /\ (Exchanging /\ down = "http1" => Leaving /\ "frame" \in NewKinds)
    BY <1>2, <1>10, <2>3 DEF Class, NewKinds, Exchanging
  <2> QED
    BY <2>1, <2>2, <2>3, <2>4
<1>13. CASE OriginRaw
  <2>1. /\ Write("down", <<"raw">>)
        /\ (plan = "connect" /\ client = "connected") \/ (plan = "other" /\ Of("down", {"101"}) # {})
    BY <1>13 DEF OriginRaw
  <2>2. ClassFor("raw") = "plane"
    BY DEF ClassFor
  <2>3. (down # "http1" => down = "plane") /\ (Exchanging /\ down = "http1" => Leaving /\ "raw" \in NewKinds)
    BY <1>2, <1>10, <2>1 DEF Class, NewKinds, Exchanging
  <2> QED
    BY <2>1, <2>2, <2>3
<1> QED
  BY <1>7, <1>8, <1>9, <1>11, <1>12, <1>13 DEF Origin

-----------------------------------------------------------------------------
(***************************************************************************)
(* The turns are kept: by what the peers write ...                         *)
(***************************************************************************)
LEMMA WriteTurns ==
    ASSUME AgreeInv, Turns, NEW s \in Side, NEW units \in Seq(Kind), Write(s, units)
    PROVE  Reading' /\ Readers' /\ CompleteOnly' /\ (Agreed' <=> Agreed)
<1>1. /\ \A t \in Side : \A n \in 1..read[t] : sent'[t][n] = sent[t][n]
      /\ UNCHANGED <<plan, manners, up, down, switching, upgrade, tunnel, slot, read, readAs,
                     dead, handler, stopped, out, client>>
      /\ handler = "idle"
  BY WriteKeeps
<1>2. TypeInv /\ OutRead
  BY DEF AgreeInv, Positions
<1>3. Reading'
  BY <1>1 DEF Turns, Reading
<1>4. Readers'
  <2>1. \A t \in Side : Len(readAs[t]) = read[t] /\ readAs[t] \in Seq(Class)
    BY <1>2, SideTypes DEF Turns, Readers
  <2>2. \A t \in Side : \A n \in DOMAIN readAs[t] : n \in 1..read[t]
    BY <2>1
  <2> QED
    BY <1>1, <2>1, <2>2 DEF Turns, Readers
<1>5. \A t \in Side : \A n \in DOMAIN out[Other(t)] : \A i \in DOMAIN out[Other(t)][n].of :
         sent'[t][out[Other(t)][n].of[i]] = sent[t][out[Other(t)][n].of[i]]
  BY <1>1, <1>2 DEF OutRead, Within
<1>6. CompleteOnly'
  <2> SUFFICES ASSUME NEW t \in Side, NEW n \in Messages(t)
               PROVE  Whole(Other(t), out[t][n].of)'
    BY <1>1 DEF CompleteOnly, Messages
  <2>1. Whole(Other(t), out[t][n].of) /\ n \in DOMAIN out[t]
    BY DEF Turns, CompleteOnly, Messages
  <2>2. Other(t) \in Side /\ Other(Other(t)) = t /\ out[t] \in Seq(Written)
    BY <1>2, SideTypes
  <2>3. out[t][n].of \in Seq(Nat)
    <3>1. out[t][n] \in Written
      BY <2>1, <2>2
    <3> QED
      BY <3>1 DEF Written
  <2> DEFINE us == out[t][n].of
  <2>4. \A i \in DOMAIN us : sent'[Other(t)][us[i]] = sent[Other(t)][us[i]]
    BY <1>5, <2>1, <2>2
  <2>5. us \in Seq(Nat) /\ Whole(Other(t), us) /\ (Whole(Other(t), out[t][n].of)' <=>
          \/ Len(us) = 1 /\ sent'[Other(t)][us[1]] \in {"100", "101"}
          \/ /\ Len(us) = 2 /\ us[2] = us[1] + 1
             /\ sent'[Other(t)][us[1]] = "begin" /\ sent'[Other(t)][us[2]] = "rest")
    BY <1>1, <2>1, <2>3 DEF Whole
  <2> HIDE DEF us
  <2>6. (Len(us) = 1 => 1 \in DOMAIN us) /\ (Len(us) = 2 => 1 \in DOMAIN us /\ 2 \in DOMAIN us)
    BY <2>5
  <2> QED
    BY <2>4, <2>5, <2>6 DEF Whole
<1>7. Agreed' <=> Agreed
  <2>1. \A w \in Range(out["up"]) : \A n \in Range(w.of) : sent'["down"][n] = sent["down"][n]
    BY <1>5, SideNames DEF Range, Other
  <2> QED
    BY <1>1, <2>1 DEF Agreed
<1> QED
  BY <1>3, <1>4, <1>6, <1>7

LEMMA AppTurns ==
    ASSUME AgreeInv, Orderly, Turns, App
    PROVE  Turns'
<1>0. "up" \in Side /\ "down" \in Side /\ TypeInv
  BY SideNames DEF AgreeInv
<1>1. /\ Starts("up") \in Nat /\ Rests("up") \in Nat /\ Relays \in Nat /\ Told \in Nat
      /\ Told <= Rests("up") /\ Relays <= Rests("up")
      /\ Starts("up") <= Told + 1
      /\ Answers \in Nat /\ Rests("down") \in Nat /\ Starts("down") \in Nat /\ Counts
  BY <1>0, Numbers DEF Turns, Counts
<1>2. /\ UpTurn /\ DownTurn /\ Over /\ Unread /\ UpKinds /\ DownKinds /\ Opening
  BY DEF Turns
<1> DEFINE L == Len(sent["up"])
<1>3. L \in Nat /\ DOMAIN sent["up"] = 1..L /\ read["up"] \in Nat
  BY <1>0, SideTypes
\* What every writing of the application leaves alone.
<1> DEFINE Same == /\ sent'["down"] = sent["down"] /\ \A K : Of("down", K)' = Of("down", K)
                   /\ UNCHANGED <<plan, up, down, switching, upgrade, tunnel, slot, read,
                                  handler, stopped, client>>
                   /\ Told' = Told /\ Relays' = Relays /\ Answers' = Answers
                   /\ Starts("down")' = Starts("down") /\ Rests("down")' = Rests("down")
                   /\ Reading' /\ Readers' /\ CompleteOnly' /\ (Agreed' <=> Agreed)
<1>4. ASSUME NEW units \in Seq(Kind), Write("up", units)
      PROVE  Same
  <2>1. Reading' /\ Readers' /\ CompleteOnly' /\ (Agreed' <=> Agreed)
    BY <1>0, <1>4, WriteTurns
  <2>2. /\ \A t \in Side : t # "up" => sent'[t] = sent[t] /\ \A K : Of(t, K)' = Of(t, K)
        /\ UNCHANGED <<plan, up, down, switching, upgrade, tunnel, slot, read,
                       handler, stopped, client>>
        /\ Told' = Told /\ Relays' = Relays
    BY <1>0, <1>4, WriteKeeps
  <2>3. sent'["down"] = sent["down"] /\ \A K : Of("down", K)' = Of("down", K)
    BY <1>0, <2>2
  <2>4. Answers' = Answers /\ Starts("down")' = Starts("down") /\ Rests("down")' = Rests("down")
    BY <2>3 DEF Answers, Starts, Rests
  <2> QED
    BY <2>1, <2>2, <2>3, <2>4
<1>5. ASSUME Same PROVE DownTurn' /\ DownKinds'
  <2>1. DownKinds'
    BY <1>2, <1>5 DEF DownKinds
  <2>2. /\ Quiet("down") <=> Quiet("down")'
        /\ Half("down") <=> Half("down")'
        /\ Ended("down") <=> Ended("down")'
        /\ Leaving <=> Leaving'
    BY <1>5 DEF Quiet, Half, Ended, Leaving, NewKinds, Opened, Full
  <2> QED
    BY <1>2, <1>5, <2>1, <2>2 DEF DownTurn, Exchanging
\* An HTTP/1 request, or part of it.
<1>6. ASSUME Same, plan # "direct", up = "http1", \A n \in DOMAIN sent'["up"] :
                sent'["up"][n] \in {"begin", "rest"} \/ (n \in DOMAIN sent["up"] /\ sent'["up"][n] = sent["up"][n])
      PROVE  Over' /\ Unread' /\ UpKinds' /\ Opening'
  <2>1. Over' /\ Opening'
    BY <1>6 DEF Over, Opening
  <2>2. Unread'
    BY <1>2, <1>6 DEF Unread, ClassOf, Side
  <2>3. UpKinds'
    BY <1>2, <1>6 DEF UpKinds
  <2> QED
    BY <2>1, <2>2, <2>3
<1>7. ASSUME Same, Starts("up")' \in Nat, Rests("up")' \in Nat,
             Rests("up")' <= Starts("up")', Starts("up")' <= Told + 1, Relays <= Rests("up")'
      PROVE  Counts'
  BY <1>1, <1>7 DEF Counts
<1> HIDE DEF Same
<1>8. CASE /\ plan # "direct" /\ up = "http1" /\ Quiet("up")
           /\ Starts("up") = Rests("up") /\ Told = Rests("up")
           /\ Write("up", <<"begin", "rest">>)
  <2>1. <<"begin", "rest">> \in Seq(Kind)
    BY DEF Kind
  <2>2. Same
    BY <1>4, <1>8, <2>1
  <2>3. /\ DOMAIN sent'["up"] = 1..(L + 2) /\ Len(sent'["up"]) = L + 2
        /\ sent'["up"][L + 1] = "begin" /\ sent'["up"][L + 2] = "rest"
        /\ \A i \in 1..L : sent'["up"][i] = sent["up"][i]
        /\ Starts("up")' = Starts("up") + 1 /\ Rests("up")' = Rests("up") + 1
    BY <1>8, WroteBoth
  <2>4. Counts'
    BY <1>1, <1>7, <1>8, <2>2, <2>3
  <2>5. Over' /\ Unread' /\ UpKinds' /\ Opening'
    <3>1. \A n \in 1..(L + 2) : n \in 1..L \/ n = L + 1 \/ n = L + 2
      BY <1>3
    <3> QED
      BY <1>3, <1>6, <1>8, <2>2, <2>3, <3>1
  <2>6. Ended("up")'
    <3>1. L + 1 \in DOMAIN sent'["up"] /\ L + 1 + 1 = L + 2 /\ L + 1 - 1 = L
      BY <1>3, <2>3
    <3>2. slot'["up"] = NoMessage /\ read'["up"] = L
      BY <1>8, <2>2 DEF Same, Quiet
    <3>3. /\ (L + 1) + 1 = Len(sent'["up"]) /\ sent'["up"][L + 1] = "begin"
          /\ sent'["up"][(L + 1) + 1] = "rest" /\ read'["up"] = (L + 1) - 1
      BY <2>3, <3>1, <3>2
    <3> QED
      BY <3>1, <3>2, <3>3 DEF Ended
  <2>7. UpTurn'
    BY <1>1, <1>8, <2>2, <2>3, <2>6 DEF UpTurn, Same
  <2> QED
    BY <1>5, <2>2, <2>4, <2>5, <2>7 DEF Turns, Same
<1>9. ASSUME NEW k \in Kind, Write("up", <<k>>)
      PROVE  /\ Same
             /\ DOMAIN sent'["up"] = 1..(L + 1) /\ Len(sent'["up"]) = L + 1 /\ sent'["up"][L + 1] = k
             /\ \A i \in 1..L : sent'["up"][i] = sent["up"][i]
             /\ \A n \in DOMAIN sent'["up"] : sent'["up"][n] = k
                     \/ (n \in DOMAIN sent["up"] /\ sent'["up"][n] = sent["up"][n])
             /\ Starts("up")' = IF k = "begin" THEN Starts("up") + 1 ELSE Starts("up")
             /\ Rests("up")' = IF k = "rest" THEN Rests("up") + 1 ELSE Rests("up")
  <2>1. Same
    <3>1. <<k>> \in Seq(Kind)
      OBVIOUS
    <3> QED
      BY <1>4, <1>9, <3>1
  <2>2. /\ DOMAIN sent'["up"] = 1..(L + 1) /\ Len(sent'["up"]) = L + 1 /\ sent'["up"][L + 1] = k
        /\ \A i \in 1..L : sent'["up"][i] = sent["up"][i]
        /\ Starts("up")' = IF k = "begin" THEN Starts("up") + 1 ELSE Starts("up")
        /\ Rests("up")' = IF k = "rest" THEN Rests("up") + 1 ELSE Rests("up")
    BY <1>0, <1>9, WroteOne
  <2>3. \A n \in 1..(L + 1) : n \in 1..L \/ n = L + 1
    BY <1>3
  <2> QED
    BY <1>3, <2>1, <2>2, <2>3
<1>10. CASE /\ plan # "direct" /\ up = "http1" /\ Quiet("up")
            /\ Starts("up") = Rests("up") /\ Told = Rests("up")
            /\ plan # "connect" /\ Write("up", <<"begin">>)
  <2>1. "begin" \in Kind /\ "begin" # "rest"
    BY DEF Kind
  <2>2. /\ Same
        /\ DOMAIN sent'["up"] = 1..(L + 1) /\ Len(sent'["up"]) = L + 1 /\ sent'["up"][L + 1] = "begin"
        /\ \A n \in DOMAIN sent'["up"] : sent'["up"][n] \in {"begin", "rest"}
                     \/ (n \in DOMAIN sent["up"] /\ sent'["up"][n] = sent["up"][n])
        /\ Starts("up")' = Starts("up") + 1 /\ Rests("up")' = Rests("up")
    BY <1>9, <1>10, <2>1
  <2>4. Counts'
    BY <1>1, <1>7, <1>10, <2>2
  <2>5. Over' /\ Unread' /\ UpKinds' /\ Opening'
    BY <1>6, <1>10, <2>2
  <2>6. Half("up")'
    <3>1. L + 1 \in DOMAIN sent'["up"] /\ L + 1 - 1 = L
      BY <1>3, <2>2
    <3>2. slot'["up"] = NoMessage /\ read'["up"] = L
      BY <1>10, <2>2 DEF Same, Quiet
    <3> QED
      BY <2>2, <3>1, <3>2 DEF Half
  <2>7. UpTurn'
    BY <1>1, <1>10, <2>2, <2>6 DEF UpTurn, Same
  <2> QED
    BY <1>5, <2>2, <2>4, <2>5, <2>7 DEF Turns, Same
<1>11. CASE /\ plan # "direct" /\ up = "http1" /\ Half("up") /\ plan # "connect"
            /\ Starts("up") > Rests("up") /\ Write("up", <<"rest">>)
  <2>1. "rest" \in Kind /\ "begin" # "rest"
    BY DEF Kind
  <2>2. /\ Same
        /\ DOMAIN sent'["up"] = 1..(L + 1) /\ Len(sent'["up"]) = L + 1 /\ sent'["up"][L + 1] = "rest"
        /\ \A i \in 1..L : sent'["up"][i] = sent["up"][i]
        /\ \A n \in DOMAIN sent'["up"] : sent'["up"][n] \in {"begin", "rest"}
                     \/ (n \in DOMAIN sent["up"] /\ sent'["up"][n] = sent["up"][n])
        /\ Starts("up")' = Starts("up") /\ Rests("up")' = Rests("up") + 1
    BY <1>9, <1>11, <2>1
  <2>4. Counts'
    BY <1>1, <1>7, <1>11, <2>2
  <2>5. Over' /\ Unread' /\ UpKinds' /\ Opening'
    BY <1>6, <1>11, <2>2
  <2>6. Ended("up")'
    <3>1. PICK n \in DOMAIN sent["up"] :
             /\ n = Len(sent["up"]) /\ sent["up"][n] = "begin"
             /\ (slot["up"] = NoMessage /\ read["up"] = n - 1) \/ Opened("up", n)
      BY <1>11 DEF Half
    <3>2. n \in DOMAIN sent'["up"] /\ n = L /\ sent'["up"][n] = "begin" /\ sent'["up"][n + 1] = "rest"
      BY <1>3, <2>2, <3>1
    <3>3. (slot'["up"] = NoMessage /\ read'["up"] = n - 1) \/ Opened("up", n)'
      BY <2>2, <3>1 DEF Same, Opened
    <3> QED
      BY <1>11, <2>2, <3>2, <3>3 DEF Ended, Same
  <2>7. UpTurn'
    BY <1>1, <1>11, <2>2, <2>6 DEF UpTurn, Same
  <2> QED
    BY <1>5, <2>2, <2>4, <2>5, <2>7 DEF Turns, Same
\* A unit of the protocol that has been agreed.
<1>12. ASSUME NEW k \in {"preface", "settings", "frame", "raw"}, Write("up", <<k>>),
              k # "raw" => (plan = "direct" /\ up # "plane") \/ (plan = "h2c" /\ up = "http2"),
              k = "raw" => plan # "direct" /\ up = "plane",
              plan = "direct" /\ k # "preface" => sent["up"] # <<>>
       PROVE  Turns'
  <2>1. k \in Kind /\ k # "begin" /\ k # "rest"
    BY DEF Kind
  <2>2. /\ Same
        /\ DOMAIN sent'["up"] = 1..(L + 1) /\ Len(sent'["up"]) = L + 1 /\ sent'["up"][L + 1] = k
        /\ \A i \in 1..L : sent'["up"][i] = sent["up"][i]
        /\ \A n \in DOMAIN sent'["up"] : sent'["up"][n] = k
                     \/ (n \in DOMAIN sent["up"] /\ sent'["up"][n] = sent["up"][n])
        /\ Starts("up")' = Starts("up") /\ Rests("up")' = Rests("up")
    BY <1>9, <1>12, <2>1
  <2>3. Counts'
    BY <1>1, <1>7, <2>2 DEF Counts
  <2>4. UpTurn'
    BY <1>12, <2>2 DEF UpTurn, Same
  <2>5. Over'
    BY <1>2, <2>2 DEF Over, Same
  <2>6. Unread'
    <3>1. up # "http1" => ClassFor(k) = up
      BY <1>0, <1>12 DEF ClassFor, TypeInv, TypeOK, Class
    <3>2. ASSUME up # "http1", NEW n \in read["up"] + 1..Len(sent'["up"])
          PROVE  ClassFor(sent'["up"][n]) = up
      <4>1. n = L + 1 \/ n \in read["up"] + 1..L
        BY <1>3, <2>2
      <4>2. n \in read["up"] + 1..L => n \in 1..L
        BY <1>3
      <4>3. n \in read["up"] + 1..L => ClassFor(sent["up"][n]) = up
        BY <1>0, <1>2, <3>2 DEF Unread, ClassOf
      <4> QED
        BY <2>2, <3>1, <3>2, <4>1, <4>2, <4>3
    <3>3. down # "http1" => \A n \in read["down"] + 1..Len(sent["down"]) : ClassFor(sent["down"][n]) = down
      BY <1>0, <1>2 DEF Unread, ClassOf
    <3> QED
      BY <2>2, <3>2, <3>3 DEF Unread, ClassOf, Side, Same
  <2>7. UpKinds'
    BY <1>2, <1>12, <2>2 DEF UpKinds, Same
  <2>8. Opening'
    <3>1. CASE sent["up"] = <<>>
      <4>1. L = 0
        BY <3>1
      <4>2. plan = "direct" => k = "preface"
        BY <1>12, <3>1
      <4> QED
        BY <1>2, <2>2, <4>1, <4>2 DEF Opening, Same
    <3>2. CASE sent["up"] # <<>>
      <4>1. 1 \in 1..L
        <5>1. sent["up"] \in Seq(Kind)
          BY <1>0, SideTypes
        <5> QED
          BY <1>3, <3>2, <5>1
      <4> QED
        BY <1>2, <2>2, <3>2, <4>1 DEF Opening, Same
    <3> QED
      BY <3>1, <3>2
  <2> QED
    BY <1>5, <2>2, <2>3, <2>4, <2>5, <2>6, <2>7, <2>8 DEF Turns, Same
<1> QED
  BY <1>8, <1>10, <1>11, <1>12, AppCases

LEMMA OriginTurns ==
    ASSUME AgreeInv, Orderly, Turns, Origin
    PROVE  Turns'
<1>0. "up" \in Side /\ "down" \in Side /\ TypeInv
  BY SideNames DEF AgreeInv
<1>1. /\ Starts("down") \in Nat /\ Rests("down") \in Nat /\ Relays \in Nat /\ Answers \in Nat
      /\ Told \in Nat /\ Starts("up") \in Nat /\ Rests("up") \in Nat
      /\ Relays <= Answers + 1 /\ Counts
  <2>1. /\ \A s \in Side : Starts(s) \in Nat /\ Rests(s) \in Nat
        /\ Relays \in Nat /\ Answers \in Nat /\ Told \in Nat
        /\ Told <= Rests("down") /\ Rests("down") <= Answers
    BY <1>0, Numbers
  <2>2. Counts
    BY DEF Turns
  <2> QED
    BY <1>0, <2>1, <2>2 DEF Counts
<1>2. /\ UpTurn /\ DownTurn /\ Over /\ Unread /\ UpKinds /\ DownKinds /\ Opening
  BY DEF Turns
<1>3. /\ plan \in {"get", "h2c", "other"} => up = down
      /\ up \in Class /\ down \in Class
  BY <1>0 DEF AgreeInv, SessionsOf, TypeInv, TypeOK
<1> DEFINE L == Len(sent["down"])
<1>4. L \in Nat /\ DOMAIN sent["down"] = 1..L /\ read["down"] \in Nat
  BY <1>0, SideTypes
\* What every writing of the origin leaves alone.
<1> DEFINE Same == /\ sent'["up"] = sent["up"] /\ \A K : Of("up", K)' = Of("up", K)
                   /\ UNCHANGED <<plan, up, down, switching, upgrade, tunnel, slot, read,
                                  handler, stopped, client>>
                   /\ Told' = Told /\ Relays' = Relays
                   /\ Starts("up")' = Starts("up") /\ Rests("up")' = Rests("up")
                   /\ Reading' /\ Readers' /\ CompleteOnly' /\ (Agreed' <=> Agreed)
<1> DEFINE Wrote(k) == /\ DOMAIN sent'["down"] = 1..(L + 1) /\ Len(sent'["down"]) = L + 1
                       /\ sent'["down"][L + 1] = k
                       /\ \A i \in 1..L : sent'["down"][i] = sent["down"][i]
                       /\ \A n \in DOMAIN sent'["down"] : sent'["down"][n] = k
                               \/ (n \in DOMAIN sent["down"] /\ sent'["down"][n] = sent["down"][n])
                       /\ Starts("down")' = IF k = "begin" THEN Starts("down") + 1 ELSE Starts("down")
                       /\ Rests("down")' = IF k = "rest" THEN Rests("down") + 1 ELSE Rests("down")
                       /\ Answers' = IF k \in {"rest", "101"} THEN Answers + 1 ELSE Answers
                       /\ k # "101" => Of("down", {"101"})' = Of("down", {"101"})
                       /\ Of("down", {"101"}) # {} => Of("down", {"101"})' # {}
<1>5. ASSUME NEW k \in Kind, Write("down", <<k>>)
      PROVE  Same /\ Wrote(k)
  <2>0. <<k>> \in Seq(Kind)
    OBVIOUS
  <2>1. Reading' /\ Readers' /\ CompleteOnly' /\ (Agreed' <=> Agreed)
    BY <1>0, <1>5, <2>0, WriteTurns
  <2>2. /\ \A t \in Side : t # "down" => sent'[t] = sent[t] /\ \A K : Of(t, K)' = Of(t, K)
        /\ UNCHANGED <<plan, up, down, switching, upgrade, tunnel, slot, read,
                       handler, stopped, client>>
        /\ Told' = Told /\ Relays' = Relays
    BY <1>0, <1>5, <2>0, WriteKeeps
  <2>3. sent'["up"] = sent["up"] /\ \A K : Of("up", K)' = Of("up", K)
    BY <1>0, <2>2
  <2>4. /\ DOMAIN sent'["down"] = 1..(L + 1) /\ Len(sent'["down"]) = L + 1 /\ sent'["down"][L + 1] = k
        /\ \A i \in 1..L : sent'["down"][i] = sent["down"][i]
        /\ Starts("down")' = IF k = "begin" THEN Starts("down") + 1 ELSE Starts("down")
        /\ Rests("down")' = IF k = "rest" THEN Rests("down") + 1 ELSE Rests("down")
        /\ Answers' = IF k \in {"rest", "101"} THEN Answers + 1 ELSE Answers
        /\ k # "101" => Of("down", {"101"})' = Of("down", {"101"})
        /\ \A t \in Side : t # "down" => Starts(t)' = Starts(t) /\ Rests(t)' = Rests(t)
    BY <1>0, <1>5, WroteOne
  <2>5. \A n \in DOMAIN sent'["down"] : sent'["down"][n] = k
             \/ (n \in DOMAIN sent["down"] /\ sent'["down"][n] = sent["down"][n])
    <3>1. \A n \in 1..(L + 1) : n \in 1..L \/ n = L + 1
      BY <1>4
    <3> QED
      BY <1>4, <2>4, <3>1
  <2>6. Of("down", {"101"}) # {} => Of("down", {"101"})' # {}
    <3>1. \A n \in 1..L : n \in 1..(L + 1)
      BY <1>4
    <3>2. \A n : n \in Of("down", {"101"}) => n \in Of("down", {"101"})'
      BY <1>4, <2>4, <3>1 DEF Of
    <3> QED
      BY <3>2
  <2>7. Starts("up")' = Starts("up") /\ Rests("up")' = Rests("up")
    BY <1>0, <2>4
  <2> QED
    BY <2>1, <2>2, <2>3, <2>4, <2>5, <2>6, <2>7
<1>6. ASSUME Same PROVE UpTurn' /\ UpKinds' /\ Opening'
  <2>1. UpKinds' /\ Opening'
    BY <1>2, <1>6 DEF UpKinds, Opening
  <2>2. /\ Quiet("up") <=> Quiet("up")'
        /\ Half("up") <=> Half("up")'
        /\ Ended("up") <=> Ended("up")'
    BY <1>6 DEF Quiet, Half, Ended, Opened, Full
  <2> QED
    BY <1>2, <1>6, <2>1, <2>2 DEF UpTurn
\* A response of HTTP/1, or part of it.
<1>7. ASSUME NEW k \in {"begin", "rest", "101"}, Same, Wrote(k), Exchanging, down = "http1"
      PROVE  Over' /\ Unread' /\ DownKinds'
  <2>1. up = "http1" /\ plan # "direct"
    BY <1>3, <1>7 DEF Exchanging
  <2>2. Over' /\ Unread'
    BY <1>7, <2>1 DEF Over, Unread, ClassOf, Side
  <2>3. DownKinds'
    BY <1>2, <1>7, <2>1 DEF DownKinds
  <2> QED
    BY <2>2, <2>3
<1> HIDE DEF Same, Wrote
<1>8. CASE /\ Exchanging /\ down = "http1" /\ Quiet("down") /\ Starts("down") <= Rests("down")
           /\ switching = "" /\ Of("down", {"101"}) = {} /\ Relays > Answers
           /\ Write("down", <<"begin">>)
  <2>1. "begin" \in Kind /\ "begin" # "rest" /\ "begin" \notin {"rest", "101"} /\ "begin" # "101"
    BY DEF Kind
  <2>2. Same /\ Wrote("begin")
    BY <1>5, <1>8, <2>1
  <2>3. Over' /\ Unread' /\ DownKinds'
    BY <1>7, <1>8, <2>2
  <2>4. Starts("down")' = Starts("down") + 1 /\ Rests("down")' = Rests("down") /\ Answers' = Answers
    BY <1>8, <2>1, <2>2 DEF Same, Wrote
  <2>9. Of("down", {"101"})' = {}
    BY <1>8, <2>1, <2>2 DEF Same, Wrote
  <2>10. /\ Told' = Told /\ Relays' = Relays
        /\ Starts("up")' = Starts("up") /\ Rests("up")' = Rests("up")
    BY <2>2 DEF Same
  <2>11. Starts("down") <= Rests("down") /\ Relays > Answers
    BY <1>8
  <2>5. Counts'
    BY <1>1, <2>4, <2>10, <2>11 DEF Counts
  <2>6. Half("down")'
    <3>1. /\ L + 1 \in DOMAIN sent'["down"] /\ (L + 1) - 1 = L /\ L + 1 = Len(sent'["down"])
          /\ sent'["down"][L + 1] = "begin"
      BY <1>4, <2>2 DEF Same, Wrote
    <3>2. slot'["down"] = NoMessage /\ read'["down"] = L
      BY <1>8, <2>2 DEF Quiet, Same, Wrote
    <3> HIDE DEF L
    <3> QED
      BY <3>1, <3>2 DEF Half
  <2>7. DownTurn'
    <3>1. switching' = ""
      BY <1>8, <2>2 DEF Same, Wrote
    <3>2. Starts("down")' > Rests("down")' /\ Relays' > Answers'
      BY <1>1, <2>4, <2>10, <2>11 DEF Counts
    <3> QED
      BY <2>6, <2>9, <3>1, <3>2 DEF DownTurn
  <2> QED
    BY <1>6, <2>2, <2>3, <2>5, <2>7 DEF Turns, Same, Wrote
<1>9. CASE /\ Exchanging /\ down = "http1" /\ Quiet("down") /\ Starts("down") <= Rests("down")
           /\ switching = "" /\ Of("down", {"101"}) = {} /\ Relays > Answers
           /\ Write("down", <<"101">>)
  <2>1. "101" \in Kind /\ "101" # "rest" /\ "101" \in {"rest", "101"} /\ "101" # "begin"
    BY DEF Kind
  <2>2. Same /\ Wrote("101")
    BY <1>5, <1>9, <2>1
  <2>3. Over' /\ Unread' /\ DownKinds'
    BY <1>7, <1>9, <2>2
  <2>4. Starts("down")' = Starts("down") /\ Rests("down")' = Rests("down") /\ Answers' = Answers + 1
    BY <1>9, <2>1, <2>2 DEF Same, Wrote
  <2>10. /\ Told' = Told /\ Relays' = Relays
        /\ Starts("up")' = Starts("up") /\ Rests("up")' = Rests("up")
    BY <2>2 DEF Same
  <2>11. Starts("down") <= Rests("down") /\ Relays > Answers
    BY <1>9
  <2>5. Counts'
    BY <1>1, <2>4, <2>10, <2>11 DEF Counts
  <2>6. Leaving'
    <3>1. /\ L + 1 \in DOMAIN sent'["down"] /\ (L + 1) - 1 = L
          /\ sent'["down"][L + 1] = "101"
      BY <1>4, <2>2 DEF Same, Wrote
    <3>2. slot'["down"] = NoMessage /\ read'["down"] = L /\ switching' = ""
      BY <1>9, <2>2 DEF Quiet, Same, Wrote
    <3>3. (L + 1) + 1..Len(sent'["down"]) = {}
      BY <1>4, <2>2 DEF Same, Wrote
    <3> HIDE DEF L
    <3> QED
      BY <3>1, <3>2, <3>3 DEF Leaving
  <2>7. DownTurn'
    <3>1. Starts("down")' <= Rests("down")' /\ Relays' <= Answers'
      BY <1>1, <2>4, <2>10, <2>11
    <3> QED
      BY <2>6, <3>1 DEF DownTurn
  <2> QED
    BY <1>6, <2>2, <2>3, <2>5, <2>7 DEF Turns, Same, Wrote
<1>10. CASE /\ Exchanging /\ down = "http1" /\ Half("down") /\ Starts("down") > Rests("down")
            /\ switching = "" /\ Of("down", {"101"}) = {} /\ Relays > Answers
            /\ Write("down", <<"rest">>)
  <2>1. "rest" \in Kind /\ "rest" # "begin" /\ "rest" \in {"rest", "101"} /\ "rest" # "101"
    BY DEF Kind
  <2>2. Same /\ Wrote("rest")
    BY <1>5, <1>10, <2>1
  <2>3. Over' /\ Unread' /\ DownKinds'
    BY <1>7, <1>10, <2>2
  <2>4. /\ Starts("down")' = Starts("down") /\ Rests("down")' = Rests("down") + 1
        /\ Answers' = Answers + 1
    BY <1>10, <2>1, <2>2 DEF Same, Wrote
  <2>9. Of("down", {"101"})' = {}
    BY <1>10, <2>1, <2>2 DEF Same, Wrote
  <2>10. /\ Told' = Told /\ Relays' = Relays
        /\ Starts("up")' = Starts("up") /\ Rests("up")' = Rests("up")
    BY <2>2 DEF Same
  <2>11. Starts("down") > Rests("down") /\ Relays > Answers
    BY <1>10
  <2>5. Counts'
    BY <1>1, <2>4, <2>10, <2>11 DEF Counts
  <2>6. Ended("down")'
    <3>1. PICK n \in DOMAIN sent["down"] :
             /\ n = Len(sent["down"]) /\ sent["down"][n] = "begin"
             /\ (slot["down"] = NoMessage /\ read["down"] = n - 1) \/ Opened("down", n)
      BY <1>10 DEF Half
    <3>2. /\ n \in DOMAIN sent'["down"] /\ n + 1 = Len(sent'["down"])
          /\ sent'["down"][n] = "begin" /\ sent'["down"][n + 1] = "rest"
      BY <1>4, <2>2, <3>1 DEF Same, Wrote
    <3>3. (slot'["down"] = NoMessage /\ read'["down"] = n - 1) \/ Opened("down", n)'
      BY <2>2, <3>1 DEF Opened, Same, Wrote
    <3>4. plan' # "connect"
      BY <1>10, <2>2 DEF Exchanging, Same, Wrote
    <3> QED
      BY <3>2, <3>3, <3>4 DEF Ended
  <2>7. DownTurn'
    <3>1. switching' = ""
      BY <1>10, <2>2 DEF Same, Wrote
    <3>2. Starts("down")' <= Rests("down")' /\ Relays' <= Answers'
      BY <1>1, <2>4, <2>10, <2>11 DEF Counts
    <3> QED
      BY <2>6, <2>9, <3>1, <3>2 DEF DownTurn
  <2> QED
    BY <1>6, <2>2, <2>3, <2>5, <2>7 DEF Turns, Same, Wrote
\* A unit of the protocol that has been agreed.
<1>11. ASSUME NEW k \in {"settings", "frame", "raw"}, Write("down", <<k>>),
              down # "http1" => ClassFor(k) = down,
              Exchanging /\ down = "http1" => Leaving /\ k \in NewKinds,
              k # "raw" => \/ plan = "direct"
                           \/ plan = "h2c" /\ (Of("down", {"101"}) # {} \/ down = "http2"),
              plan = "direct" => k # "raw"
       PROVE  Turns'
  <2>1. k \in Kind /\ k # "rest" /\ k \notin {"rest", "101"} /\ k # "begin" /\ k # "101" /\ k # "100"
    BY DEF Kind
  <2>2. Same /\ Wrote(k)
    BY <1>5, <1>11, <2>1
  <2>3. /\ Starts("down")' = Starts("down") /\ Rests("down")' = Rests("down") /\ Answers' = Answers
        /\ Of("down", {"101"})' = Of("down", {"101"})
    BY <2>1, <2>2 DEF Same, Wrote
  <2>4. Counts' /\ Over'
    BY <1>1, <1>2, <2>2, <2>3 DEF Counts, Over, Same, Wrote
  <2>5. DownKinds'
    BY <1>2, <1>11, <2>1, <2>2 DEF DownKinds, Same, Wrote
  <2>6. Unread'
    <3>2. ASSUME down # "http1", NEW n \in read["down"] + 1..Len(sent'["down"])
          PROVE  ClassFor(sent'["down"][n]) = down
      <4>1. n = L + 1 \/ n \in read["down"] + 1..L
        BY <1>4, <2>2 DEF Same, Wrote
      <4>2. n \in read["down"] + 1..L => n \in 1..L
        BY <1>4
      <4>3. n \in read["down"] + 1..L => ClassFor(sent["down"][n]) = down
        BY <1>0, <1>2, <3>2 DEF Unread, ClassOf
      <4> QED
        BY <1>11, <2>2, <3>2, <4>1, <4>2, <4>3 DEF Same, Wrote
    <3>3. up # "http1" => \A n \in read["up"] + 1..Len(sent["up"]) : ClassFor(sent["up"][n]) = up
      BY <1>0, <1>2 DEF Unread, ClassOf
    <3> QED
      BY <2>2, <3>2, <3>3 DEF Unread, ClassOf, Side, Same, Wrote
  <2>7. DownTurn'
    <3> SUFFICES ASSUME Exchanging, down = "http1"
                 PROVE  Leaving' /\ Starts("down")' <= Rests("down")' /\ Relays' <= Answers'
      BY <2>2 DEF DownTurn, Exchanging, Same, Wrote
    <3>1. PICK n \in DOMAIN sent["down"] :
             /\ sent["down"][n] = "101"
             /\ \A j \in n + 1..Len(sent["down"]) : sent["down"][j] \in NewKinds
             /\ \/ slot["down"] = NoMessage /\ read["down"] = n - 1 /\ switching = ""
                \/ /\ slot["down"].stat = "COMPLETE" /\ slot["down"].units = <<n>> /\ read["down"] = n
                   /\ handler = "down" /\ stopped /\ switching # ""
      BY <1>11 DEF Leaving
    <3>2. Of("down", {"101"}) # {}
      BY <3>1 DEF Of
    <3>3. Starts("down") <= Rests("down") /\ Relays <= Answers
      <4>1. DownTurn
        BY <1>2
      <4> QED
        BY <3>2, <4>1, Zenon DEF DownTurn
    <3>4. NewKinds' = NewKinds
      BY <2>2 DEF NewKinds, Same, Wrote
    <3>5. n \in DOMAIN sent'["down"] /\ sent'["down"][n] = "101"
      <4>1. n \in 1..L /\ n \in 1..(L + 1)
        BY <1>4
      <4> QED
        BY <2>2, <3>1, <4>1 DEF Wrote
    <3>6. \A j \in n + 1..Len(sent'["down"]) : sent'["down"][j] \in NewKinds
      <4>1. \A j \in n + 1..(L + 1) : j = L + 1 \/ (j \in n + 1..L /\ j \in 1..L)
        BY <1>4
      <4>2. k \in NewKinds
        BY <1>11
      <4> QED
        BY <2>2, <3>1, <4>1, <4>2 DEF Same, Wrote
    <3>7. Leaving'
      BY <2>2, <3>1, <3>4, <3>5, <3>6 DEF Leaving, Same, Wrote
    <3> QED
      BY <2>2, <2>3, <3>3, <3>7 DEF Same, Wrote
  <2> QED
    BY <1>6, <2>2, <2>4, <2>5, <2>6, <2>7 DEF Turns, Same, Wrote
<1> QED
  BY <1>8, <1>9, <1>10, <1>11, OriginCases

-----------------------------------------------------------------------------
(***************************************************************************)
(* ... by a step that moves no message of HTTP/1, part by part ...         *)
(***************************************************************************)
LEMMA UpTurnKept ==
    ASSUME TypeInv, UpTurn, UNCHANGED <<plan, sent>>, Relays' = Relays,
           slot'["up"] = slot["up"], read'["up"] = read["up"], up' = up \/ up' # "http1",
           handler = "up" /\ ~stopped /\ read["up"] < Len(sent["up"]) => handler' = "up" /\ ~stopped'
    PROVE  UpTurn'
<1>1. Starts("up")' = Starts("up") /\ Rests("up")' = Rests("up")
  BY DEF Starts, Rests, Of
<1>2. Quiet("up") => Quiet("up")'
  BY DEF Quiet
<1>3. Half("up") => Half("up")'
  BY DEF Half, Opened
<1>4. ASSUME Ended("up") PROVE Ended("up")'
  <2>1. PICK n \in DOMAIN sent["up"] :
           /\ n + 1 = Len(sent["up"]) /\ sent["up"][n] = "begin" /\ sent["up"][n + 1] = "rest"
           /\ \/ slot["up"] = NoMessage /\ read["up"] = n - 1
              \/ Opened("up", n) /\ (plan = "connect" => handler = "up" /\ ~stopped)
              \/ Full("up", n) /\ ("up" = "down" => handler = "down")
    BY <1>4 DEF Ended
  <2>2. n \in Nat
    BY SideTypes, SideNames
  <2>3. Opened("up", n) => read["up"] < Len(sent["up"])
    BY <2>1, <2>2 DEF Opened
  <2>4. /\ Opened("up", n) => Opened("up", n)'
        /\ Full("up", n) => Full("up", n)'
    BY DEF Opened, Full
  <2>5. \/ slot'["up"] = NoMessage /\ read'["up"] = n - 1
        \/ Opened("up", n)' /\ (plan' = "connect" => handler' = "up" /\ ~stopped')
        \/ Full("up", n)' /\ ("up" = "down" => handler' = "down")
    BY <2>1, <2>3, <2>4
  <2> QED
    BY <2>1, <2>5 DEF Ended
<1> QED
  BY <1>1, <1>2, <1>3, <1>4 DEF UpTurn

LEMMA DownTurnKept ==
    ASSUME DownTurn, UNCHANGED <<plan, sent, switching>>, Relays' = Relays,
           slot'["down"] = slot["down"], read'["down"] = read["down"],
           down' = down \/ down' # "http1",
           handler = "down" /\ down = "http1" =>
               (handler' = "down" /\ stopped' = stopped) \/ slot["down"].stat # "COMPLETE"
    PROVE  DownTurn'
<1>1. /\ Starts("down")' = Starts("down") /\ Rests("down")' = Rests("down") /\ Answers' = Answers
      /\ Of("down", {"101"})' = Of("down", {"101"})
  BY DEF Starts, Rests, Of, Answers
<1>2. Quiet("down") => Quiet("down")'
  BY DEF Quiet
<1>3. Half("down") => Half("down")'
  BY DEF Half, Opened
<1>4. ASSUME down = "http1", Exchanging, Ended("down") PROVE Ended("down")'
  BY <1>4 DEF Ended, Opened, Full, Exchanging
<1>5. ASSUME down = "http1", Leaving PROVE Leaving'
  BY <1>5 DEF Leaving, NewKinds
<1> QED
  BY <1>1, <1>2, <1>3, <1>4, <1>5 DEF DownTurn, Exchanging

LEMMA WholeKept ==
    ASSUME CompleteOnly, UNCHANGED sent,
           \A s \in Side : \A n \in Messages(s)' :
              (n \in Messages(s) /\ out'[s][n] = out[s][n]) \/ Whole(Other(s), out'[s][n].of)
    PROVE  CompleteOnly'
<1>1. \A s, us : Whole(s, us)' <=> Whole(s, us)
  BY DEF Whole
<1>2. ASSUME NEW s \in Side, NEW n \in Messages(s)'
      PROVE  Whole(Other(s), out'[s][n].of)
  BY <1>2 DEF CompleteOnly
<1>3. CompleteOnly' <=> \A s \in Side : \A n \in Messages(s)' : Whole(Other(s), out[s][n].of)'
  BY DEF CompleteOnly
<1>4. ASSUME NEW s \in Side, NEW n \in Messages(s)'
      PROVE  Whole(Other(s), out[s][n].of)'
  <2>1. Whole(Other(s), out'[s][n].of)
    BY <1>2
  <2> QED
    BY <2>1 DEF Whole
<1> QED
  BY <1>3, <1>4

LEMMA CountsKept ==
    ASSUME AgreeInv, TypeInv', Counts, UNCHANGED sent,
           \A n \in DOMAIN out["up"] : n \in DOMAIN out'["up"] /\ out'["up"][n] = out["up"][n],
           Relays' = Relays \/ (Relays' = Relays + 1 /\ Relays < Rests("up"))
    PROVE  Counts'
<1>1. /\ Told <= Told' /\ Told' \in Nat
      /\ Starts("up")' = Starts("up") /\ Rests("up")' = Rests("up")
      /\ Starts("down")' = Starts("down") /\ Rests("down")' = Rests("down")
      /\ Answers' = Answers
  BY ToldGrows
<1>2. /\ Starts("up") \in Nat /\ Rests("up") \in Nat /\ Starts("down") \in Nat /\ Rests("down") \in Nat
      /\ Relays \in Nat /\ Answers \in Nat /\ Told \in Nat
  BY Numbers, SideNames DEF AgreeInv
<1> QED
  BY <1>1, <1>2 DEF Counts

LEMMA FrameTurns ==
    ASSUME AgreeInv, AgreeInv', Turns,
           UNCHANGED <<plan, sent, slot, read, readAs, dead, switching, up>>,
           up = "http1" => UNCHANGED <<upgrade, tunnel>>,
           down' = down \/ down' # "http1",
           \A t \in Side : /\ Messages(t)' = Messages(t)
                           /\ \A n \in DOMAIN out[t] : n \in DOMAIN out'[t] /\ out'[t][n] = out[t][n],
           out'["up"] = out["up"] \/ plan \notin {"other", "connect"},
           handler = "up" /\ ~stopped /\ read["up"] < Len(sent["up"]) => handler' = "up" /\ ~stopped',
           handler = "down" /\ down = "http1" =>
               (handler' = "down" /\ stopped' = stopped) \/ slot["down"].stat # "COMPLETE",
           handler' # "crashed",
           handler' = "down" /\ down' = "http1" =>
               slot["down"] # NoMessage \/ (read["down"] < Len(sent["down"]) /\ ~stopped'),
           plan = "direct" /\ up = "http1" => handler' # "up"
    PROVE  Turns'
<1>0. /\ "up" \in Side /\ "down" \in Side /\ TypeInv /\ TypeInv'
      /\ Counts /\ UpTurn /\ DownTurn /\ Over /\ Unread /\ UpKinds /\ DownKinds /\ Opening
      /\ Reading /\ Readers /\ CompleteOnly
  BY SideNames DEF AgreeInv, Turns
<1>1. Relays' = Relays
  BY <1>0 DEF Relays
<1>2. \A n \in DOMAIN out["up"] : n \in DOMAIN out'["up"] /\ out'["up"][n] = out["up"][n]
  BY <1>0
<1>3. Counts'
  BY <1>0, <1>1, <1>2, CountsKept
<1>4. /\ Agreed => Agreed'
      /\ Starts("up")' = Starts("up") /\ Rests("up")' = Rests("up")
      /\ Starts("down")' = Starts("down") /\ Rests("down")' = Rests("down") /\ Answers' = Answers
      /\ Of("down", {"101"})' = Of("down", {"101"})
  BY <1>0, <1>2, ToldGrows
<1>5. UpTurn' /\ DownTurn'
  BY <1>0, <1>1, UpTurnKept, DownTurnKept
<1>6. Over'
  BY <1>0, <1>1, <1>4 DEF Over
<1>7. UpKinds'
  <2>1. plan \in {"other", "connect"} /\ Agreed' => Agreed
    BY AgreedSame
  <2> QED
    BY <1>0, <2>1 DEF UpKinds
<1>8. down' = down \/ plan \in {"direct", "connect"}
  <2>1. plan \in {"get", "connect", "h2c", "other", "direct"}
    BY <1>0, ConstantsAssumption DEF TypeInv, TypeOK
  <2> QED
    BY <2>1 DEF AgreeInv, SessionsOf
<1>9. DownKinds'
  <2>1. down' = down \/ plan # "h2c"
    BY <1>8
  <2> QED
    BY <1>0, <1>4, <2>1 DEF DownKinds
<1>10. Unread'
  <2>1. up # "http1" => \A n \in read["up"] + 1..Len(sent["up"]) : ClassFor(sent["up"][n]) = up
    BY <1>0 DEF Unread, ClassOf
  <2>2. ASSUME down' # "http1", NEW n \in read["down"] + 1..Len(sent["down"])
        PROVE  ClassFor(sent["down"][n]) = down'
    <3>1. CASE down' = down
      BY <1>0, <2>2, <3>1 DEF Unread, ClassOf
    <3>2. CASE down' # down
      <4>1. n \in DOMAIN sent["down"]
        BY <1>0, SideTypes
      <4>2. plan' \in {"direct", "connect"}
        BY <1>8, <3>2
      <4>3. SessionsOf' /\ ConnectKinds'
        BY DEF AgreeInv
      <4>4. \A j \in DOMAIN sent'["down"] : ClassFor(sent'["down"][j]) = down'
        <5>1. client' \in {"none", "connecting", "connected", "refused"}
          BY <1>0 DEF TypeInv, TypeOK
        <5>2. CASE plan' = "direct"
          <6>1. down' = "http2"
            BY <2>2, <4>3, <5>1, <5>2 DEF SessionsOf
          <6> QED
            BY <1>9, <5>2, <6>1 DEF DownKinds, ClassFor
        <5>3. CASE plan' = "connect"
          <6>1. down' = "plane"
            BY <2>2, <4>3, <5>1, <5>3 DEF SessionsOf
          <6> QED
            BY <4>3, <5>3, <6>1 DEF ConnectKinds, ClassFor
        <5> QED
          BY <4>2, <5>2, <5>3
      <4> QED
        BY <4>1, <4>4
    <3> QED
      BY <3>1, <3>2
  <2> QED
    BY <2>1, <2>2 DEF Unread, ClassOf, Side
<1>11. Opening'
  BY <1>0, <1>1 DEF Opening
<1>12. Reading'
  BY <1>0 DEF Reading
<1>13. Readers'
  BY <1>0 DEF Readers
<1>14. CompleteOnly'
  <2>1. \A s \in Side : \A n \in Messages(s)' : n \in Messages(s) /\ out'[s][n] = out[s][n]
    BY DEF Messages
  <2> QED
    BY <1>0, <2>1, WholeKept
<1> QED
  BY <1>3, <1>5, <1>6, <1>7, <1>9, <1>10, <1>11, <1>12, <1>13, <1>14 DEF Turns

LEMMA NoneMore ==
    ASSUME UNCHANGED out
    PROVE  \A t \in Side : /\ Messages(t)' = Messages(t)
                           /\ \A n \in DOMAIN out[t] : n \in DOMAIN out'[t] /\ out'[t][n] = out[t][n]
BY DEF Messages

\* The classes that an orderly connection cannot have in a plan.
LEMMA PlanClasses ==
    ASSUME AgreeInv
    PROVE  /\ plan \in {"get", "connect", "h2c", "other", "direct"} /\ up \in Class /\ down \in Class
           /\ client \in {"none", "connecting", "connected", "refused"}
           /\ down = "http2" => plan \in {"h2c", "direct"}
           /\ up = "http2" => plan \notin {"other", "connect"}
<1>1. /\ plan \in {"get", "connect", "h2c", "other", "direct"} /\ up \in Class /\ down \in Class
      /\ client \in {"none", "connecting", "connected", "refused"}
  BY ConstantsAssumption DEF AgreeInv, TypeInv, TypeOK
<1> QED
  BY <1>1 DEF AgreeInv, SessionsOf

LEMMA QuietStepTurns ==
    ASSUME AgreeInv, AgreeInv', Turns,
           (\E s \in Side : PeerClose(s)) \/ on_read \/ removeSocket \/ UNCHANGED vars
    PROVE  Turns'
<1>1. \A t \in Side : /\ Messages(t)' = Messages(t)
                      /\ \A n \in DOMAIN out[t] : n \in DOMAIN out'[t] /\ out'[t][n] = out[t][n]
  <2>1. UNCHANGED out
    BY DEF PeerClose, on_read, removeSocket, vars
  <2> QED
    BY <2>1, NoneMore
<1>2. /\ UNCHANGED <<plan, sent, slot, read, readAs, dead, switching, up, upgrade, tunnel>>
      /\ down' = down /\ out'["up"] = out["up"]
  BY DEF PeerClose, on_read, removeSocket, vars, peerVars, serverVars, inputVars, clientVars
<1>3. \/ handler = "idle" /\ handler' \in {"idle", "closed"}
      \/ handler = "idle" /\ signalled["down"] /\ handler' = "down" /\ stopped' = FALSE
      \/ handler' = handler /\ stopped' = stopped
  BY DEF PeerClose, on_read, removeSocket, vars
<1>4. signalled["down"] => read["down"] < Len(sent["down"])
  BY SideNames DEF AgreeInv, Signals
<1>5. Reading /\ Opening
  BY DEF Turns
<1>6. /\ handler = "up" /\ ~stopped /\ read["up"] < Len(sent["up"]) => handler' = "up" /\ ~stopped'
      /\ handler = "down" /\ down = "http1" => handler' = "down" /\ stopped' = stopped
      /\ handler' # "crashed"
      /\ handler' = "down" /\ down' = "http1" =>
               slot["down"] # NoMessage \/ (read["down"] < Len(sent["down"]) /\ ~stopped')
      /\ plan = "direct" /\ up = "http1" => handler' # "up"
  BY <1>2, <1>3, <1>4, <1>5 DEF Reading, Opening
<1> QED
  BY <1>1, <1>2, <1>6, FrameTurns

\* What a session of HTTP/2 flushes is no message of HTTP/1.
LEMMA FlushQueueMore ==
    ASSUME AgreeInv, NEW s \in Side, FlushQueue(s), UNCHANGED sent
    PROVE  /\ \A t \in Side : /\ Messages(t)' = Messages(t)
                              /\ \A n \in DOMAIN out[t] : n \in DOMAIN out'[t] /\ out'[t][n] = out[t][n]
           /\ s = "up" => out'["up"] = out["up"]
<1>1. CASE UNCHANGED <<out, queue, recvwait>>
  BY <1>1, NoneMore
<1>2. CASE \E units \in Seq(Written) :
             /\ out' = [out EXCEPT ![Other(s)] = @ \o units]
             /\ \A i \in DOMAIN units : units[i].kind = "frame"
  <2>1. PICK units \in Seq(Written) :
             /\ out' = [out EXCEPT ![Other(s)] = @ \o units]
             /\ \A i \in DOMAIN units : units[i].kind = "frame"
    BY <1>2
  <2>2. \A i \in DOMAIN units : units[i].kind # "http1"
    BY <2>1
  <2>3. Other(s) \in Side /\ TypeInv
    BY SideTypes DEF AgreeInv
  <2>4. \A t \in Side : /\ Messages(t)' = Messages(t)
                        /\ \A n \in DOMAIN out[t] : n \in DOMAIN out'[t] /\ out'[t][n] = out[t][n]
    BY <2>1, <2>2, <2>3, OtherUnits
  <2>5. out'[s] = out[s]
    BY <2>1, <2>3, OutSides
  <2> QED
    BY <2>4, <2>5
<1>3. \/ UNCHANGED <<out, queue, recvwait>>
      \/ \E units \in Seq(Written) :
             /\ out' = [out EXCEPT ![Other(s)] = @ \o units]
             /\ \A i \in DOMAIN units : units[i].kind = "frame"
  <2>1. \/ UNCHANGED <<out, queue, recvwait>>
        \/ /\ queue' = [queue EXCEPT ![s] = <<>>]
           /\ recvwait' = (recvwait /\ Other(s) = "up")
           /\ s = "down" \/ client' = "connected"
           /\ \E units \in Seq(Written) :
                /\ units = Frames(queue[s])
                /\ out' = [out EXCEPT ![Other(s)] = @ \o units]
                /\ \A i \in DOMAIN units : /\ units[i].kind = "frame"
                                           /\ Within(units[i].of, read[s])
    BY FlushQueueSteps, Zenon
  <2> QED
    BY <2>1, Zenon
<1> QED
  BY <1>1, <1>2, <1>3

LEMMA UpOthersTurns ==
    ASSUME AgreeInv, AgreeInv', Turns, UpHttp2Done \/ UpPlaneDone
    PROVE  Turns'
<1>1. /\ ReadEnds("up") /\ up # "http1" /\ handler' = "idle" /\ TypeInv
      /\ UNCHANGED <<plan, sent, slot, read, readAs, dead, switching, up, upgrade, tunnel>>
      /\ \/ up = "http2" /\ FlushQueue("up")
            /\ InitClient(IF \E q \in Range(queue["up"]) : sent["up"][q[1]] = "frame"
                          THEN "http2" ELSE "none")
         \/ UNCHANGED <<out, down>>
  BY DEF UpHttp2Done, UpPlaneDone, peerVars, inputVars, serverVars, clientVars, AgreeInv
<1>2. down' = down \/ down' # "http1"
  <2>1. CASE InitClient("http2")
    BY <2>1, InitClientSteps
  <2>2. CASE InitClient("none")
    BY <2>2, InitClientSteps
  <2> QED
    BY <1>1, <2>1, <2>2
<1>3. /\ \A t \in Side : /\ Messages(t)' = Messages(t)
                         /\ \A n \in DOMAIN out[t] : n \in DOMAIN out'[t] /\ out'[t][n] = out[t][n]
      /\ out'["up"] = out["up"]
  BY <1>1, SideNames, NoneMore, FlushQueueMore
<1>4. /\ ~(handler = "up" /\ ~stopped /\ read["up"] < Len(sent["up"])) /\ handler # "down"
  BY <1>1, SideTypes, SideNames DEF ReadEnds
<1> QED
  BY <1>1, <1>2, <1>3, <1>4, FrameTurns

LEMMA DownOthersTurns ==
    ASSUME AgreeInv, AgreeInv', Turns, DownHttp2Done \/ DownPlaneDone
    PROVE  Turns'
<1>1. /\ ReadEnds("down") /\ down # "http1" /\ handler' = "idle"
      /\ UNCHANGED <<plan, sent, slot, read, readAs, dead, switching, up, upgrade, tunnel, down>>
      /\ (down = "http2" /\ FlushQueue("down")) \/ UNCHANGED out
  BY DEF DownHttp2Done, DownPlaneDone, peerVars, inputVars, serverVars, clientVars
<1>2. \A t \in Side : /\ Messages(t)' = Messages(t)
                      /\ \A n \in DOMAIN out[t] : n \in DOMAIN out'[t] /\ out'[t][n] = out[t][n]
  BY <1>1, SideNames, NoneMore, FlushQueueMore
<1>3. out'["up"] = out["up"] \/ plan \notin {"other", "connect"}
  BY <1>1, PlanClasses
<1>4. handler = "down"
  BY <1>1 DEF ReadEnds
<1> QED
  BY <1>1, <1>2, <1>3, <1>4, FrameTurns

-----------------------------------------------------------------------------
(***************************************************************************)
(* ... by the sessions of the other protocols, which read nothing that is  *)
(* not theirs ...                                                          *)
(***************************************************************************)
LEMMA OtherTakes ==
    ASSUME AgreeInv, AgreeInv', Turns, NEW s \in Side, handler = s, ClassOf(s) # "http1",
           UNCHANGED <<plan, sent, slot, dead, switching, up, down, upgrade, tunnel, handler>>,
           \A t \in Side : t # s => read'[t] = read[t] /\ readAs'[t] = readAs[t],
           read[s] <= read'[s], Len(readAs'[s]) = read'[s],
           \A n \in DOMAIN readAs'[s] :
              \/ n \in DOMAIN readAs[s] /\ readAs'[s][n] = readAs[s][n]
              \/ n \in read[s] + 1..Len(sent[s]) /\ readAs'[s][n] = ClassOf(s),
           \A t \in Side : /\ Messages(t)' = Messages(t)
                           /\ \A n \in DOMAIN out[t] : n \in DOMAIN out'[t] /\ out'[t][n] = out[t][n],
           s = "up" => out'["up"] = out["up"]
    PROVE  Turns'
<1>0. /\ "up" \in Side /\ "down" \in Side /\ TypeInv /\ TypeInv'
      /\ Counts /\ UpTurn /\ DownTurn /\ Over /\ Unread /\ UpKinds /\ DownKinds /\ Opening
      /\ Reading /\ Readers /\ CompleteOnly
  BY SideNames DEF AgreeInv, Turns
<1>1. Relays' = Relays
  BY <1>0 DEF Relays
<1>2. \A n \in DOMAIN out["up"] : n \in DOMAIN out'["up"] /\ out'["up"][n] = out["up"][n]
  BY <1>0
<1>3. Counts'
  BY <1>0, <1>1, <1>2, CountsKept
<1>4. /\ Agreed => Agreed'
      /\ Starts("up")' = Starts("up") /\ Rests("up")' = Rests("up")
      /\ Starts("down")' = Starts("down") /\ Rests("down")' = Rests("down") /\ Answers' = Answers
      /\ Of("down", {"101"})' = Of("down", {"101"})
  BY <1>0, <1>2, ToldGrows
<1>5. \/ s = "up" /\ up # "http1" /\ read'["down"] = read["down"]
      \/ s = "down" /\ down # "http1" /\ read'["up"] = read["up"]
  <2>1. s = "up" \/ s = "down"
    BY DEF Side
  <2>2. CASE s = "up"
    <3>1. up # "http1"
      BY <2>2 DEF ClassOf
    <3>2. "down" \in Side /\ "down" # s
      BY <1>0, <2>2
    <3> QED
      BY <2>2, <3>1, <3>2
  <2>3. CASE s = "down"
    <3>1. down # "http1"
      BY <2>3 DEF ClassOf
    <3>2. "up" \in Side /\ "up" # s
      BY <1>0, <2>3
    <3> QED
      BY <2>3, <3>1, <3>2
  <2> QED
    BY <2>1, <2>2, <2>3
<1>6. UpTurn' /\ DownTurn'
  <2>1. CASE s = "up" /\ up # "http1" /\ read'["down"] = read["down"]
    <3>1. UpTurn'
      BY <2>1 DEF UpTurn
    <3>2. DownTurn'
      BY <1>0, <1>1, <2>1, DownTurnKept
    <3> QED
      BY <3>1, <3>2
  <2>2. CASE s = "down" /\ down # "http1" /\ read'["up"] = read["up"]
    <3>1. DownTurn'
      BY <2>2 DEF DownTurn
    <3>2. UpTurn'
      BY <1>0, <1>1, <2>2, UpTurnKept
    <3> QED
      BY <3>1, <3>2
  <2> QED
    BY <1>5, <2>1, <2>2
<1>7. Over'
  BY <1>0, <1>1, <1>4 DEF Over
<1>8. UpKinds'
  <2>1. plan \in {"other", "connect"} /\ Agreed' => Agreed \/ up = "plane"
    <3>1. CASE s = "up"
      BY <3>1, AgreedSame
    <3>2. CASE s = "down"
      <4>1. SessionsOf /\ down # "http1"
        BY <1>5, <3>2 DEF AgreeInv
      <4>2. client = "connected"
        BY <3>2, <4>1 DEF SessionsOf
      <4> QED
        BY <4>1, <4>2, PlanClasses DEF SessionsOf, Class
    <3> QED
      BY <3>1, <3>2 DEF Side
  <2> QED
    BY <1>0, <2>1 DEF UpKinds
<1>9. DownKinds'
  BY <1>0, <1>4 DEF DownKinds
<1>10. Unread'
  <2>1. \A t \in Side : read[t] <= read'[t] /\ read[t] \in Nat /\ read'[t] \in Nat /\ Len(sent[t]) \in Nat
    <3>1. \A t \in Side : read[t] \in Nat /\ read'[t] \in Nat /\ Len(sent[t]) \in Nat
      BY <1>0, SideTypes DEF TypeInv, TypeOK
    <3> QED
      BY <3>1
  <2>2. \A t \in Side : \A n \in read'[t] + 1..Len(sent[t]) : n \in read[t] + 1..Len(sent[t])
    BY <2>1
  <2> QED
    BY <1>0, <2>2 DEF Unread, ClassOf
<1>11. Opening'
  BY <1>0, <1>1, <1>5 DEF Opening
<1>12. Reading'
  BY <1>0, <1>5 DEF Reading
<1>13. Readers'
  <2>1. \A n \in read[s] + 1..Len(sent[s]) : ClassFor(sent[s][n]) = ClassOf(s)
    BY <1>0 DEF Unread
  <2> QED
    BY <1>0, <2>1 DEF Readers
<1>14. CompleteOnly'
  <2>1. \A t \in Side : \A n \in Messages(t)' : n \in Messages(t) /\ out'[t][n] = out[t][n]
    BY DEF Messages
  <2> QED
    BY <1>0, <2>1, WholeKept
<1> QED
  BY <1>3, <1>6, <1>7, <1>8, <1>9, <1>10, <1>11, <1>12, <1>13, <1>14 DEF Turns

\* One unit is taken.
LEMMA TakesOne ==
    ASSUME TypeInv, Readers, NEW s \in Side, NEW class, Taking(s, class), Take(s)
    PROVE  /\ handler = s /\ ClassOf(s) = class
           /\ \A t \in Side : t # s => read'[t] = read[t] /\ readAs'[t] = readAs[t]
           /\ read'[s] = read[s] + 1 /\ read[s] <= read'[s] /\ Len(readAs'[s]) = read'[s]
           /\ read[s] + 1 \in read[s] + 1..Len(sent[s])
           /\ \A n \in DOMAIN readAs'[s] :
              \/ n \in DOMAIN readAs[s] /\ readAs'[s][n] = readAs[s][n]
              \/ n = read[s] + 1 /\ readAs'[s][n] = ClassOf(s)
<1>1. /\ readAs[s] \in Seq(Class) /\ ClassOf(s) \in Class /\ read[s] \in Nat /\ Len(sent[s]) \in Nat
      /\ Len(readAs[s]) = read[s] /\ readAs \in [Side -> Seq(Class)]
  BY SideTypes DEF Readers, TypeInv, TypeOK
<1>2. read'[s] = read[s] + 1 /\ \A t \in Side : t # s => read'[t] = read[t]
  BY TakeReads
<1>3. readAs'[s] = Append(readAs[s], ClassOf(s)) /\ \A t \in Side : t # s => readAs'[t] = readAs[t]
  BY <1>1 DEF Take
<1>4. handler = s /\ ClassOf(s) = class /\ read[s] < Len(sent[s])
  BY DEF Taking
<1>5. /\ DOMAIN readAs'[s] = 1..(Len(readAs[s]) + 1) /\ Len(readAs'[s]) = Len(readAs[s]) + 1
      /\ readAs'[s][Len(readAs[s]) + 1] = ClassOf(s) /\ DOMAIN readAs[s] = 1..Len(readAs[s])
      /\ \A i \in 1..Len(readAs[s]) : readAs'[s][i] = readAs[s][i]
  BY <1>1, <1>3, AppendProperties
<1>6. \A n \in 1..(Len(readAs[s]) + 1) : n \in 1..Len(readAs[s]) \/ n = Len(readAs[s]) + 1
  BY <1>1
<1> QED
  BY <1>1, <1>2, <1>3, <1>4, <1>5, <1>6

LEMMA TakeOthersTurns ==
    ASSUME AgreeInv, AgreeInv', Turns, NEW s \in Side, TakeFrame(s) \/ CopyBytes(s)
    PROVE  Turns'
<1>1. TypeInv /\ Readers
  BY DEF AgreeInv, Turns
<1>2. PICK class \in {"http2", "plane"} : Taking(s, class)
  BY DEF TakeFrame, CopyBytes
<1>3. /\ Take(s)
      /\ UNCHANGED <<plan, sent, slot, dead, switching, up, down, upgrade, tunnel, handler>>
  BY DEF TakeFrame, CopyBytes, peerVars, serverVars, clientVars
<1>4. /\ \A t \in Side : /\ Messages(t)' = Messages(t)
                         /\ \A n \in DOMAIN out[t] : n \in DOMAIN out'[t] /\ out'[t][n] = out[t][n]
      /\ s = "up" => out'["up"] = out["up"]
  <2>1. CASE UNCHANGED out
    BY <2>1, NoneMore
  <2>2. CASE write(Other(s), <<[kind |-> "raw", of |-> <<read[s] + 1>>]>>)
    <3> DEFINE w == [kind |-> "raw", of |-> <<read[s] + 1>>]
    <3>1. w \in Written /\ w.kind # "http1"
      <4>1. read[s] + 1 \in Nat
        BY <1>1, SideTypes
      <4>2. w \in Written
        BY <4>1 DEF Written
      <4> QED
        BY <4>2
    <3>2. out' = [out EXCEPT ![Other(s)] = @ \o <<w>>]
      BY <2>2 DEF write
    <3>3. Other(s) \in Side
      BY <1>1, SideTypes
    <3> HIDE DEF w
    <3>4. <<w>> \in Seq(Written) /\ \A i \in DOMAIN <<w>> : <<w>>[i].kind # "http1"
      BY <3>1
    <3>5. \A t \in Side : /\ Messages(t)' = Messages(t)
                          /\ \A n \in DOMAIN out[t] : n \in DOMAIN out'[t] /\ out'[t][n] = out[t][n]
      BY <1>3, <3>2, <3>3, <3>4, OtherUnits
    <3>6. out'[s] = out[s]
      BY <1>1, <3>2, <3>4, OutSides
    <3> QED
      BY <3>5, <3>6
  <2> QED
    BY <2>1, <2>2 DEF TakeFrame, CopyBytes
<1>5. /\ handler = s /\ ClassOf(s) # "http1"
      /\ \A t \in Side : t # s => read'[t] = read[t] /\ readAs'[t] = readAs[t]
      /\ read[s] <= read'[s] /\ Len(readAs'[s]) = read'[s]
      /\ \A n \in DOMAIN readAs'[s] :
              \/ n \in DOMAIN readAs[s] /\ readAs'[s][n] = readAs[s][n]
              \/ n \in read[s] + 1..Len(sent[s]) /\ readAs'[s][n] = ClassOf(s)
  <2>1. /\ handler = s /\ ClassOf(s) = class
        /\ \A t \in Side : t # s => read'[t] = read[t] /\ readAs'[t] = readAs[t]
        /\ read[s] <= read'[s] /\ Len(readAs'[s]) = read'[s]
        /\ read[s] + 1 \in read[s] + 1..Len(sent[s])
        /\ \A n \in DOMAIN readAs'[s] :
              \/ n \in DOMAIN readAs[s] /\ readAs'[s][n] = readAs[s][n]
              \/ n = read[s] + 1 /\ readAs'[s][n] = ClassOf(s)
    BY <1>1, <1>2, <1>3, TakesOne
  <2> QED
    BY <2>1
<1> QED
  BY <1>3, <1>4, <1>5, OtherTakes

LEMMA PrefaceTurns ==
    ASSUME AgreeInv, AgreeInv', Turns, TakePreface
    PROVE  Turns'
<1>1. TypeInv /\ Readers /\ "up" \in Side /\ ClassOf("up") = up
  BY SideNames DEF AgreeInv, Turns, ClassOf
<1>2. /\ handler = "up" /\ up = "http2" /\ ClassOf("up") # "http1"
      /\ UNCHANGED <<plan, sent, slot, dead, switching, up, down, upgrade, tunnel, handler, out>>
  BY <1>1 DEF TakePreface, Taking, peerVars, serverVars, clientVars
<1>3. PICK k \in {0, 1, 2} :
         /\ read["up"] + k <= Len(sent["up"])
         /\ read' = [read EXCEPT !["up"] = @ + k]
         /\ readAs' = [readAs EXCEPT !["up"] = @ \o [i \in 1..k |-> "http2"]]
  BY <1>1, PrefaceTaken
<1>4. /\ readAs["up"] \in Seq(Class) /\ read["up"] \in Nat /\ Len(sent["up"]) \in Nat
      /\ Len(readAs["up"]) = read["up"] /\ readAs \in [Side -> Seq(Class)] /\ read \in [Side -> Nat]
  BY <1>1, SideTypes DEF Readers, TypeInv, TypeOK
<1> DEFINE q == readAs["up"]
           e == [i \in 1..k |-> "http2"]
<1>5. e \in Seq(Class) /\ Len(e) = k /\ DOMAIN e = 1..k /\ \A i \in 1..k : e[i] = "http2"
  <2>1. k \in Nat
    OBVIOUS
  <2>2. \A i \in 1..k : "http2" \in Class
    BY DEF Class
  <2>3. e \in Seq(Class)
    BY <2>1, <2>2, IsASeq
  <2> QED
    BY <2>1, <2>3
<1>11. readAs' = [readAs EXCEPT !["up"] = @ \o e]
  BY <1>3
<1> HIDE DEF e
<1>6. /\ read'["up"] = read["up"] + k /\ readAs'["up"] = q \o e
      /\ \A t \in Side : t # "up" => read'[t] = read[t] /\ readAs'[t] = readAs[t]
  <2>1. read'["up"] = read["up"] + k /\ \A t \in Side : t # "up" => read'[t] = read[t]
    BY <1>1, <1>3, <1>4
  <2>2. readAs'["up"] = q \o e /\ \A t \in Side : t # "up" => readAs'[t] = readAs[t]
    BY <1>1, <1>4, <1>11
  <2> QED
    BY <2>1, <2>2
<1> HIDE DEF q
<1>7. /\ Len(q \o e) = Len(q) + k /\ DOMAIN (q \o e) = 1..(Len(q) + k)
      /\ \A i \in 1..(Len(q) + k) : (q \o e)[i] = IF i <= Len(q) THEN q[i] ELSE e[i - Len(q)]
  <2>1. q \in Seq(Class)
    BY <1>4 DEF q
  <2> QED
    BY <1>5, <2>1, ConcatProperties
<1>8. ASSUME NEW n \in DOMAIN readAs'["up"]
      PROVE  \/ n \in DOMAIN readAs["up"] /\ readAs'["up"][n] = readAs["up"][n]
             \/ n \in read["up"] + 1..Len(sent["up"]) /\ readAs'["up"][n] = ClassOf("up")
  <2>1. Len(q) = read["up"] /\ DOMAIN q = 1..Len(q) /\ Len(q) \in Nat
    BY <1>4 DEF q
  <2>2. n \in 1..(Len(q) + k)
    BY <1>6, <1>7
  <2>3. CASE n <= Len(q)
    <3>1. n \in DOMAIN q
      BY <2>1, <2>2, <2>3
    <3>2. (q \o e)[n] = q[n]
      BY <1>7, <2>2, <2>3
    <3> QED
      BY <1>6, <3>1, <3>2 DEF q
  <2>4. CASE ~(n <= Len(q))
    <3>1. n - Len(q) \in 1..k /\ n \in read["up"] + 1..Len(sent["up"])
      BY <1>3, <1>4, <2>1, <2>2, <2>4
    <3>2. (q \o e)[n] = "http2"
      BY <1>5, <1>7, <2>2, <2>4, <3>1
    <3> QED
      BY <1>1, <1>2, <1>6, <3>1, <3>2
  <2> QED
    BY <2>3, <2>4
<1>9. read["up"] <= read'["up"] /\ Len(readAs'["up"]) = read'["up"]
  <2>1. Len(q) = read["up"]
    BY <1>4 DEF q
  <2> QED
    BY <1>4, <1>6, <1>7, <2>1
<1>10. /\ \A t \in Side : /\ Messages(t)' = Messages(t)
                          /\ \A n \in DOMAIN out[t] : n \in DOMAIN out'[t] /\ out'[t][n] = out[t][n]
       /\ out'["up"] = out["up"]
  BY <1>2, NoneMore
<1> QED
  BY <1>1, <1>2, <1>6, <1>8, <1>9, <1>10, OtherTakes

-----------------------------------------------------------------------------
(***************************************************************************)
(* ... by the parser, which meets one message at a time ...                *)
(***************************************************************************)
LEMMA HalfTakes ==
    ASSUME TypeInv, NEW s \in Side, read[s] < Len(sent[s]), Half(s)
    PROVE  /\ NextUnit(s) = "begin" /\ slot[s] = NoMessage
           /\ read[s] + 1 = Len(sent[s]) /\ read[s] + 1 \in DOMAIN sent[s]
<1>1. PICK n \in DOMAIN sent[s] :
       /\ n = Len(sent[s]) /\ sent[s][n] = "begin"
       /\ (slot[s] = NoMessage /\ read[s] = n - 1) \/ Opened(s, n)
  BY DEF Half
<1>2. n \in Nat /\ read[s] \in Nat
  BY SideTypes
<1>3. ~Opened(s, n)
  BY <1>1, <1>2 DEF Opened
<1>4. read[s] + 1 = n /\ slot[s] = NoMessage
  BY <1>1, <1>2, <1>3
<1> QED
  BY <1>1, <1>4 DEF NextUnit

LEMMA EndedTakes ==
    ASSUME TypeInv, NEW s \in Side, read[s] < Len(sent[s]), Ended(s)
    PROVE  \E n \in DOMAIN sent[s] :
              /\ n + 1 = Len(sent[s]) /\ sent[s][n] = "begin" /\ sent[s][n + 1] = "rest"
              /\ \/ slot[s] = NoMessage /\ n = read[s] + 1 /\ NextUnit(s) = "begin"
                 \/ /\ Opened(s, n) /\ n = read[s] /\ NextUnit(s) = "rest"
                    /\ plan = "connect" => handler = "up" /\ ~stopped
<1>1. PICK n \in DOMAIN sent[s] :
       /\ n + 1 = Len(sent[s]) /\ sent[s][n] = "begin" /\ sent[s][n + 1] = "rest"
       /\ \/ slot[s] = NoMessage /\ read[s] = n - 1
          \/ Opened(s, n) /\ (plan = "connect" => handler = "up" /\ ~stopped)
          \/ Full(s, n) /\ (s = "down" => handler = "down")
  BY DEF Ended
<1>2. n \in Nat /\ read[s] \in Nat
  BY SideTypes
<1>3. ~Full(s, n)
  BY <1>1, <1>2 DEF Full
<1>4. \/ slot[s] = NoMessage /\ n = read[s] + 1
      \/ Opened(s, n) /\ n = read[s] /\ (plan = "connect" => handler = "up" /\ ~stopped)
  BY <1>1, <1>2, <1>3 DEF Opened
<1>5. \/ slot[s] = NoMessage /\ n = read[s] + 1 /\ NextUnit(s) = "begin"
      \/ /\ Opened(s, n) /\ n = read[s] /\ NextUnit(s) = "rest"
         /\ plan = "connect" => handler = "up" /\ ~stopped
  BY <1>1, <1>4 DEF NextUnit
<1> QED
  BY <1>1, <1>5

LEMMA LeavingTakes ==
    ASSUME TypeInv, read["down"] < Len(sent["down"]), ~stopped, Leaving
    PROVE  /\ NextUnit("down") = "101" /\ slot["down"] = NoMessage
           /\ read["down"] + 1 \in DOMAIN sent["down"]
           /\ \A k \in read["down"] + 2..Len(sent["down"]) : sent["down"][k] \in NewKinds
<1>1. PICK n \in DOMAIN sent["down"] :
       /\ sent["down"][n] = "101"
       /\ \A k \in n + 1..Len(sent["down"]) : sent["down"][k] \in NewKinds
       /\ \/ slot["down"] = NoMessage /\ read["down"] = n - 1 /\ switching = ""
          \/ /\ slot["down"].stat = "COMPLETE" /\ slot["down"].units = <<n>> /\ read["down"] = n
             /\ handler = "down" /\ stopped /\ switching # ""
  BY DEF Leaving
<1>2. n \in Nat /\ read["down"] \in Nat
  BY SideTypes, SideNames
<1>3. read["down"] = n - 1 /\ slot["down"] = NoMessage
  BY <1>1
<1>4. read["down"] + 1 = n /\ read["down"] + 2 = n + 1
  BY <1>2, <1>3
<1> QED
  BY <1>1, <1>3, <1>4 DEF NextUnit

\* Whose parser runs, and what it meets.
LEMMA Meets ==
    ASSUME AgreeInv, Turns, NEW s \in Side, Taking(s, "http1")
    PROVE  /\ plan # "direct" /\ up = "http1" /\ handler = s /\ ~stopped /\ ~dead[s]
           /\ read[s] < Len(sent[s]) /\ ~Quiet(s)
           /\ s = "down" => Exchanging /\ down = "http1"
           /\ Half(s) \/ Ended(s) \/ (s = "down" /\ Leaving)
<1>1. handler = s /\ ~stopped /\ read[s] < Len(sent[s]) /\ ClassOf(s) = "http1"
  BY DEF Taking
<1>2. UpTurn /\ DownTurn /\ Opening /\ Reading /\ TypeInv
  BY DEF Turns, AgreeInv
<1>3. ~dead[s]
  BY <1>2 DEF Reading
<1>4. ~Quiet(s)
  BY <1>1, <1>2, SideTypes DEF Quiet
<1>5. CASE s = "up"
  <2>1. up = "http1" /\ plan # "direct"
    BY <1>1, <1>2, <1>5 DEF ClassOf, Opening
  <2>2. Half("up") \/ Ended("up")
    BY <1>2, <1>4, <1>5, <2>1 DEF UpTurn
  <2> QED
    BY <1>1, <1>3, <1>4, <1>5, <2>1, <2>2
<1>6. CASE s = "down"
  <2>1. down = "http1" /\ SessionsOf
    BY <1>1, <1>6 DEF ClassOf, AgreeInv
  <2>2. client = "connected"
    BY <1>1, <1>6, <2>1 DEF SessionsOf
  <2>3. plan \in {"get", "h2c", "other"} /\ up = "http1"
    BY <2>1, <2>2, PlanClasses DEF SessionsOf
  <2>4. Half("down") \/ Ended("down") \/ Leaving
    BY <1>2, <1>4, <1>6, <2>1, <2>3 DEF DownTurn, Exchanging
  <2> QED
    BY <1>1, <1>3, <1>4, <1>6, <2>1, <2>3, <2>4 DEF Exchanging
<1> QED
  BY <1>5, <1>6 DEF Side

LEMMA ParseTurns ==
    ASSUME AgreeInv, AgreeInv', Turns, NEW s \in Side, Taking(s, "http1"), Take(s),
           UNCHANGED <<plan, sent, up, down, upgrade, tunnel, dead, handler, out>>,
           NextUnit(s) \in {"begin", "rest", "101"},
           slot'[s] # NoMessage, \A t \in Side : t # s => slot'[t] = slot[t],
           NextUnit(s) # "101" => switching' = switching,
           Half(s) => Half(s)', Ended(s) => Ended(s)', s = "down" /\ Leaving => Leaving'
    PROVE  Turns'
<1>0. /\ "up" \in Side /\ "down" \in Side /\ TypeInv /\ TypeInv'
      /\ Counts /\ UpTurn /\ DownTurn /\ Over /\ Unread /\ UpKinds /\ DownKinds /\ Opening
      /\ Reading /\ Readers /\ CompleteOnly
  BY SideNames DEF AgreeInv, Turns
<1>1. Relays' = Relays
  BY DEF Relays, Messages
<1>2. \A n \in DOMAIN out["up"] : n \in DOMAIN out'["up"] /\ out'["up"][n] = out["up"][n]
  OBVIOUS
<1>3. Counts'
  BY <1>0, <1>1, <1>2, CountsKept
<1>4. /\ Starts("up")' = Starts("up") /\ Rests("up")' = Rests("up")
      /\ Starts("down")' = Starts("down") /\ Rests("down")' = Rests("down") /\ Answers' = Answers
      /\ Of("down", {"101"})' = Of("down", {"101"})
  BY <1>0, <1>2, ToldGrows
<1>5. /\ plan # "direct" /\ up = "http1" /\ handler = s /\ ~Quiet(s)
      /\ s = "down" => Exchanging /\ down = "http1"
  BY Meets
<1>6. \A t \in Side : t # s => read'[t] = read[t]
  BY <1>0, TakeReads
<1>7. UpTurn' /\ DownTurn'
  <2>1. CASE s = "up"
    <3>1. UpTurn'
      <4>1. Half("up") \/ Ended("up")
        BY <1>0, <1>5, <2>1 DEF UpTurn
      <4> QED
        BY <1>0, <1>1, <1>4, <1>5, <2>1 DEF UpTurn
    <3>2. "down" # s /\ NextUnit(s) # "101"
      BY <1>0, <2>1, TakenUnit DEF NextUnit, AgreeInv, AppKinds
    <3>3. DownTurn'
      BY <1>0, <1>1, <1>5, <1>6, <2>1, <3>2, DownTurnKept
    <3> QED
      BY <3>1, <3>3
  <2>2. CASE s = "down"
    <3>1. "up" # s /\ handler = "down"
      BY <1>5, <2>2
    <3>2. UpTurn'
      BY <1>0, <1>1, <1>6, <3>1, UpTurnKept
    <3>3. Of("down", {"101"}) = {} => switching' = switching
      <4>1. NextUnit(s) = "101" => read["down"] + 1 \in Of("down", {"101"})
        BY <1>0, <2>2, TakenUnit DEF Of, NextUnit
      <4> QED
        BY <4>1
    <3>4. DownTurn'
      BY <1>0, <1>1, <1>4, <1>5, <2>2, <3>3 DEF DownTurn
    <3> QED
      BY <3>2, <3>4
  <2> QED
    BY <2>1, <2>2 DEF Side
<1>8. Over'
  BY <1>5 DEF Over
<1>9. UpKinds' /\ DownKinds'
  <2>1. Agreed' => Agreed
    BY DEF Agreed
  <2> QED
    BY <1>0, <1>4, <2>1 DEF UpKinds, DownKinds
<1>10. Unread'
  <2>1. \A t \in Side : read[t] <= read'[t] /\ read[t] \in Nat /\ read'[t] \in Nat /\ Len(sent[t]) \in Nat
    BY <1>0, SideTypes, TakeReads
  <2>2. \A t \in Side : \A n \in read'[t] + 1..Len(sent[t]) : n \in read[t] + 1..Len(sent[t])
    BY <2>1
  <2> QED
    BY <1>0, <2>2 DEF Unread, ClassOf
<1>11. Opening'
  BY <1>5 DEF Opening
<1>12. Reading'
  <2>1. handler' # "crashed" /\ \A t \in Side : ~dead'[t]
    BY <1>0 DEF Reading
  <2>2. handler' = "down" => slot'["down"] # NoMessage
    BY <1>5
  <2> QED
    BY <2>1, <2>2 DEF Reading
<1>13. Readers'
  <2>1. /\ ClassOf(s) = "http1"
        /\ \A t \in Side : t # s => read'[t] = read[t] /\ readAs'[t] = readAs[t]
        /\ Len(readAs'[s]) = read'[s]
        /\ \A n \in DOMAIN readAs'[s] :
              \/ n \in DOMAIN readAs[s] /\ readAs'[s][n] = readAs[s][n]
              \/ n = read[s] + 1 /\ readAs'[s][n] = ClassOf(s)
    BY <1>0, TakesOne
  <2>2. ClassFor(sent[s][read[s] + 1]) = "http1"
    BY DEF NextUnit, ClassFor
  <2> QED
    BY <1>0, <2>1, <2>2 DEF Readers
<1>14. CompleteOnly'
  <2>1. \A t \in Side : \A n \in Messages(t)' : n \in Messages(t) /\ out'[t][n] = out[t][n]
    BY DEF Messages
  <2> QED
    BY <1>0, <2>1, WholeKept
<1> QED
  BY <1>3, <1>7, <1>8, <1>9, <1>10, <1>11, <1>12, <1>13, <1>14 DEF Turns

LEMMA Slots ==
    ASSUME TypeInv, NEW s \in Side, NEW m \in Message, slot' = [slot EXCEPT ![s] = m]
    PROVE  slot'[s] = m /\ \A t \in Side : t # s => slot'[t] = slot[t]
<1>1. slot \in [Side -> Message]
  BY DEF TypeInv, TypeOK
<1> QED
  BY <1>1

LEMMA PairAppended ==
    ASSUME NEW a \in Nat, NEW b \in Nat
    PROVE  Append(<<a>>, b) = <<a, b>>
<1>1. <<a>> \in Seq(Nat) /\ <<a, b>> \in Seq(Nat) /\ Append(<<a>>, b) \in Seq(Nat)
  OBVIOUS
<1>2. Len(<<a>>) = 1 /\ Len(<<a, b>>) = 2 /\ Len(Append(<<a>>, b)) = 2
  OBVIOUS
<1>3. ASSUME NEW i \in 1..2 PROVE Append(<<a>>, b)[i] = <<a, b>>[i]
  <2>1. i = 1 \/ i = 2
    OBVIOUS
  <2>2. Append(<<a>>, b)[1] = a /\ Append(<<a>>, b)[2] = b
    OBVIOUS
  <2> QED
    BY <2>1, <2>2
<1> QED
  BY <1>1, <1>2, <1>3, SeqEqual

LEMMA ParseBeginTurns ==
    ASSUME AgreeInv, AgreeInv', Turns, NEW s \in Side, ParseBegin(s)
    PROVE  Turns'
<1>1. /\ Taking(s, "http1") /\ Take(s) /\ NextUnit(s) = "begin"
      /\ slot' = [slot EXCEPT ![s] = msg_begin(s)]
      /\ UNCHANGED <<plan, sent, up, down, upgrade, tunnel, dead, handler, out, switching, stopped>>
  BY DEF ParseBegin, peerVars, serverVars, clientVars
<1>2. TypeInv
  BY DEF AgreeInv
<1>3. /\ plan # "direct" /\ handler = s /\ ~stopped /\ read[s] < Len(sent[s])
      /\ s = "down" => Exchanging
      /\ Half(s) \/ Ended(s) \/ (s = "down" /\ Leaving)
  BY <1>1, Meets
<1>4. s = "down" /\ Leaving => FALSE
  BY <1>1, <1>2, <1>3, LeavingTakes
<1>5. PICK n \in DOMAIN sent[s] : slot[s] = NoMessage /\ n = read[s] + 1
  <2>1. Half(s) => slot[s] = NoMessage
    BY <1>2, <1>3, HalfTakes
  <2>2. Ended(s) => slot[s] = NoMessage
    BY <1>1, <1>2, <1>3, EndedTakes
  <2>3. read[s] + 1 \in DOMAIN sent[s]
    BY <1>1, <1>2, TakenUnit
  <2> QED
    BY <1>3, <1>4, <2>1, <2>2, <2>3
<1>6. msg_begin(s) \in Message /\ slot'[s] = msg_begin(s) /\ \A t \in Side : t # s => slot'[t] = slot[t]
  <2>1. msg_begin(s) \in Message
    BY <1>2, SideNames, SlotTypes
  <2> QED
    BY <1>1, <1>2, <2>1, Slots
<1>7. msg_begin(s).units = <<n>> /\ msg_begin(s).stat = "HEADER" /\ ~msg_begin(s).h2
  BY <1>5 DEF msg_begin
<1>8. slot'[s] # NoMessage
  <2>1. <<n>> # <<>>
    OBVIOUS
  <2> QED
    BY <1>6, <1>7, <2>1, SideNames
<1>9. read'[s] = n
  BY <1>1, <1>2, <1>5, TakeReads
<1>10. Opened(s, n)'
  BY <1>6, <1>7, <1>9 DEF Opened
<1>11. ASSUME Half(s) PROVE Half(s)'
  <2>1. n = Len(sent[s]) /\ sent[s][n] = "begin"
    BY <1>1, <1>2, <1>3, <1>5, <1>11, HalfTakes DEF NextUnit
  <2>2. n \in DOMAIN sent'[s] /\ n = Len(sent'[s]) /\ sent'[s][n] = "begin"
    BY <1>1, <1>5, <2>1
  <2> QED
    BY <1>10, <2>2 DEF Half
<1>12. ASSUME Ended(s) PROVE Ended(s)'
  <2>1. PICK k \in DOMAIN sent[s] :
              /\ k + 1 = Len(sent[s]) /\ sent[s][k] = "begin" /\ sent[s][k + 1] = "rest"
              /\ \/ slot[s] = NoMessage /\ k = read[s] + 1 /\ NextUnit(s) = "begin"
                 \/ /\ Opened(s, k) /\ k = read[s] /\ NextUnit(s) = "rest"
                    /\ plan = "connect" => handler = "up" /\ ~stopped
    BY <1>2, <1>3, <1>12, EndedTakes
  <2>2. k = n
    BY <1>1, <1>5, <2>1
  <2>3. k + 1 = Len(sent'[s]) /\ sent'[s][k] = "begin" /\ sent'[s][k + 1] = "rest" /\ k \in DOMAIN sent'[s]
    BY <1>1, <2>1
  <2>4. Opened(s, k)'
    BY <1>6, <1>7, <1>9, <2>2 DEF Opened
  <2>5. plan' = "connect" => handler' = "up" /\ ~stopped'
    BY <1>1, <1>3 DEF Exchanging, Side
  <2> QED
    BY <2>3, <2>4, <2>5 DEF Ended
<1> QED
  BY <1>1, <1>4, <1>6, <1>8, <1>11, <1>12, ParseTurns

LEMMA ParseRestTurns ==
    ASSUME AgreeInv, AgreeInv', Turns, NEW s \in Side, ParseRest(s)
    PROVE  Turns'
<1>1. /\ Taking(s, "http1") /\ Take(s) /\ NextUnit(s) = "rest"
      /\ slot' = [slot EXCEPT ![s] = msg_complete(s, slot[s])]
      /\ UNCHANGED <<plan, sent, up, down, upgrade, tunnel, dead, handler, out, switching>>
  BY DEF ParseRest, peerVars, serverVars, clientVars
<1>2. TypeInv /\ slot[s] \in Message /\ slot[s].units \in Seq(Nat)
  BY SideTypes DEF AgreeInv
<1>3. /\ handler = s /\ ~stopped /\ read[s] < Len(sent[s])
      /\ Half(s) \/ Ended(s) \/ (s = "down" /\ Leaving)
  BY <1>1, Meets
<1>4. s = "down" /\ Leaving => FALSE
  BY <1>1, <1>2, <1>3, LeavingTakes
<1>5. Half(s) => FALSE
  BY <1>1, <1>2, <1>3, HalfTakes
<1>6. PICK n \in DOMAIN sent[s] :
         /\ n + 1 = Len(sent[s]) /\ sent[s][n] = "begin" /\ sent[s][n + 1] = "rest"
         /\ Opened(s, n) /\ n = read[s]
  <2>1. Ended(s)
    BY <1>3, <1>4, <1>5
  <2> QED
    BY <1>1, <1>2, <1>3, <2>1, EndedTakes
<1> DEFINE m == msg_complete(s, slot[s])
<1>7. m \in Message /\ slot'[s] = m /\ \A t \in Side : t # s => slot'[t] = slot[t]
  <2>1. m \in Message
    BY <1>2, SlotTypes
  <2> HIDE DEF m
  <2>2. slot' = [slot EXCEPT ![s] = m]
    BY <1>1 DEF m
  <2> QED
    BY <1>2, <2>1, <2>2, Slots
<1>8. m.units = <<n, n + 1>> /\ m.stat = "COMPLETE"
  <2>1. slot[s].units = <<n>> /\ read[s] = n /\ n \in Nat
    BY <1>2, <1>6, SideTypes DEF Opened
  <2>2. n + 1 \notin Range(<<n>>)
    BY <2>1 DEF Range
  <2>3. /\ m.units = IF read[s] + 1 \in Range(slot[s].units) THEN slot[s].units
                     ELSE Append(slot[s].units, read[s] + 1)
        /\ m.stat = "COMPLETE"
    BY <1>2, CompleteFields
  <2>4. Append(<<n>>, n + 1) = <<n, n + 1>>
    <3>1. n \in Nat /\ n + 1 \in Nat
      BY <2>1
    <3> QED
      BY <3>1, PairAppended
  <2>5. m.units = Append(<<n>>, n + 1)
    BY <2>1, <2>2, <2>3
  <2> QED
    BY <2>3, <2>4, <2>5
<1> HIDE DEF m
<1>9. slot'[s] # NoMessage
  <2>1. <<n, n + 1>> # <<>>
    OBVIOUS
  <2> QED
    BY <1>7, <1>8, <2>1, SideNames
<1>10. read'[s] = n + 1
  BY <1>1, <1>2, <1>6, TakeReads
<1>11. Ended(s)'
  <2>1. n + 1 = Len(sent'[s]) /\ sent'[s][n] = "begin" /\ sent'[s][n + 1] = "rest" /\ n \in DOMAIN sent'[s]
    BY <1>1, <1>6
  <2>2. Full(s, n)'
    BY <1>7, <1>8, <1>10 DEF Full
  <2>3. s = "down" => handler' = "down"
    BY <1>1, <1>3
  <2> QED
    BY <2>1, <2>2, <2>3 DEF Ended
<1> QED
  BY <1>1, <1>4, <1>5, <1>7, <1>9, <1>11, ParseTurns

LEMMA ParseShortTurns ==
    ASSUME AgreeInv, AgreeInv', Turns, NEW s \in Side, ParseShort(s)
    PROVE  Turns'
<1>1. /\ Taking(s, "http1") /\ Take(s) /\ NextUnit(s) \in {"100", "101"}
      /\ slot' = [slot EXCEPT ![s] = msg_complete(s, msg_begin(s))]
      /\ NextUnit(s) = "101" => switching' = plan /\ stopped'
      /\ UNCHANGED <<plan, sent, up, down, upgrade, tunnel, dead, handler, out>>
  BY DEF ParseShort, peerVars, serverVars
<1>2. TypeInv /\ msg_begin(s) \in Message
  BY SideNames, SlotTypes DEF AgreeInv
<1>3. /\ handler = s /\ ~stopped /\ read[s] < Len(sent[s])
      /\ Half(s) \/ Ended(s) \/ (s = "down" /\ Leaving)
  BY <1>1, Meets
<1>4. ~Half(s)
  BY <1>1, <1>2, <1>3, HalfTakes
<1>5. ~Ended(s)
  <2>1. NextUnit(s) # "begin" /\ NextUnit(s) # "rest"
    BY <1>1
  <2> QED
    BY <1>2, <1>3, <2>1, EndedTakes
<1>6. /\ s = "down" /\ Leaving /\ NextUnit(s) = "101" /\ slot[s] = NoMessage
      /\ read[s] + 1 \in DOMAIN sent[s]
      /\ \A k \in read[s] + 2..Len(sent[s]) : sent[s][k] \in NewKinds
  BY <1>2, <1>3, <1>4, <1>5, LeavingTakes
<1> DEFINE n == read[s] + 1
           b == msg_begin(s)
           m == msg_complete(s, b)
<1>7. b.units = <<n>>
  BY <1>6 DEF msg_begin
<1>8. m \in Message /\ slot'[s] = m /\ \A t \in Side : t # s => slot'[t] = slot[t]
  <2>1. m \in Message
    BY <1>2, SlotTypes
  <2> HIDE DEF m
  <2>2. slot' = [slot EXCEPT ![s] = m]
    BY <1>1 DEF m
  <2> QED
    BY <1>2, <2>1, <2>2, Slots
<1>9. m.units = <<n>> /\ m.stat = "COMPLETE"
  <2>1. read[s] + 1 = n /\ b \in Message
    BY <1>2
  <2> HIDE DEF b, n
  <2>2. /\ m.units = IF read[s] + 1 \in Range(b.units) THEN b.units ELSE Append(b.units, read[s] + 1)
        /\ m.stat = "COMPLETE"
    BY <2>1, CompleteFields
  <2>3. n \in Range(<<n>>)
    <3>1. 1 \in DOMAIN <<n>> /\ <<n>>[1] = n
      OBVIOUS
    <3> QED
      BY <3>1 DEF Range
  <2> QED
    BY <1>7, <2>1, <2>2, <2>3
<1>10. n \in Nat /\ n + 1 = read[s] + 2
  BY <1>2, SideTypes
<1>14. n = read[s] + 1
  OBVIOUS
<1> HIDE DEF m, b, n
<1>11. slot'[s] # NoMessage
  <2>1. <<n>> # <<>>
    OBVIOUS
  <2> QED
    BY <1>8, <1>9, <2>1, SideNames
<1>12. read'[s] = n
  BY <1>1, <1>2, <1>14, TakeReads
<1>13. Leaving'
  <2>1. switching' # ""
    BY <1>1, <1>2, <1>6, TakenUnit
  <2>2. n \in DOMAIN sent'["down"] /\ sent'["down"][n] = "101"
    BY <1>1, <1>6, <1>14 DEF NextUnit
  <2>3. \A k \in n + 1..Len(sent'["down"]) : sent'["down"][k] \in NewKinds'
    BY <1>1, <1>6, <1>10 DEF NewKinds
  <2>4. /\ slot'["down"].stat = "COMPLETE" /\ slot'["down"].units = <<n>> /\ read'["down"] = n
        /\ handler' = "down" /\ stopped' /\ switching' # ""
    BY <1>1, <1>3, <1>6, <1>8, <1>9, <1>12, <2>1
  <2> QED
    BY <2>2, <2>3, <2>4 DEF Leaving
<1> QED
  BY <1>1, <1>4, <1>5, <1>6, <1>8, <1>11, <1>13, ParseTurns

\* There is nothing that the parser could stumble over.
LEMMA NoParseError ==
    ASSUME AgreeInv, Turns, NEW s \in Side, ParseError(s)
    PROVE  FALSE
<1>1. /\ Taking(s, "http1")
      /\ dead[s] \/ (NextUnit(s) = "rest" /\ slot[s] = NoMessage)
            \/ NextUnit(s) \notin {"begin", "rest", "100", "101"}
  BY DEF ParseError
<1>2. TypeInv
  BY DEF AgreeInv
<1>3. /\ ~dead[s] /\ ~stopped /\ read[s] < Len(sent[s])
      /\ Half(s) \/ Ended(s) \/ (s = "down" /\ Leaving)
  BY <1>1, Meets
<1>4. Half(s) => NextUnit(s) = "begin"
  BY <1>2, <1>3, HalfTakes
<1>5. Ended(s) => NextUnit(s) = "begin" \/ (NextUnit(s) = "rest" /\ slot[s] # NoMessage)
  <2>1. \A n : Opened(s, n) => slot[s] # NoMessage
    <3> TAKE n
    <3>1. <<n>> # <<>>
      OBVIOUS
    <3> QED
      BY <3>1, SideNames DEF Opened
  <2> QED
    BY <1>2, <1>3, <2>1, EndedTakes
<1>6. s = "down" /\ Leaving => NextUnit(s) = "101"
  BY <1>2, <1>3, LeavingTakes
<1> QED
  BY <1>1, <1>3, <1>4, <1>5, <1>6

-----------------------------------------------------------------------------
(***************************************************************************)
(* ... by the callbacks and the outcome of the connection.  A whole        *)
(* request that waits is the only thing under way: everything before it    *)
(* has been answered, and the origin has nothing to say.                   *)
(***************************************************************************)
LEMMA UpWaits ==
    ASSUME AgreeInv, Turns, Exchanging, up = "http1", Rests("up") > Relays, handler # "down"
    PROVE  /\ Quiet("down") /\ Of("down", {"101"}) = {} /\ switching = ""
           /\ Starts("down") <= Rests("down") /\ Relays <= Answers
<1>1. /\ TypeInv /\ Counts /\ DownTurn /\ "up" \in Side /\ "down" \in Side
      /\ down = "http1" /\ OutRead
  BY SideNames DEF AgreeInv, Turns, SessionsOf, Exchanging, Positions
<1>2. /\ \A s \in Side : Starts(s) \in Nat /\ Rests(s) \in Nat
      /\ Relays \in Nat /\ Answers \in Nat /\ Told \in Nat
      /\ Told <= Rests("down") /\ Rests("down") <= Answers
      /\ Of("down", {"101"}) # {} => Rests("down") + 1 <= Answers
      /\ Told = Rests("down") => Answered = Of("down", {"rest"})
  BY <1>1, Numbers
<1>3. /\ Starts("up") \in Nat /\ Rests("up") \in Nat /\ Starts("down") \in Nat /\ Rests("down") \in Nat
  BY <1>1, <1>2
<1>4. Told = Rests("down") /\ Relays = Answers /\ ~(Rests("down") + 1 <= Answers)
  BY <1>1, <1>2, <1>3 DEF Counts
<1>5. Of("down", {"101"}) = {} /\ Answered = Of("down", {"rest"})
  BY <1>2, <1>4
<1>6. ~Leaving
  BY <1>5 DEF Leaving, Of
<1>7. ~(Relays > Answers) /\ Relays <= Answers
  BY <1>2, <1>4
<1>8. ~Ended("down")
  <2> SUFFICES ASSUME Ended("down") PROVE FALSE
    OBVIOUS
  <2>1. PICK n \in DOMAIN sent["down"] :
       /\ n + 1 = Len(sent["down"]) /\ sent["down"][n] = "begin" /\ sent["down"][n + 1] = "rest"
       /\ \/ slot["down"] = NoMessage /\ read["down"] = n - 1
          \/ Opened("down", n) /\ (plan = "connect" => handler = "up" /\ ~stopped)
          \/ Full("down", n) /\ ("down" = "down" => handler = "down")
    BY DEF Ended
  <2>2. n \in Nat /\ read["down"] \in Nat /\ n + 1 \in DOMAIN sent["down"]
    BY <1>1, <2>1, SideTypes
  <2>3. read["down"] < n + 1
    BY <2>1, <2>2 DEF Opened
  <2>4. n + 1 \in Answered
    BY <1>5, <2>1, <2>2 DEF Of
  <2>5. PICK w \in Range(out["up"]) : n + 1 \in Range(w.of)
    BY <2>4 DEF Answered
  <2>6. \A j \in DOMAIN out["up"] : Within(out["up"][j].of, read["down"])
    BY <1>1 DEF OutRead, Other
  <2>7. n + 1 \in 1..read["down"]
    BY <2>5, <2>6 DEF Range, Within
  <2> QED
    BY <2>2, <2>3, <2>7
<1> QED
  BY <1>1, <1>5, <1>6, <1>7, <1>8 DEF DownTurn

\* A message that is complete is whole.
LEMMA EndedWhole ==
    ASSUME TypeInv, NEW s \in Side, Ended(s), slot[s].stat = "COMPLETE"
    PROVE  /\ \E n \in DOMAIN sent[s] : /\ n + 1 = Len(sent[s]) /\ Full(s, n)
                                        /\ sent[s][n] = "begin" /\ sent[s][n + 1] = "rest"
           /\ read[s] = Len(sent[s]) /\ Whole(s, slot[s].units)
           /\ \A i \in DOMAIN slot[s].units : sent[s][slot[s].units[i]] \in {"begin", "rest"}
<1>1. NoMessage.stat # "COMPLETE"
  BY DEF NoMessage
<1>2. PICK n \in DOMAIN sent[s] :
         /\ n + 1 = Len(sent[s]) /\ sent[s][n] = "begin" /\ sent[s][n + 1] = "rest"
         /\ \/ slot[s] = NoMessage /\ read[s] = n - 1
            \/ Opened(s, n) /\ (plan = "connect" => handler = "up" /\ ~stopped)
            \/ Full(s, n) /\ (s = "down" => handler = "down")
  BY DEF Ended
<1>3. Full(s, n)
  BY <1>1, <1>2 DEF Opened
<1>4. slot[s].units = <<n, n + 1>> /\ read[s] = n + 1
  BY <1>3 DEF Full
<1>5. Len(<<n, n + 1>>) = 2 /\ <<n, n + 1>>[1] = n /\ <<n, n + 1>>[2] = n + 1
  OBVIOUS
<1>6. \A i \in DOMAIN <<n, n + 1>> : i = 1 \/ i = 2
  OBVIOUS
<1>7. Whole(s, slot[s].units)
  BY <1>2, <1>4, <1>5 DEF Whole
<1>8. \A i \in DOMAIN slot[s].units : sent[s][slot[s].units[i]] \in {"begin", "rest"}
  BY <1>2, <1>4, <1>5, <1>6
<1> QED
  BY <1>2, <1>3, <1>4, <1>7, <1>8

LEMMA NotBegun ==
    ASSUME NEW s, slot[s].stat = "COMPLETE"
    PROVE  ~Quiet(s) /\ ~Half(s)
<1>1. NoMessage.stat # "COMPLETE"
  BY DEF NoMessage
<1> QED
  BY <1>1 DEF Quiet, Half, Opened

\* A request is relayed.
LEMMA RequestTurns ==
    ASSUME AgreeInv, AgreeInv', Turns, handler # "down", handler' = "idle",
           Exchanging, up = "http1", slot["up"].stat = "COMPLETE",
           slot' = [slot EXCEPT !["up"] = NoMessage],
           out' = [out EXCEPT !["down"] = @ \o <<Http1(slot["up"])>>],
           UNCHANGED <<plan, sent, read, readAs, dead, switching, up, down>>
    PROVE  Turns'
<1>0. /\ "up" \in Side /\ "down" \in Side /\ TypeInv /\ TypeInv' /\ plan # "direct"
      /\ Counts /\ UpTurn /\ Unread /\ UpKinds /\ DownKinds /\ Reading /\ Readers /\ CompleteOnly
      /\ slot["up"] \in Message /\ Other("down") = "up"
  BY SideNames, SideTypes DEF AgreeInv, Turns, Exchanging, Other
<1>1. Ended("up") /\ Starts("up") <= Rests("up") /\ Rests("up") > Relays
  <2>1. ~Quiet("up") /\ ~Half("up")
    BY NotBegun
  <2> QED
    BY <1>0, <2>1 DEF UpTurn
<1>2. read["up"] = Len(sent["up"]) /\ Whole("up", slot["up"].units)
  BY <1>0, <1>1, EndedWhole
<1>3. /\ Quiet("down") /\ Of("down", {"101"}) = {} /\ switching = ""
      /\ Starts("down") <= Rests("down")
  BY <1>1, UpWaits
<1>4. slot'["up"] = NoMessage /\ slot'["down"] = slot["down"]
  BY <1>0, SideNames, Slots
<1> DEFINE w == Http1(slot["up"])
<1>5. w \in Written /\ w.kind = "http1" /\ w.of = slot["up"].units
  <2>1. \E q : q \in Seq(Seq(Nat))
    BY <1>0, SideTypes
  <2>2. w \in Written
    BY <1>0, <2>1, WrittenTypes
  <2> QED
    BY <2>2 DEF Http1
<1>6. out' = [out EXCEPT !["down"] = @ \o <<w>>]
  OBVIOUS
<1> HIDE DEF w
<1>7. /\ Cardinality(Messages("down")') = Cardinality(Messages("down")) + 1
      /\ \A t \in Side : t # "down" => Messages(t)' = Messages(t) /\ out'[t] = out[t]
      /\ \A n \in Messages("down")' :
            (n \in Messages("down") /\ out'["down"][n] = out["down"][n]) \/ out'["down"][n] = w
  BY <1>0, <1>5, <1>6, OneMessageMore
<1>8. Relays' = Relays + 1 /\ out'["up"] = out["up"] /\ Messages("up")' = Messages("up")
  BY <1>0, <1>7 DEF Relays
<1>9. Relays < Rests("up")
  BY <1>0, <1>1, Numbers
<1>10. Counts'
  BY <1>0, <1>8, <1>9, CountsKept
<1>11. /\ Starts("up")' = Starts("up") /\ Rests("up")' = Rests("up")
       /\ Starts("down")' = Starts("down") /\ Rests("down")' = Rests("down")
       /\ Of("down", {"101"})' = Of("down", {"101"})
  BY DEF Starts, Rests, Of
<1>12. UpTurn'
  BY <1>1, <1>2, <1>4, <1>11 DEF UpTurn, Quiet
<1>13. DownTurn'
  BY <1>3, <1>4, <1>11 DEF DownTurn, Quiet
<1>14. UpKinds' /\ DownKinds'
  <2>1. Agreed' => Agreed
    BY <1>8 DEF Agreed
  <2> QED
    BY <1>0, <1>11, <2>1 DEF UpKinds, DownKinds
<1>15. Over' /\ Opening' /\ Unread' /\ Reading' /\ Readers'
  BY <1>0 DEF Over, Opening, Unread, ClassOf, Reading, Readers
<1>16. CompleteOnly'
  <2>1. ASSUME NEW t \in Side, NEW n \in Messages(t)'
        PROVE  (n \in Messages(t) /\ out'[t][n] = out[t][n]) \/ Whole(Other(t), out'[t][n].of)
    <3>1. CASE t = "up"
      BY <1>8, <2>1, <3>1
    <3>2. CASE t = "down"
      BY <1>0, <1>2, <1>5, <1>7, <2>1, <3>2
    <3> QED
      BY <3>1, <3>2 DEF Side
  <2> QED
    BY <1>0, <2>1, WholeKept
<1> QED
  BY <1>10, <1>12, <1>13, <1>14, <1>15, <1>16 DEF Turns

LEMMA UpHttpTurns ==
    ASSUME AgreeInv, AgreeInv', Turns, UpHttpDone
    PROVE  Turns'
<1>1. /\ ReadEnds("up") /\ up = "http1" /\ handler' = "idle" /\ FlushRequest(slot["up"])
      /\ UNCHANGED <<plan, sent, read, readAs, dead, switching, up, upgrade, tunnel>>
  BY DEF UpHttpDone, peerVars, inputVars, serverVars
<1>2. /\ TypeInv /\ Opening /\ handler = "up" /\ SessionsOf
      /\ ~(handler = "up" /\ ~stopped /\ read["up"] < Len(sent["up"]))
  BY <1>1, SideTypes, SideNames DEF AgreeInv, Turns, ReadEnds
<1>3. plan # "direct"
  BY <1>1, <1>2 DEF Opening
<1>4. \/ UNCHANGED <<client, down>>
      \/ client = "none" /\ client' = "connecting" /\ down' \in Class
  <2>1. \E asked \in {"none", "http1", "both", "http2", "plane"} : InitClient(asked)
    BY DEF UpHttpDone
  <2>2. PICK asked \in {"none", "http1", "both", "http2", "plane"} : InitClient(asked)
    BY <2>1
  <2> QED
    BY <2>2, InitClientSteps DEF AgreeInv, TypeInv, TypeOK
<1>5. down' = down \/ down' # "http1"
  BY <1>1, <1>2, <1>3, <1>4, PlanClasses DEF SessionsOf
<1>6. CASE UNCHANGED <<out, slot, recvwait>>
  <2>1. /\ \A t \in Side : /\ Messages(t)' = Messages(t)
                           /\ \A n \in DOMAIN out[t] : n \in DOMAIN out'[t] /\ out'[t][n] = out[t][n]
        /\ out'["up"] = out["up"]
    BY <1>6, NoneMore
  <2> QED
    BY <1>1, <1>2, <1>5, <1>6, <2>1, FrameTurns
<1>7. CASE /\ client' = "connected" /\ slot["up"].stat = "COMPLETE"
           /\ slot' = [slot EXCEPT !["up"] = NoMessage]
           /\ out' = [out EXCEPT !["down"] = @ \o <<Http1(slot["up"])>>]
  <2>1. client = "connected" /\ down' = down
    BY <1>4, <1>7
  <2>2. Exchanging
    BY <1>1, <1>2, <1>3, <2>1, PlanClasses DEF SessionsOf, Exchanging
  <2> QED
    BY <1>1, <1>2, <1>7, <2>1, <2>2, RequestTurns
<1> QED
  BY <1>1, <1>6, <1>7, FlushRequestSteps

LEMMA ReadcbTurns ==
    ASSUME AgreeInv, AgreeInv', Turns, readcb
    PROVE  Turns'
<1>0. /\ "up" \in Side /\ "down" \in Side /\ TypeInv /\ TypeInv'
      /\ Counts /\ Unread /\ UpKinds /\ DownKinds /\ Opening /\ Reading /\ Readers /\ CompleteOnly
      /\ SlotRead /\ AppKinds
  BY SideNames DEF AgreeInv, Turns, Positions
<1>1. /\ handler = "idle" /\ signalled["up"] /\ handler' = "up" /\ stopped' = FALSE
      /\ UNCHANGED <<plan, sent, read, readAs, dead, switching, down, tunnel, out>>
  BY DEF readcb, peerVars, inputVars, clientVars
<1>2. read["up"] < Len(sent["up"]) /\ read["up"] \in Nat /\ DOMAIN sent["up"] = 1..Len(sent["up"])
      /\ Len(sent["up"]) \in Nat
  BY <1>0, <1>1, SideTypes DEF AgreeInv, Signals
<1>3. read["up"] + 1 \in DOMAIN sent["up"] /\ NextUnit("up") = sent["up"][read["up"] + 1]
  BY <1>2 DEF NextUnit
<1>4. NextUnit("up") # "preface1"
  BY <1>0, <1>3 DEF UpKinds
<1>5. \/ /\ ~upgrade /\ ~tunnel /\ NextUnit("up") = "preface"
         /\ up' = "http2"
         /\ slot' = [slot EXCEPT !["up"] = IF up = "http2" THEN @ ELSE NoMessage]
      \/ /\ upgrade \/ tunnel \/ NextUnit("up") # "preface"
         /\ UNCHANGED <<upgrade, up, slot>>
  <2>1. ~(NextUnit("up") = "preface1" /\ Len(sent["up"]) = read["up"] + 1)
    BY <1>4
  <2>2. \E match \in {NextUnit("up") \in {"preface", "preface1"}} :
          IF ~upgrade /\ ~tunnel /\ match
          THEN /\ upgrade' = TRUE /\ up' = "http2"
               /\ slot' = [slot EXCEPT !["up"] = IF up = "http2" THEN @ ELSE NoMessage]
          ELSE UNCHANGED <<upgrade, up, slot>>
    BY <2>1, Zenon DEF readcb
  <2>3. IF ~upgrade /\ ~tunnel /\ NextUnit("up") \in {"preface", "preface1"}
        THEN /\ upgrade' = TRUE /\ up' = "http2"
             /\ slot' = [slot EXCEPT !["up"] = IF up = "http2" THEN @ ELSE NoMessage]
        ELSE UNCHANGED <<upgrade, up, slot>>
    BY <2>2, Zenon
  <2>4. CASE ~upgrade /\ ~tunnel /\ NextUnit("up") \in {"preface", "preface1"}
    BY <1>4, <2>3, <2>4
  <2>5. CASE ~(~upgrade /\ ~tunnel /\ NextUnit("up") \in {"preface", "preface1"})
    <3>1. upgrade \/ tunnel \/ NextUnit("up") # "preface"
      BY <2>5, Zenon
    <3> QED
      BY <2>3, <2>5, <3>1
  <2> QED
    BY <2>4, <2>5
<1>6. /\ \A t \in Side : /\ Messages(t)' = Messages(t)
                         /\ \A n \in DOMAIN out[t] : n \in DOMAIN out'[t] /\ out'[t][n] = out[t][n]
      /\ out'["up"] = out["up"]
  BY <1>1, NoneMore
<1>7. up = "http1" => slot["up"] = NoMessage \/ plan # "direct"
  <2> SUFFICES ASSUME up = "http1", plan = "direct", slot["up"] # NoMessage PROVE FALSE
    OBVIOUS
  <2>1. read["up"] = 0
    BY <1>0 DEF Opening
  <2>2. slot["up"].units \in Seq(Nat) /\ slot["up"].units # <<>> /\ Within(slot["up"].units, 0)
    BY <1>0, <2>1, SideTypes DEF SlotRead
  <2>3. 1 \in DOMAIN slot["up"].units
    BY <2>2
  <2> QED
    BY <2>2, <2>3 DEF Within
<1>8. slot \in [Side -> Message]
  BY <1>0 DEF TypeInv, TypeOK
<1>9. CASE UNCHANGED <<up, slot>> /\ (up = "http1" => UNCHANGED upgrade /\ plan # "direct")
  BY <1>1, <1>6, <1>9, FrameTurns
<1>10. CASE /\ ~upgrade /\ ~tunnel /\ NextUnit("up") = "preface" /\ up' = "http2"
            /\ slot' = [slot EXCEPT !["up"] = IF up = "http2" THEN @ ELSE NoMessage]
  <2>1. plan = "direct" \/ (plan = "h2c" /\ up = "http2")
    BY <1>0, <1>3, <1>10 DEF AppKinds
  <2>2. CASE up = "http2"
    <3>1. slot' = slot
      BY <1>0, <1>8, <1>10, <2>2
    <3> QED
      BY <1>9, <1>10, <2>2, <3>1
  <2>3. CASE up # "http2"
    <3>1. plan = "direct" /\ up = "http1"
      BY <1>0, <2>1, <2>3, PlanClasses DEF Opening, Class
    <3>2. slot' = slot
      BY <1>0, <1>7, <1>8, <1>10, <3>1
    <3>3. Counts' /\ CompleteOnly'
      <4>1. \A s \in Side : \A n \in Messages(s)' : n \in Messages(s) /\ out'[s][n] = out[s][n]
        BY <1>6 DEF Messages
      <4>2. Relays' = Relays
        BY <1>6, <1>0 DEF Relays
      <4> QED
        BY <1>0, <1>1, <4>1, <4>2, CountsKept, WholeKept
    <3>4. UpTurn' /\ DownTurn' /\ Over' /\ Reading' /\ Readers'
      BY <1>0, <1>1, <3>1 DEF UpTurn, DownTurn, Exchanging, Over, Reading, Readers
    <3>5. UpKinds' /\ DownKinds'
      BY <1>0, <1>1, <1>10, <3>1 DEF UpKinds, DownKinds, Of
    <3>6. Unread'
      <4>1. \A n \in DOMAIN sent["up"] : ClassFor(sent["up"][n]) = "http2"
        BY <1>0, <3>1 DEF UpKinds, ClassFor
      <4>2. \A n \in read["up"] + 1..Len(sent["up"]) : n \in DOMAIN sent["up"]
        BY <1>2
      <4>3. down # "http1" => \A n \in read["down"] + 1..Len(sent["down"]) : ClassFor(sent["down"][n]) = down
        BY <1>0 DEF Unread, ClassOf
      <4> QED
        BY <1>1, <1>10, <4>1, <4>2, <4>3 DEF Unread, ClassOf, Side
    <3>7. Opening'
      <4>1. Relays' = Relays
        BY <1>6, <1>0 DEF Relays
      <4> QED
        BY <1>0, <1>1, <1>10, <3>1, <4>1 DEF Opening
    <3> QED
      BY <3>3, <3>4, <3>5, <3>6, <3>7 DEF Turns
  <2> QED
    BY <2>2, <2>3
<1>11. CASE /\ upgrade \/ tunnel \/ NextUnit("up") # "preface"
            /\ UNCHANGED <<upgrade, up, slot>>
  <2>1. ~(plan = "direct" /\ up = "http1")
    <3> SUFFICES ASSUME plan = "direct", up = "http1" PROVE FALSE
      OBVIOUS
    <3>1. sent["up"] # <<>>
      BY <1>3, NothingIn
    <3> QED
      BY <1>0, <1>3, <1>11, <3>1 DEF Opening
  <2> QED
    BY <1>9, <1>11, <2>1
<1> QED
  BY <1>5, <1>10, <1>11

\* The proxy's own answers are no messages of HTTP/1.
LEMMA AnswerMore ==
    ASSUME AgreeInv, NEW k \in {"101", "200", "goaway"}, write("up", <<Own(k)>>), UNCHANGED sent
    PROVE  /\ \A t \in Side : /\ Messages(t)' = Messages(t)
                              /\ \A n \in DOMAIN out[t] : n \in DOMAIN out'[t] /\ out'[t][n] = out[t][n]
           /\ \E w \in Range(out'["up"]) : w.kind = k
<1> DEFINE us == <<Own(k)>>
<1>1. us \in Seq(Written) /\ \A i \in DOMAIN us : us[i].kind # "http1"
  BY OwnWritten
<1>2. Len(us) = 1 /\ us[1] = Own(k) /\ Own(k).kind = k
  BY DEF Own
<1>3. out' = [out EXCEPT !["up"] = @ \o us]
  BY DEF write
<1> HIDE DEF us
<1>4. \A t \in Side : /\ Messages(t)' = Messages(t)
                      /\ \A n \in DOMAIN out[t] : n \in DOMAIN out'[t] /\ out'[t][n] = out[t][n]
  BY <1>1, <1>3, SideNames, OtherUnits
<1>5. out["up"] \in Seq(Written) /\ out \in [Side -> Seq(Written)]
  BY SideNames, SideTypes DEF AgreeInv, TypeInv, TypeOK
<1>6. out'["up"] = out["up"] \o us
  BY <1>3, <1>5, SideNames
<1>7. Len(out["up"]) + 1 \in DOMAIN out'["up"] /\ out'["up"][Len(out["up"]) + 1] = Own(k)
  <2> DEFINE q == out["up"]
  <2>1. q \in Seq(Written) /\ out'["up"] = q \o us
    BY <1>5, <1>6
  <2> HIDE DEF q
  <2>2. /\ Len(q) \in Nat /\ DOMAIN (q \o us) = 1..(Len(q) + Len(us))
        /\ \A i \in 1..(Len(q) + Len(us)) : (q \o us)[i] = IF i <= Len(q) THEN q[i] ELSE us[i - Len(q)]
    BY <1>1, <2>1, ConcatProperties
  <2>3. Len(q) + 1 \in 1..(Len(q) + Len(us)) /\ ~(Len(q) + 1 <= Len(q)) /\ (Len(q) + 1) - Len(q) = 1
    BY <1>2, <2>2
  <2>4. Len(q) + 1 \in DOMAIN out'["up"] /\ out'["up"][Len(q) + 1] = Own(k)
    BY <1>2, <2>1, <2>2, <2>3
  <2> QED
    BY <2>4 DEF q
<1> QED
  BY <1>2, <1>4, <1>7 DEF Range

\* Both sides change their protocol, and nothing of HTTP/1 is left.
LEMMA SwitchTurns ==
    ASSUME AgreeInv, AgreeInv', Turns, plan # "direct", handler' = "idle",
           UNCHANGED <<plan, sent, read, readAs, dead>>,
           up' # "http1", down' # "http1", switching' = "", Agreed',
           \A s \in Side : slot'[s] = NoMessage,
           \A n \in DOMAIN out["up"] : n \in DOMAIN out'["up"] /\ out'["up"][n] = out["up"][n],
           Relays' = Relays, Starts("up") <= Rests("up"), Starts("down") <= Rests("down"),
           Relays <= Answers,
           \A n \in read["up"] + 1..Len(sent["up"]) : ClassFor(sent["up"][n]) = up',
           \A n \in read["down"] + 1..Len(sent["down"]) : ClassFor(sent["down"][n]) = down',
           up = "http1", plan = "h2c" => up' = "http2", plan # "h2c" => up' = "plane",
           plan = "h2c" => down' = "http2" \/ Of("down", {"101"}) # {},
           CompleteOnly'
    PROVE  Turns'
<1>0. /\ Counts /\ UpKinds /\ DownKinds /\ Reading /\ Readers /\ TypeInv'
  BY DEF Turns, AgreeInv
<1>1. Counts'
  BY <1>0, CountsKept
<1>2. /\ Starts("up")' = Starts("up") /\ Rests("up")' = Rests("up")
      /\ Starts("down")' = Starts("down") /\ Rests("down")' = Rests("down") /\ Answers' = Answers
      /\ Of("down", {"101"})' = Of("down", {"101"})
  BY <1>0, ToldGrows
<1>3. UpTurn' /\ DownTurn'
  BY DEF UpTurn, DownTurn
<1>4. Over'
  BY <1>2 DEF Over
<1>5. Unread'
  BY DEF Unread, ClassOf, Side
<1>6. UpKinds' /\ DownKinds'
  BY <1>0, <1>2 DEF UpKinds, DownKinds
<1>7. Opening' /\ Reading' /\ Readers'
  BY <1>0 DEF Opening, Reading, Readers
<1> QED
  BY <1>1, <1>3, <1>4, <1>5, <1>6, <1>7 DEF Turns

LEMMA ConnectedH2Turns ==
    ASSUME AgreeInv, AgreeInv', OrderInv, Turns, ConnectedH2
    PROVE  Turns'
<1>0. /\ handler = "idle" /\ client = "connecting" /\ down' = "http2" /\ handler' = "idle"
      /\ UNCHANGED <<plan, sent, read, readAs, dead, upgrade, tunnel, switching>>
      /\ slot["down"] = NoMessage
  BY ConnectedH2Steps DEF Connecting, peerVars, inputVars, OrderInv, NothingWaits
<1>1. /\ "up" \in Side /\ "down" \in Side /\ TypeInv /\ Counts /\ UpTurn /\ CompleteOnly
      /\ NoMessage \in Message
  BY SideNames DEF AgreeInv, Turns
<1>2. CASE /\ up = "http1" /\ slot["up"].h2 /\ up' = "http2"
           /\ slot' = [slot EXCEPT !["up"] = NoMessage]
           /\ write("up", <<Own("101")>>)
  <2>1. plan = "h2c" /\ Exchanging
    BY <1>1, <1>2 DEF AgreeInv, SlotKinds, Exchanging
  <2>2. ~NoMessage.h2
    BY DEF NoMessage
  <2>3. Ended("up") /\ Starts("up") <= Rests("up") /\ Rests("up") > Relays
    <3>1. ~Quiet("up") /\ ~Half("up")
      BY <1>2, <2>2 DEF Quiet, Half, Opened
    <3> QED
      BY <1>1, <1>2, <2>1, <3>1 DEF UpTurn
  <2>4. slot["up"].stat = "COMPLETE"
    BY <1>2, <2>2, <2>3 DEF Ended, Opened, Full
  <2>5. read["up"] = Len(sent["up"])
    BY <1>1, <2>3, <2>4, EndedWhole
  <2>6. /\ Quiet("down") /\ switching = "" /\ Starts("down") <= Rests("down") /\ Relays <= Answers
    BY <1>0, <1>2, <2>1, <2>3, UpWaits
  <2>7. /\ \A t \in Side : /\ Messages(t)' = Messages(t)
                           /\ \A n \in DOMAIN out[t] : n \in DOMAIN out'[t] /\ out'[t][n] = out[t][n]
        /\ \E w \in Range(out'["up"]) : w.kind = "101"
    BY <1>0, <1>2, AnswerMore
  <2>8. Agreed'
    BY <2>7 DEF Agreed
  <2>9. \A s \in Side : slot'[s] = NoMessage
    BY <1>0, <1>1, <1>2, Slots DEF Side
  <2>10. Relays' = Relays
    BY <1>1, <2>7 DEF Relays
  <2>11. CompleteOnly'
    <3>1. \A s \in Side : \A n \in Messages(s)' : n \in Messages(s) /\ out'[s][n] = out[s][n]
      BY <2>7 DEF Messages
    <3> QED
      BY <1>0, <1>1, <3>1, WholeKept
  <2>12. /\ read["up"] + 1..Len(sent["up"]) = {} /\ read["down"] + 1..Len(sent["down"]) = {}
    <3>1. read["up"] = Len(sent["up"]) /\ read["down"] = Len(sent["down"])
      BY <2>5, <2>6 DEF Quiet
    <3>2. Len(sent["up"]) \in Nat /\ Len(sent["down"]) \in Nat
      BY <1>1, SideTypes
    <3> QED
      BY <3>1, <3>2
  <2>13. \A n \in DOMAIN out["up"] : n \in DOMAIN out'["up"] /\ out'["up"][n] = out["up"][n]
    BY <1>1, <2>7
  <2>14. /\ \A n \in read["up"] + 1..Len(sent["up"]) : ClassFor(sent["up"][n]) = up'
         /\ \A n \in read["down"] + 1..Len(sent["down"]) : ClassFor(sent["down"][n]) = down'
    BY <2>12
  <2> QED
    BY <1>0, <1>2, <2>1, <2>3, <2>6, <2>8, <2>9, <2>10, <2>11, <2>13, <2>14, SwitchTurns
<1>3. CASE UNCHANGED <<up, slot>> /\ (UNCHANGED out \/ (up = "http2" /\ FlushQueue("up")))
  <2>1. /\ \A t \in Side : /\ Messages(t)' = Messages(t)
                           /\ \A n \in DOMAIN out[t] : n \in DOMAIN out'[t] /\ out'[t][n] = out[t][n]
        /\ out'["up"] = out["up"]
    BY <1>0, <1>1, <1>3, NoneMore, FlushQueueMore
  <2> QED
    BY <1>0, <1>3, <2>1, FrameTurns
<1> QED
  BY <1>2, <1>3, ConnectedH2Steps

LEMMA RefusedTurns ==
    ASSUME AgreeInv, AgreeInv', Turns, Refused
    PROVE  Turns'
<1>1. /\ handler = "idle" /\ client = "connecting" /\ protocol = "http2" /\ handler' = "idle"
      /\ write("up", <<Own("goaway")>>)
      /\ UNCHANGED <<plan, sent, slot, read, readAs, dead, switching, up, upgrade, tunnel, down>>
  BY DEF Refused, Connecting, peerVars, inputVars, serverVars
<1>2. plan \notin {"other", "connect"}
  BY <1>1, PlanClasses DEF AgreeInv, SessionsOf
<1>3. \A t \in Side : /\ Messages(t)' = Messages(t)
                      /\ \A n \in DOMAIN out[t] : n \in DOMAIN out'[t] /\ out'[t][n] = out[t][n]
  BY <1>1, AnswerMore
<1> QED
  BY <1>1, <1>2, <1>3, FrameTurns

LEMMA ConnectedTurns ==
    ASSUME AgreeInv, AgreeInv', OrderInv, Turns, Connected
    PROVE  Turns'
<1>1. /\ "up" \in Side /\ "down" \in Side /\ TypeInv /\ Counts /\ UpTurn /\ Unread /\ CompleteOnly
      /\ NoMessage \in Message /\ SessionsOf /\ ConnectKinds /\ SlotKinds
  BY SideNames DEF AgreeInv, Turns
<1>0. /\ handler = "idle" /\ client = "connecting" /\ client' = "connected" /\ handler' = "idle"
      /\ UNCHANGED <<plan, sent, read, readAs, dead, upgrade, switching, down>>
      /\ slot["down"] = NoMessage
  BY <1>1, ConnectedSteps DEF Connecting, peerVars, inputVars, OrderInv, NothingWaits
<1>2. CASE /\ up = "http1" /\ slot["up"].connect /\ up' = "plane"
           /\ slot' = [slot EXCEPT !["up"] = NoMessage]
           /\ write("up", <<Own("200")>>)
  <2>1. plan = "connect"
    BY <1>1, <1>2 DEF SlotKinds
  <2>2. ~NoMessage.connect
    BY DEF NoMessage
  <2>3. Ended("up") /\ Starts("up") <= Rests("up")
    <3>1. ~Quiet("up")
      BY <1>2, <2>2 DEF Quiet
    <3> QED
      BY <1>1, <1>2, <2>1, <3>1 DEF UpTurn
  <2>4. slot["up"].stat = "COMPLETE"
    BY <1>0, <1>2, <2>1, <2>2, <2>3 DEF Ended, Full
  <2>5. read["up"] = Len(sent["up"]) /\ Len(sent["up"]) \in Nat
    BY <1>1, <2>3, <2>4, EndedWhole, SideTypes
  <2>6. down = "plane"
    BY <1>0, <1>1, <2>1 DEF SessionsOf
  <2>7. Messages("down") = {} /\ Starts("down") = 0
    <3>1. Of("down", {"begin"}) = {}
      BY <1>1, <2>1 DEF ConnectKinds, Of
    <3>2. Messages("down") = {}
      BY <1>1, <2>1 DEF ConnectKinds, Messages
    <3> QED
      BY <3>1, <3>2, FS_EmptySet DEF Starts
  <2>8. Relays = 0 /\ Relays <= Answers /\ Starts("down") <= Rests("down")
    <3>1. Answers \in Nat /\ Rests("down") \in Nat
      BY <1>1, Numbers
    <3>2. Relays = 0
      BY <2>7, FS_EmptySet DEF Relays
    <3> QED
      BY <2>7, <3>1, <3>2
  <2>9. switching = ""
    BY <1>1, <2>1 DEF SlotKinds, TypeInv, TypeOK
  <2>10. /\ \A t \in Side : /\ Messages(t)' = Messages(t)
                            /\ \A n \in DOMAIN out[t] : n \in DOMAIN out'[t] /\ out'[t][n] = out[t][n]
         /\ \E w \in Range(out'["up"]) : w.kind = "200"
    BY <1>0, <1>2, AnswerMore
  <2>11. Agreed'
    BY <2>10 DEF Agreed
  <2>12. \A s \in Side : slot'[s] = NoMessage
    BY <1>0, <1>1, <1>2, Slots DEF Side
  <2>13. Relays' = Relays
    BY <1>1, <2>10 DEF Relays
  <2>14. CompleteOnly'
    <3>1. \A s \in Side : \A n \in Messages(s)' : n \in Messages(s) /\ out'[s][n] = out[s][n]
      BY <2>10 DEF Messages
    <3> QED
      BY <1>0, <1>1, <3>1, WholeKept
  <2>15. \A n \in read["up"] + 1..Len(sent["up"]) : ClassFor(sent["up"][n]) = up'
    <3>1. read["up"] + 1..Len(sent["up"]) = {}
      BY <2>5
    <3> QED
      BY <3>1
  <2>16. \A n \in read["down"] + 1..Len(sent["down"]) : ClassFor(sent["down"][n]) = down'
    BY <1>0, <1>1, <2>6 DEF Unread, ClassOf
  <2>17. \A n \in DOMAIN out["up"] : n \in DOMAIN out'["up"] /\ out'["up"][n] = out["up"][n]
    BY <1>1, <2>10
  <2> QED
    BY <1>0, <1>2, <2>1, <2>3, <2>6, <2>8, <2>9, <2>11, <2>12, <2>13, <2>14, <2>15, <2>16, <2>17,
       SwitchTurns
<1>3. CASE /\ UNCHANGED <<up, tunnel, slot>>
           /\ UNCHANGED out \/ (up = "http2" /\ FlushQueue("up"))
  <2>1. /\ \A t \in Side : /\ Messages(t)' = Messages(t)
                           /\ \A n \in DOMAIN out[t] : n \in DOMAIN out'[t] /\ out'[t][n] = out[t][n]
        /\ out'["up"] = out["up"]
    BY <1>0, <1>1, <1>3, NoneMore, FlushQueueMore
  <2> QED
    BY <1>0, <1>3, <2>1, FrameTurns
<1>4. CASE /\ up = "http1" /\ ~slot["up"].connect /\ UNCHANGED <<up, tunnel>>
           /\ client' = "connected" /\ slot["up"].stat = "COMPLETE"
           /\ slot' = [slot EXCEPT !["up"] = NoMessage]
           /\ out' = [out EXCEPT !["down"] = @ \o <<Http1(slot["up"])>>]
  <2>1. Exchanging
    BY <1>0, <1>1, <1>4, PlanClasses DEF SessionsOf, Exchanging
  <2> QED
    BY <1>0, <1>4, <2>1, RequestTurns
<1> QED
  BY <1>1, <1>2, <1>3, <1>4, ConnectedSteps, FlushRequestSteps

\* What the provers see at once, but not among the hypotheses below.
LEMMA OneUnit == \A n : Len(<<n>>) = 1 /\ <<n>>[1] = n /\ 1 \in DOMAIN <<n>>
OBVIOUS

LEMMA NoneLeft == \A n \in Nat : n + 1..n = {}
OBVIOUS

LEMMA Chain ==
    \A b, r, t, d, a, m \in Nat :
       r <= b /\ b <= t + 1 /\ t <= d /\ d + 1 <= a /\ a <= m /\ m <= r =>
          b <= r /\ ~(b > r) /\ ~(r > m)
OBVIOUS

\* A response is relayed: the answer to the one request under way.
LEMMA ResponseTurns ==
    ASSUME AgreeInv, AgreeInv', Turns, Exchanging, handler = "down", handler' = "idle",
           up = "http1", down = "http1", switching = "", slot["down"].stat = "COMPLETE",
           slot' = [slot EXCEPT !["down"] = NoMessage],
           out' = [out EXCEPT !["up"] = @ \o <<Http1(slot["down"])>>],
           UNCHANGED <<plan, sent, read, readAs, dead, switching, up, down>>
    PROVE  Turns'
<1>0. /\ "up" \in Side /\ "down" \in Side /\ TypeInv /\ TypeInv' /\ plan # "direct"
      /\ Counts /\ UpTurn /\ DownTurn /\ UpKinds /\ DownKinds /\ Reading /\ Readers /\ CompleteOnly
      /\ slot["down"] \in Message /\ Other("up") = "down" /\ NoMessage \in Message
      /\ out["up"] \in Seq(Written)
  BY SideNames, SideTypes DEF AgreeInv, Turns, Exchanging, Other
<1>1. Ended("down") /\ Starts("down") <= Rests("down")
  <2>1. ~Quiet("down") /\ ~Half("down")
    BY NotBegun
  <2>2. ~Leaving
    <3>1. NoMessage.stat # "COMPLETE"
      BY DEF NoMessage
    <3> QED
      BY <3>1 DEF Leaving
  <2> QED
    BY <1>0, <2>1, <2>2 DEF DownTurn
<1>2. /\ read["down"] = Len(sent["down"]) /\ Whole("down", slot["down"].units)
      /\ \A i \in DOMAIN slot["down"].units : sent["down"][slot["down"].units[i]] # "101"
  BY <1>0, <1>1, EndedWhole
<1>3. Of("down", {"101"}) = {}
  <2>1. ~Leaving
    <3>1. NoMessage.stat # "COMPLETE"
      BY DEF NoMessage
    <3> QED
      BY <3>1 DEF Leaving
  <2> QED
    BY <1>0, <2>1 DEF DownTurn
<1>4. slot'["down"] = NoMessage /\ slot'["up"] = slot["up"]
  BY <1>0, Slots
<1> DEFINE w == Http1(slot["down"])
<1>5. w \in Written /\ w.kind = "http1" /\ w.of = slot["down"].units
  <2>1. \E q : q \in Seq(Seq(Nat))
    BY <1>0, SideTypes
  <2>2. w \in Written
    BY <1>0, <2>1, WrittenTypes
  <2> QED
    BY <2>2 DEF Http1
<1>6. out' = [out EXCEPT !["up"] = @ \o <<w>>]
  OBVIOUS
<1> HIDE DEF w
<1>7. /\ \A t \in Side : t # "up" => Messages(t)' = Messages(t) /\ out'[t] = out[t]
      /\ \A n \in Messages("up")' :
            (n \in Messages("up") /\ out'["up"][n] = out["up"][n]) \/ out'["up"][n] = w
      /\ \A n \in DOMAIN out["up"] : n \in DOMAIN out'["up"] /\ out'["up"][n] = out["up"][n]
  BY <1>0, <1>5, <1>6, OneMessageMore
<1>8. Relays' = Relays /\ Messages("down")' = Messages("down") /\ out'["down"] = out["down"]
  BY <1>0, <1>7 DEF Relays
<1>9. Counts'
  BY <1>0, <1>7, <1>8, CountsKept
<1>10. /\ Starts("up")' = Starts("up") /\ Rests("up")' = Rests("up")
       /\ Starts("down")' = Starts("down") /\ Rests("down")' = Rests("down")
       /\ Of("down", {"101"})' = Of("down", {"101"})
  BY DEF Starts, Rests, Of
<1>11. UpTurn'
  BY <1>0, <1>4, <1>8, UpTurnKept
<1>12. DownTurn'
  BY <1>1, <1>2, <1>3, <1>4, <1>10 DEF DownTurn, Quiet
<1>13. UpKinds' /\ DownKinds'
  <2>1. out'["up"] = Append(out["up"], w)
    <3>1. Append(out["up"], w) = out["up"] \o <<w>>
      BY <1>0, <1>5, AppendIsConcat
    <3>2. out \in [Side -> Seq(Written)]
      BY <1>0 DEF TypeInv, TypeOK
    <3> QED
      BY <1>0, <1>6, <3>1, <3>2
  <2>2. \A i \in DOMAIN w.of : sent["down"][w.of[i]] # "101"
    BY <1>2, <1>5
  <2>3. w.kind \notin {"101", "200"}
    BY <1>5
  <2>4. Agreed' => Agreed
    BY <1>5, <2>1, <2>2, <2>3, AgreedOne
  <2> QED
    BY <1>0, <1>10, <2>4 DEF UpKinds, DownKinds
<1>14. Over' /\ Opening' /\ Unread' /\ Reading' /\ Readers'
  BY <1>0 DEF Over, Opening, Unread, ClassOf, Reading, Readers
<1>15. CompleteOnly'
  <2>1. ASSUME NEW t \in Side, NEW n \in Messages(t)'
        PROVE  (n \in Messages(t) /\ out'[t][n] = out[t][n]) \/ Whole(Other(t), out'[t][n].of)
    <3>1. CASE t = "down"
      BY <1>8, <2>1, <3>1
    <3>2. CASE t = "up"
      BY <1>0, <1>2, <1>5, <1>7, <2>1, <3>2, ZenonT(60)
    <3> QED
      BY <3>1, <3>2 DEF Side
  <2> QED
    BY <1>0, <2>1, WholeKept
<1> QED
  BY <1>9, <1>11, <1>12, <1>13, <1>14, <1>15 DEF Turns

\* When the protocol is about to change, the application waits.
LEMMA SwitchQuiet ==
    ASSUME AgreeInv, Turns, Exchanging, up = "http1", down = "http1", switching # ""
    PROVE  Quiet("up") /\ Starts("up") <= Rests("up") /\ slot["down"].stat = "COMPLETE"
<1>0. TypeInv /\ Counts /\ UpTurn /\ DownTurn /\ plan # "direct"
  BY DEF AgreeInv, Turns, Exchanging
<1>1. Leaving
  BY <1>0 DEF DownTurn
<1>2. PICK n \in DOMAIN sent["down"] : sent["down"][n] = "101" /\ slot["down"].stat = "COMPLETE"
  BY <1>1 DEF Leaving
<1>3. n \in Of("down", {"101"})
  BY <1>2 DEF Of
<1>4. /\ \A s \in Side : Starts(s) \in Nat /\ Rests(s) \in Nat
      /\ Relays \in Nat /\ Answers \in Nat /\ Told \in Nat
      /\ Told <= Rests("down") /\ Rests("down") <= Answers
      /\ Of("down", {"101"}) # {} => Rests("down") + 1 <= Answers
  BY <1>0, Numbers
<1>5. /\ Told <= Rests("down") /\ Rests("down") + 1 <= Answers
      /\ Told \in Nat /\ Answers \in Nat /\ Relays \in Nat
  BY <1>3, <1>4
<1>6. /\ Starts("up") \in Nat /\ Rests("up") \in Nat /\ Rests("down") \in Nat
  BY <1>4, SideNames
<1>7. /\ Rests("up") <= Starts("up") /\ Starts("up") <= Told + 1
      /\ Answers <= Relays /\ Relays <= Rests("up")
  BY <1>0 DEF Counts
<1>8. Starts("up") <= Rests("up") /\ ~(Starts("up") > Rests("up")) /\ ~(Rests("up") > Relays)
  BY <1>5, <1>6, <1>7, Chain
<1> QED
  BY <1>0, <1>2, <1>8 DEF UpTurn

\* A 101 is relayed, and both sessions change: the request it answers was the
\* only one, and what the origin has written since is of the new protocol.
LEMMA SwitchingTurns ==
    ASSUME AgreeInv, AgreeInv', Turns, Exchanging, handler = "down", handler' = "idle",
           up = "http1", down = "http1", switching # "", slot["down"] # NoMessage,
           SwitchSessions, out' = [out EXCEPT !["up"] = @ \o <<Http1(slot["down"])>>],
           UNCHANGED <<plan, sent, read, readAs, dead>>
    PROVE  Turns'
<1>0. /\ "up" \in Side /\ "down" \in Side /\ TypeInv /\ TypeInv' /\ plan # "direct"
      /\ Counts /\ UpTurn /\ DownTurn /\ CompleteOnly
      /\ slot["down"] \in Message /\ Other("up") = "down"
  BY SideNames, SideTypes DEF AgreeInv, Turns, Exchanging, Other
<1>1. Leaving /\ Starts("down") <= Rests("down") /\ Relays <= Answers
  BY <1>0 DEF DownTurn
<1>2. PICK n \in DOMAIN sent["down"] :
         /\ sent["down"][n] = "101" /\ slot["down"].units = <<n>> /\ read["down"] = n
         /\ \A k \in n + 1..Len(sent["down"]) : sent["down"][k] \in NewKinds
  BY <1>1 DEF Leaving
<1>3. /\ switching = plan /\ plan \in {"h2c", "other"}
      /\ up' = SwitchedClass /\ down' = SwitchedClass /\ switching' = ""
      /\ \A s \in Side : slot'[s] = NoMessage
  BY <1>0 DEF AgreeInv, SlotKinds, TypeInv, TypeOK, SwitchSessions
<1>4. SwitchedClass = IF plan = "h2c" THEN "http2" ELSE "plane"
  BY <1>3 DEF SwitchedClass
<1>5. Starts("up") <= Rests("up") /\ Quiet("up")
  BY SwitchQuiet
<1> DEFINE w == Http1(slot["down"])
<1>6. w \in Written /\ w.kind = "http1" /\ w.of = slot["down"].units
  <2>1. \E q : q \in Seq(Seq(Nat))
    BY <1>0, SideTypes
  <2>2. w \in Written
    BY <1>0, <2>1, WrittenTypes
  <2> QED
    BY <2>2 DEF Http1
<1>7. out' = [out EXCEPT !["up"] = @ \o <<w>>]
  OBVIOUS
<1> HIDE DEF w
<1>8. /\ \A t \in Side : t # "up" => Messages(t)' = Messages(t) /\ out'[t] = out[t]
      /\ \A k \in Messages("up")' :
            (k \in Messages("up") /\ out'["up"][k] = out["up"][k]) \/ out'["up"][k] = w
      /\ \E k \in DOMAIN out'["up"] : out'["up"][k] = w
      /\ \A k \in DOMAIN out["up"] : k \in DOMAIN out'["up"] /\ out'["up"][k] = out["up"][k]
  BY <1>0, <1>6, <1>7, OneMessageMore, ZenonT(60)
<1>9. Relays' = Relays /\ Messages("down")' = Messages("down") /\ out'["down"] = out["down"]
  BY <1>0, <1>8 DEF Relays
<1>10. Len(<<n>>) = 1 /\ <<n>>[1] = n /\ 1 \in DOMAIN <<n>>
  BY OneUnit
<1>11. Agreed'
  <2>1. n \in Range(w.of)
    BY <1>2, <1>6, <1>10 DEF Range
  <2>2. w \in Range(out'["up"])
    BY <1>8 DEF Range
  <2>3. sent'["down"][n] = "101"
    BY <1>2
  <2> QED
    BY <2>1, <2>2, <2>3 DEF Agreed
<1>12. CompleteOnly'
  <2>1. Whole("down", w.of)
    BY <1>2, <1>6, <1>10 DEF Whole
  <2>2. ASSUME NEW t \in Side, NEW k \in Messages(t)'
        PROVE  (k \in Messages(t) /\ out'[t][k] = out[t][k]) \/ Whole(Other(t), out'[t][k].of)
    <3>1. CASE t = "down"
      BY <1>9, <2>2, <3>1
    <3>2. CASE t = "up"
      BY <1>0, <1>8, <2>1, <2>2, <3>2
    <3> QED
      BY <3>1, <3>2 DEF Side
  <2> QED
    BY <1>0, <2>2, WholeKept
<1>13. \A k \in read["up"] + 1..Len(sent["up"]) : ClassFor(sent["up"][k]) = up'
  <2>0. Len(sent["up"]) \in Nat
    BY <1>0, SideTypes
  <2>1. read["up"] = Len(sent["up"]) /\ Len(sent["up"]) \in Nat
    BY <1>5, <2>0 DEF Quiet
  <2>2. read["up"] + 1..Len(sent["up"]) = {}
    BY <2>1, NoneLeft
  <2> QED
    BY <2>2
<1>14. \A k \in read["down"] + 1..Len(sent["down"]) : ClassFor(sent["down"][k]) = down'
  BY <1>2, <1>3, <1>4 DEF NewKinds, ClassFor
<1>15. /\ up' # "http1" /\ down' # "http1"
       /\ plan = "h2c" => up' = "http2" /\ down' = "http2"
       /\ plan # "h2c" => up' = "plane"
  BY <1>3, <1>4
<1> QED
  BY <1>0, <1>1, <1>3, <1>5, <1>8, <1>9, <1>11, <1>12, <1>13, <1>14, <1>15, SwitchTurns

LEMMA DownHttpTurns ==
    ASSUME AgreeInv, AgreeInv', Turns, DownHttpDone
    PROVE  Turns'
<1>0. /\ "up" \in Side /\ "down" \in Side /\ TypeInv /\ DownTurn /\ Reading
      /\ slot["down"] \in Message /\ SessionsOf /\ out["up"] \in Seq(Written)
  BY SideNames, SideTypes DEF AgreeInv, Turns
<1>1. /\ ReadEnds("down") /\ handler = "down" /\ down = "http1"
      /\ UNCHANGED <<plan, sent, read, readAs, dead, upgrade, tunnel>>
  BY <1>0, DownHttpSteps DEF ReadEnds, peerVars, inputVars
<1>2. Exchanging /\ up = "http1"
  <2>1. client = "connected"
    BY <1>0, <1>1 DEF SessionsOf
  <2> QED
    BY <1>0, <1>1, <2>1, PlanClasses DEF SessionsOf, Exchanging
<1>3. slot["down"] # NoMessage
  <2>1. stopped \/ ~(read["down"] < Len(sent["down"]))
    BY <1>0, <1>1, SideTypes DEF ReadEnds
  <2> QED
    BY <1>0, <1>1, <2>1 DEF Reading
<1>4. CASE slot["down"].stat # "COMPLETE" /\ UNCHANGED out /\ handler' = "idle"
  <2>1. switching = ""
    BY <1>0, <1>1, <1>2, <1>3, <1>4 DEF DownTurn, Leaving
  <2>2. UNCHANGED <<slot, up, down, switching>>
    BY <1>0, <1>3, <1>4, <2>1, DownHttpSteps
  <2>3. \A t \in Side : /\ Messages(t)' = Messages(t)
                        /\ \A n \in DOMAIN out[t] : n \in DOMAIN out'[t] /\ out'[t][n] = out[t][n]
    BY <1>4, NoneMore
  <2> QED
    BY <1>1, <1>4, <2>2, <2>3, FrameTurns
<1>5. CASE /\ slot["down"].stat = "COMPLETE" /\ handler' = "idle"
           /\ out' = [out EXCEPT !["up"] = Append(@, Http1(slot["down"]))]
  <2>1. out' = [out EXCEPT !["up"] = @ \o <<Http1(slot["down"])>>]
    <3>1. Http1(slot["down"]) \in Written
      BY <1>0 DEF Http1, Message, Written
    <3>2. Append(out["up"], Http1(slot["down"])) = out["up"] \o <<Http1(slot["down"])>>
      BY <1>0, <3>1, AppendIsConcat
    <3> QED
      BY <1>5, <3>2
  <2>2. CASE switching # "" /\ SwitchSessions
    BY <1>1, <1>2, <1>3, <1>5, <2>1, <2>2, SwitchingTurns
  <2>3. CASE /\ switching = "" /\ UNCHANGED <<up, down, switching>>
             /\ slot' = [slot EXCEPT !["down"] = NoMessage]
    BY <1>1, <1>2, <1>5, <2>1, <2>3, ResponseTurns
  <2> QED
    BY <1>0, <1>3, <1>5, <2>2, <2>3, DownHttpSteps
<1> QED
  BY <1>0, <1>3, <1>4, <1>5, DownHttpSteps

-----------------------------------------------------------------------------
LEMMA InitTurn == Init => TurnInv
<1> SUFFICES ASSUME Init PROVE Turns
  BY DEF TurnInv
<1>0. /\ "up" \in Side /\ "down" \in Side
      /\ sent["up"] = <<>> /\ sent["down"] = <<>> /\ out["up"] = <<>> /\ out["down"] = <<>>
      /\ \A s \in Side : /\ sent[s] = <<>> /\ out[s] = <<>> /\ readAs[s] = <<>> /\ read[s] = 0
                         /\ slot[s] = NoMessage /\ ~dead[s]
      /\ up = "http1" /\ down = "http1" /\ switching = "" /\ ~upgrade /\ ~tunnel
      /\ handler = "idle" /\ Len(<<>>) = 0
  BY SideNames DEF Init
<1>1. /\ \A s \in Side : \A K : Of(s, K) = {}
      /\ \A s \in Side : Messages(s) = {}
  BY <1>0, NothingIn DEF Of, Messages
<1>2. /\ \A s \in Side : Starts(s) = 0 /\ Rests(s) = 0
      /\ Relays = 0 /\ Answers = 0
  BY <1>0, <1>1, FS_EmptySet DEF Starts, Rests, Relays, Answers
<1>3. Told = 0
  <2>1. Answered = {}
    BY <1>0, <1>1 DEF Answered
  <2> QED
    BY <2>1, FS_EmptySet DEF Told
<1>4. /\ Starts("up") = 0 /\ Rests("up") = 0 /\ Starts("down") = 0 /\ Rests("down") = 0
      /\ Relays = 0 /\ Answers = 0
  BY <1>0, <1>2
<1>5. Counts
  BY <1>4, <1>3 DEF Counts
<1>6. \A s \in Side : Quiet(s)
  BY <1>0 DEF Quiet
<1>7. UpTurn /\ DownTurn
  <2>1. Starts("up") <= Rests("up") /\ Starts("down") <= Rests("down")
    BY <1>4
  <2>2. Of("down", {"101"}) = {} /\ Quiet("up") /\ Quiet("down") /\ switching = ""
    BY <1>0, <1>1, <1>6
  <2> QED
    BY <2>1, <2>2 DEF UpTurn, DownTurn
<1>8. Over /\ Unread
  BY <1>0 DEF Over, Unread, ClassOf
<1>9. ~Agreed
  BY <1>0, NothingIn DEF Agreed, Range
<1>10. UpKinds /\ DownKinds
  BY <1>0, <1>9, NothingIn DEF UpKinds, DownKinds
<1>11. Opening /\ Reading
  BY <1>0, <1>2 DEF Opening, Reading
<1>12. Readers
  BY <1>0, NothingIn DEF Readers
<1>13. CompleteOnly
  BY <1>1 DEF CompleteOnly
<1> QED
  BY <1>5, <1>7, <1>8, <1>10, <1>11, <1>12, <1>13 DEF Turns

\* The manners of the peers of a connection never change.
LEMMA SameManners == [Next]_vars => UNCHANGED manners
<1> SUFFICES ASSUME [Next]_vars PROVE UNCHANGED manners
  OBVIOUS
<1>1. ASSUME NEW s, NEW units, Write(s, units) PROVE UNCHANGED manners
  BY <1>1 DEF Write
<1>2. CASE Peers
  <2>1. ASSUME NEW s, PeerClose(s) PROVE UNCHANGED manners
    BY <2>1 DEF PeerClose
  <2> QED
    BY <1>1, <1>2, <2>1 DEF Peers, App, Origin, AppRequest, AppRest, AppPreface, AppSettings,
       AppFrame, AppRaw, OriginInterim, OriginBegin, OriginRest, OriginSwitch, OriginSettings,
       OriginFrame, OriginRaw
<1>3. ASSUME UNCHANGED peerVars PROVE UNCHANGED manners
  BY <1>3 DEF peerVars
<1>4. ASSUME NEW s \in Side, Callback(s) PROVE UNCHANGED peerVars
  <2>1. CASE readcb \/ on_read
    BY <2>1 DEF readcb, on_read
  <2>2. CASE TakePreface \/ TakeFrame(s) \/ CopyBytes(s)
    BY <2>2 DEF TakePreface, TakeFrame, CopyBytes
  <2>3. CASE ParseBegin(s) \/ ParseRest(s) \/ ParseShort(s) \/ ParseError(s)
    BY <2>3 DEF ParseBegin, ParseRest, ParseShort, ParseError
  <2>4. CASE UpHttpDone \/ UpHttp2Done \/ UpPlaneDone
    BY <2>4 DEF UpHttpDone, UpHttp2Done, UpPlaneDone
  <2>5. CASE DownHttpDone \/ DownHttp2Done \/ DownPlaneDone
    BY <2>5 DEF DownHttpDone, DownHttp2Done, DownPlaneDone
  <2> QED
    BY <1>4, <2>1, <2>2, <2>3, <2>4, <2>5 DEF Callback
<1>5. ASSUME Outcome PROVE UNCHANGED peerVars
  BY <1>5 DEF Outcome, ConnectedH2, Refused, Connected, Failed, removeSocket
<1>6. ASSUME NEW s, Closed(s) PROVE UNCHANGED peerVars
  BY <1>6 DEF Closed, removeSocket
<1>7. CASE UNCHANGED vars
  BY <1>7 DEF vars
<1> QED
  BY <1>2, <1>3, <1>4, <1>5, <1>6, <1>7 DEF Next

LEMMA NextTurn == AgreeInv /\ OrderInv /\ TurnInv /\ [Next]_vars => TurnInv'
<1> SUFFICES ASSUME AgreeInv, OrderInv, TurnInv, [Next]_vars, Orderly' PROVE Turns'
  BY DEF TurnInv
<1>1. Orderly /\ Turns /\ AgreeInv'
  BY SameManners, NextAgree DEF TurnInv, Orderly
<1>2. CASE Peers
  BY <1>1, <1>2, AppTurns, OriginTurns, QuietStepTurns DEF Peers
<1>3. ASSUME NEW s \in Side, Callback(s) PROVE Turns'
  <2>1. CASE ParseBegin(s) \/ ParseRest(s) \/ ParseShort(s) \/ ParseError(s)
    BY <1>1, <2>1, ParseBeginTurns, ParseRestTurns, ParseShortTurns, NoParseError
  <2>2. CASE TakeFrame(s) \/ CopyBytes(s) \/ TakePreface
    BY <1>1, <2>2, TakeOthersTurns, PrefaceTurns
  <2>3. CASE readcb \/ UpHttpDone \/ UpHttp2Done \/ UpPlaneDone
    BY <1>1, <2>3, ReadcbTurns, UpHttpTurns, UpOthersTurns
  <2>4. CASE on_read \/ DownHttpDone \/ DownHttp2Done \/ DownPlaneDone
    BY <1>1, <2>4, QuietStepTurns, DownHttpTurns, DownOthersTurns
  <2> QED
    BY <1>3, <2>1, <2>2, <2>3, <2>4 DEF Callback
<1>4. CASE Outcome
  BY <1>1, <1>4, ConnectedH2Turns, RefusedTurns, ConnectedTurns, QuietStepTurns DEF Outcome, Failed
<1>5. ASSUME NEW s \in Side, Closed(s) PROVE Turns'
  BY <1>1, <1>5, QuietStepTurns DEF Closed
<1>6. CASE UNCHANGED vars
  BY <1>1, <1>6, QuietStepTurns
<1> QED
  BY <1>2, <1>3, <1>4, <1>5, <1>6 DEF Next

(***************************************************************************)
(* With peers that take turns every unit is read by a session of its own   *)
(* protocol: http_parser is fed HTTP/1 only, nghttp2 what follows a        *)
(* preface or a 101, and a plane session the bytes of the tunnel.          *)
(***************************************************************************)
THEOREM RightSessionCorrect == Spec => []RightSession
<1>1. TurnInv => RightSession
  BY DEF TurnInv, Turns, Readers, RightSession
<1> QED
  BY <1>1, InitAgree, NextAgree, InitOrder, NextOrder, InitTurn, NextTurn, PTL DEF Spec

(***************************************************************************)
(* With such peers what DoFlush writes as one HTTP/1 message is one: the   *)
(* slot holds the start line and the rest of one message, or a 101, never  *)
(* parts of two.                                                           *)
(***************************************************************************)
THEOREM WholeMessagesCorrect == Spec => []WholeMessages
<1>1. TurnInv => WholeMessages
  BY DEF TurnInv, Turns, WholeMessages
<1> QED
  BY <1>1, InitAgree, NextAgree, InitOrder, NextOrder, InitTurn, NextTurn, PTL DEF Spec

(***************************************************************************)
(* With such peers DownSessionHttp::DoFlush has a message_ to dereference  *)
(* whenever the callback calls it.                                         *)
(***************************************************************************)
THEOREM NoNullMessageCorrect == Spec => []NoNullMessage
<1>1. TurnInv => NoNullMessage
  BY DEF TurnInv, Turns, Reading, NoNullMessage
<1> QED
  BY <1>1, InitAgree, NextAgree, InitOrder, NextOrder, InitTurn, NextTurn, PTL DEF Spec

-----------------------------------------------------------------------------
(***************************************************************************)
(* The connection is a FIFO.  In each direction the line of units runs     *)
(* from what has been written over the message in the slot to the queue;   *)
(* of each channel it holds what has been taken, in the same order.        *)
(***************************************************************************)
Loads(ws) == [n \in DOMAIN ws |-> ws[n].of]
All(s) == FlattenSeq(Loads(out[Other(s)]))
Queued(s) == FlattenSeq(queue[s])
Line(s) == All(s) \o (slot[s].units \o Queued(s))
Ids(n) == [i \in 1..n |-> i]

Account(s) == \A t \in Channels : Only(Line(s), Owed(s, t)) = Only(Ids(read[s]), Owed(s, t))
Keeping(s) == {n \in Nat : Kept(s, n)}
GivesNone(us, K) == \A i \in DOMAIN us : us[i] \notin K

\* A session of another protocol has left nothing behind.
Waiting ==
    /\ \A s \in Side : /\ ClassOf(s) # "http1" => slot[s] = NoMessage
                       /\ ClassOf(s) # "http2" => queue[s] = <<>>
    /\ plan = "direct" => \A s \in Side : slot[s] = NoMessage
SettingsFirst ==
    \A s \in Side :
       /\ \A m \in DOMAIN sent[s] : sent[s][m] = "frame" => Of(s, {"settings"}) # {}
       /\ \A m, n \in DOMAIN sent[s] : sent[s][m] \in Framed /\ sent[s][n] = "settings" => n <= m

PassInv ==
    Orderly => /\ Waiting /\ SettingsFirst
               /\ \A s \in Side : Account(s) /\ GivesNone(All(s), Keeping(s))

\* What one step does to the line of a side.
New(s) == IF read'[s] = read[s] THEN <<>> ELSE <<read[s] + 1>>
Moved(s) ==
    /\ read'[s] \in {read[s], read[s] + 1}
    /\ \E x \in Seq(Nat) : All(s)' = All(s) \o x /\ GivesNone(x, Keeping(s)')
    /\ \A t \in Channels : Only(Line(s)', Owed(s, t)') = Only(Line(s) \o New(s), Owed(s, t)')

\* ... and to what waits there.
Forwards(s) ==
    /\ Moved(s)
    /\ plan = "direct" => slot'[s] \in {slot[s], NoMessage}
    /\ ClassOf(s)' # "http2" => queue'[s] = <<>>

-----------------------------------------------------------------------------
\* Loads of written units, like Parts, is a sequence of sequences.
LEMMA LoadsTyped ==
    ASSUME NEW X, NEW ws \in Seq(Written), \A n \in DOMAIN ws : ws[n].of \in Seq(X)
    PROVE  Loads(ws) \in Seq(Seq(X)) /\ FlattenSeq(Loads(ws)) \in Seq(X)
<1>1. DOMAIN ws = 1..Len(ws) /\ Len(ws) \in Nat
  OBVIOUS
<1>2. Loads(ws) \in Seq(Seq(X))
  BY <1>1 DEF Loads
<1> QED
  BY <1>2, FlattenTyped

LEMMA WrittenLoads ==
    ASSUME NEW ws \in Seq(Written)
    PROVE  Loads(ws) \in Seq(Seq(Nat)) /\ FlattenSeq(Loads(ws)) \in Seq(Nat)
<1>1. \A n \in DOMAIN ws : ws[n].of \in Seq(Nat)
  <2>1. \A n \in DOMAIN ws : ws[n] \in Written
    OBVIOUS
  <2> QED
    BY <2>1 DEF Written
<1> QED
  BY <1>1, LoadsTyped

\* What is written later is loaded behind what was.
LEMMA LoadsConcat ==
    ASSUME NEW vs \in Seq(Written), NEW ws \in Seq(Written)
    PROVE  FlattenSeq(Loads(vs \o ws)) = FlattenSeq(Loads(vs)) \o FlattenSeq(Loads(ws))
<1>1. Loads(vs) \in Seq(Seq(Nat)) /\ Loads(ws) \in Seq(Seq(Nat))
  BY WrittenLoads
<1>2. Loads(vs \o ws) = Loads(vs) \o Loads(ws)
  <2> DEFINE a == Loads(vs \o ws)
             b == Loads(vs)
             c == Loads(ws)
  <2>1. /\ vs \o ws \in Seq(Written) /\ Len(vs \o ws) = Len(vs) + Len(ws)
        /\ \A i \in 1..(Len(vs) + Len(ws)) :
              (vs \o ws)[i] = IF i <= Len(vs) THEN vs[i] ELSE ws[i - Len(vs)]
    BY ConcatProperties
  <2>2. /\ DOMAIN (vs \o ws) = 1..(Len(vs) + Len(ws)) /\ DOMAIN vs = 1..Len(vs)
        /\ DOMAIN ws = 1..Len(ws) /\ Len(vs) \in Nat /\ Len(ws) \in Nat
    BY <2>1
  <2>3. /\ a = [i \in 1..(Len(vs) + Len(ws)) |-> (vs \o ws)[i].of]
        /\ b = [i \in 1..Len(vs) |-> vs[i].of] /\ c = [i \in 1..Len(ws) |-> ws[i].of]
    BY <2>2 DEF Loads
  <2>4. a \in Seq(Seq(Nat)) /\ b \in Seq(Seq(Nat)) /\ c \in Seq(Seq(Nat))
    BY <1>1, <2>1, WrittenLoads
  <2> HIDE DEF a, b, c
  <2>5. Len(a) = Len(vs) + Len(ws) /\ Len(b) = Len(vs) /\ Len(c) = Len(ws)
    BY <2>2, <2>3
  <2>6. /\ b \o c \in Seq(Seq(Nat)) /\ Len(b \o c) = Len(b) + Len(c)
        /\ \A i \in 1..(Len(b) + Len(c)) : (b \o c)[i] = IF i <= Len(b) THEN b[i] ELSE c[i - Len(b)]
    BY <2>4, ConcatProperties
  <2>7. ASSUME NEW i \in 1..(Len(vs) + Len(ws)) PROVE a[i] = (b \o c)[i]
    <3>1. CASE i <= Len(vs)
      <4>1. i \in 1..Len(vs)
        BY <2>2, <3>1
      <4> QED
        BY <2>1, <2>3, <2>5, <2>6, <3>1, <4>1
    <3>2. CASE ~(i <= Len(vs))
      <4>1. i - Len(vs) \in 1..Len(ws)
        BY <2>2, <3>2
      <4> QED
        BY <2>1, <2>3, <2>5, <2>6, <3>2, <4>1
    <3> QED
      BY <3>1, <3>2
  <2> QED
    BY <2>4, <2>5, <2>6, <2>7, SeqEqual DEF a, b, c
<1> QED
  BY <1>1, <1>2, FlattenConcat

LEMMA LoadsOne ==
    ASSUME NEW w \in Written
    PROVE  FlattenSeq(Loads(<<w>>)) = w.of
<1>1. w.of \in Seq(Nat) /\ Loads(<<w>>) = <<w.of>>
  BY DEF Written, Loads
<1> QED
  BY <1>1, FlattenOne

LEMMA LoadsFrames ==
    ASSUME NEW q \in Seq(Seq(Nat))
    PROVE  Loads(Frames(q)) = q
BY DEF Loads, Frames

\* Sequences of units that have been read.
LEMMA NumberedSeqs ==
    ASSUME NEW n \in Nat
    PROVE  /\ \A us \in Seq(Nat) : Within(us, n) => us \in Seq(1..n)
           /\ \A us \in Seq(1..n) : us \in Seq(Nat) /\ Within(us, n)
           /\ \A us \in Seq(1..n) : us \in Seq(1..n + 1)
           /\ Ids(n) \in Seq(1..n) /\ Ids(n) \in Seq(Nat) /\ Within(Ids(n), n)
           /\ Ids(n + 1) = Ids(n) \o <<n + 1>>
<1>1. ASSUME NEW us \in Seq(Nat), Within(us, n) PROVE us \in Seq(1..n)
  <2>1. Len(us) \in Nat /\ us \in [1..Len(us) -> Nat] /\ DOMAIN us = 1..Len(us)
    BY LenProperties
  <2>2. us \in [1..Len(us) -> 1..n]
    BY <1>1, <2>1 DEF Within
  <2> QED
    BY <2>1, <2>2, SeqDef
<1>2. ASSUME NEW us \in Seq(1..n) PROVE us \in Seq(Nat) /\ Within(us, n)
  <2>1. us \in Seq(Nat)
    <3>1. 1..n \subseteq Nat
      OBVIOUS
    <3> QED
      BY <3>1, SeqMonotonic
  <2>2. \A i \in DOMAIN us : us[i] \in 1..n
    OBVIOUS
  <2> QED
    BY <2>1, <2>2 DEF Within
<1>3. ASSUME NEW us \in Seq(1..n) PROVE us \in Seq(1..n + 1)
  <2>1. 1..n \subseteq 1..n + 1
    OBVIOUS
  <2> QED
    BY <2>1, SeqMonotonic
<1>4. Ids(n) \in Seq(1..n)
  BY DEF Ids
<1>5. Ids(n + 1) = Ids(n) \o <<n + 1>>
  <2>1. Ids(n + 1) = Append(Ids(n), n + 1)
    BY DEF Ids
  <2>2. Append(Ids(n), n + 1) = Ids(n) \o <<n + 1>>
    BY <1>2, <1>4, AppendIsConcat
  <2> QED
    BY <2>1, <2>2
<1> QED
  BY <1>1, <1>2, <1>3, <1>4, <1>5

\* Every unit of the line has been read.
LEMMA LineTyped ==
    ASSUME AgreeInv, NEW s \in Side
    PROVE  /\ read[s] \in Nat /\ slot[s].units \in Seq(1..read[s])
           /\ All(s) \in Seq(1..read[s]) /\ Queued(s) \in Seq(1..read[s])
           /\ Line(s) \in Seq(1..read[s])
<1>0. /\ TypeInv /\ Positions /\ Other(s) \in Side
      /\ read[s] \in Nat /\ slot[s].units \in Seq(Nat)
  BY ReadTypes DEF AgreeInv, Other, Side
<1>1. slot[s].units \in Seq(1..read[s])
  BY <1>0, NumberedSeqs DEF Positions, SlotRead
<1>2. All(s) \in Seq(1..read[s])
  <2> DEFINE ws == out[Other(s)]
  <2>1. ws \in Seq(Written) /\ \A n \in DOMAIN ws : ws[n].of \in Seq(Nat) /\ Within(ws[n].of, read[s])
    BY <1>0, ReadTypes, SideTypes DEF Positions, OutRead
  <2>2. \A n \in DOMAIN ws : ws[n].of \in Seq(1..read[s])
    BY <1>0, <2>1, NumberedSeqs
  <2> HIDE DEF ws
  <2>3. FlattenSeq(Loads(ws)) \in Seq(1..read[s])
    BY <2>1, <2>2, LoadsTyped
  <2> QED
    BY <2>3 DEF All, ws
<1>3. Queued(s) \in Seq(1..read[s])
  <2>1. /\ queue[s] \in Seq(Seq(Nat))
        /\ \A n \in DOMAIN queue[s] : queue[s][n] \in Seq(Nat) /\ Within(queue[s][n], read[s])
    BY <1>0, ReadTypes, SideTypes DEF Positions, QueueRead
  <2>2. \A n \in DOMAIN queue[s] : queue[s][n] \in Seq(1..read[s])
    BY <1>0, <2>1, NumberedSeqs
  <2> DEFINE q == queue[s]
             X == Seq(1..read[s])
  <2>3. q \in Seq(X)
    <3>1. q \in Seq(Seq(Nat)) /\ \A n \in DOMAIN q : q[n] \in X
      BY <2>1, <2>2
    <3> HIDE DEF q, X
    <3>2. Len(q) \in Nat /\ DOMAIN q = 1..Len(q) /\ q \in [1..Len(q) -> Seq(Nat)]
      BY <3>1, LenProperties
    <3>3. q \in [1..Len(q) -> X]
      BY <3>1, <3>2
    <3> QED
      BY <3>2, <3>3, SeqDef
  <2> QED
    BY <2>3, FlattenTyped DEF Queued
<1>4. slot[s].units \o Queued(s) \in Seq(1..read[s])
  BY <1>1, <1>3, ConcatProperties
<1> QED
  BY <1>0, <1>1, <1>2, <1>3, <1>4, ConcatProperties DEF Line

\* A step changes nothing of what has been read.
Steady ==
    /\ UNCHANGED <<plan, manners>>
    /\ \A s \in Side : \A n \in 1..read[s] :
          n \in DOMAIN sent[s] /\ n \in DOMAIN sent'[s] /\ sent'[s][n] = sent[s][n]

\* So no unit that was read changes its channel.
LEMMA SteadyChannels ==
    ASSUME Steady, NEW s \in Side, NEW n \in 1..read[s]
    PROVE  /\ Kept(s, n)' <=> Kept(s, n)
           /\ \A t : (n \in On(s, t)' <=> n \in On(s, t)) /\ (n \in Owed(s, t)' <=> n \in Owed(s, t))
<1>1. /\ plan' = plan /\ manners' = manners /\ n \in DOMAIN sent[s] /\ n \in DOMAIN sent'[s]
      /\ sent'[s][n] = sent[s][n]
  BY DEF Steady
<1>2. Kept(s, n)' <=> Kept(s, n)
  BY <1>1 DEF Kept
<1>3. \A t : n \in On(s, t)' <=> n \in On(s, t)
  BY <1>1 DEF On
<1> QED
  BY <1>2, <1>3 DEF Owed

\* OnlyConcat and OnlyTyped for all units at once.
LEMMA OnlyParts ==
    /\ \A S : \A p, q \in Seq(Nat) : Only(p \o q, S) = Only(p, S) \o Only(q, S)
    /\ \A S : \A p \in Seq(Nat) : Only(p, S) \in Seq(Nat)
<1>1. ASSUME NEW S, NEW p \in Seq(Nat), NEW q \in Seq(Nat)
      PROVE  Only(p \o q, S) = Only(p, S) \o Only(q, S)
  BY OnlyConcat
<1>2. ASSUME NEW S, NEW p \in Seq(Nat) PROVE Only(p, S) \in Seq(Nat)
  BY OnlyTyped
<1> QED
  BY <1>1, <1>2

\* What a step does to the line of a side is all it does to its accounts.
LEMMA MovedPasses ==
    ASSUME AgreeInv, AgreeInv', Orderly, Steady, NEW s \in Side,
           Account(s), GivesNone(All(s), Keeping(s)), Moved(s)
    PROVE  /\ Account(s)' /\ GivesNone(All(s)', Keeping(s)')
           /\ \A t \in Channels : /\ IsPrefix(Taken(s, t), Taken(s, t)')
                                  /\ IsPrefix(Relayed(s, t), Relayed(s, t)')
                                  /\ IsPrefix(Relayed(s, t)', Taken(s, t)')
<1> DEFINE r == read[s]
           a == All(s)
           l == Line(s)
           b == slot'[s].units
           c == Queued(s)'
           k == New(s)
<1>1. /\ r \in Nat /\ a \in Seq(1..r) /\ l \in Seq(1..r) /\ Ids(r) \in Seq(1..r)
      /\ a \in Seq(Nat) /\ l \in Seq(Nat) /\ Ids(r) \in Seq(Nat)
      /\ Within(a, r) /\ Within(l, r) /\ Within(Ids(r), r)
  BY LineTyped, NumberedSeqs
<1>2. b \in Seq(Nat) /\ c \in Seq(Nat)
  <2>1. slot'[s] \in Message /\ queue'[s] \in Seq(Seq(Nat))
    BY DEF AgreeInv, TypeInv, TypeOK
  <2> QED
    BY <2>1, FlattenTyped DEF Message, Queued
<1>3. k \in Seq(Nat) /\ Ids(read'[s]) = Ids(r) \o k
  <2>1. CASE read'[s] = r
    BY <1>1, <2>1 DEF New
  <2>2. CASE read'[s] = r + 1
    <3>1. read'[s] # r /\ k = <<r + 1>>
      BY <1>1, <2>2 DEF New
    <3>2. Ids(r + 1) = Ids(r) \o <<r + 1>>
      BY <1>1, NumberedSeqs
    <3>3. <<r + 1>> \in Seq(Nat)
      BY <1>1
    <3> QED
      BY <2>2, <3>1, <3>2, <3>3
  <2> QED
    BY <2>1, <2>2 DEF Moved
<1>4. PICK x \in Seq(Nat) : All(s)' = a \o x /\ GivesNone(x, Keeping(s)')
  BY DEF Moved
<1>5. a \o x \in Seq(Nat)
  BY <1>1, ConcatProperties
<1>7. \A n \in 1..r : n \in Keeping(s)' => n \in Keeping(s)
  BY SteadyChannels DEF Keeping
<1>6. GivesNone(a \o x, Keeping(s)')
  <2>1. ASSUME NEW i \in DOMAIN (a \o x) PROVE (a \o x)[i] \notin Keeping(s)'
    <3>1. /\ Len(a) \in Nat /\ Len(x) \in Nat /\ DOMAIN (a \o x) = 1..(Len(a) + Len(x))
          /\ DOMAIN a = 1..Len(a) /\ DOMAIN x = 1..Len(x)
          /\ (a \o x)[i] = IF i <= Len(a) THEN a[i] ELSE x[i - Len(a)]
      BY <1>1, <1>5, <2>1, ConcatProperties
    <3>2. CASE i <= Len(a)
      <4>1. i \in DOMAIN a /\ (a \o x)[i] = a[i]
        BY <3>1, <3>2
      <4>2. a[i] \in 1..r /\ a[i] \notin Keeping(s)
        BY <1>1, <4>1 DEF GivesNone, Within
      <4> QED
        BY <1>7, <4>1, <4>2
    <3>3. CASE ~(i <= Len(a))
      <4>1. i - Len(a) \in DOMAIN x /\ (a \o x)[i] = x[i - Len(a)]
        BY <3>1, <3>3
      <4> QED
        BY <1>4, <4>1 DEF GivesNone
    <3> QED
      BY <3>2, <3>3
  <2> QED
    BY <2>1 DEF GivesNone
<1>9. Line(s)' = (a \o x) \o (b \o c)
  <2>1. Line(s)' = All(s)' \o (b \o c)
    BY DEF Line
  <2> QED
    BY <1>4, <2>1
<1>10. Orderly /\ Orderly'
  BY DEF Steady, Orderly
<1>8. ASSUME NEW t \in Channels
      PROVE  /\ Only(Line(s)', Owed(s, t)') = Only(Ids(read'[s]), Owed(s, t)')
             /\ IsPrefix(Taken(s, t), Taken(s, t)')
             /\ IsPrefix(Relayed(s, t), Relayed(s, t)')
             /\ IsPrefix(Relayed(s, t)', Taken(s, t)')
  <2> DEFINE D == Owed(s, t)
             E == Owed(s, t)'
             F == On(s, t)
             G == On(s, t)'
  <2>1. \A n \in 1..r : (n \in D <=> n \in E) /\ (n \in F <=> n \in G)
    BY SteadyChannels
  <2>2. Only(l, D) = Only(Ids(r), D) /\ Only(Line(s)', E) = Only(l \o k, E)
    <3>1. Only(l, D) = Only(Ids(r), D)
      BY DEF Account
    <3>2. Only(Line(s)', E) = Only(l \o k, E)
      BY Zenon DEF Moved
    <3> QED
      BY <3>1, <3>2
  <2>3. \A i \in DOMAIN (a \o x) : (a \o x)[i] \in G <=> (a \o x)[i] \in E
    <3>1. ASSUME NEW i \in DOMAIN (a \o x) PROVE (a \o x)[i] \in G <=> (a \o x)[i] \in E
      <4>1. (a \o x)[i] \in Nat /\ (a \o x)[i] \notin Keeping(s)'
        BY <1>5, <1>6, <3>1 DEF GivesNone
      <4>2. \A n \in Nat : n \notin Keeping(s)' => (n \in G <=> n \in E)
        BY DEF Owed, Keeping
      <4> QED
        BY <4>1, <4>2
    <3> QED
      BY <3>1
  <2>4. /\ Taken(s, t) = Only(Ids(r), D) /\ Taken(s, t)' = Only(Ids(read'[s]), E)
        /\ Relayed(s, t) = Only(a, F) /\ Relayed(s, t)' = Only(a \o x, G)
    BY <1>4, <1>10 DEF Taken, Ids, Relayed, All, Loads
  <2> HIDE DEF D, E, F, G
  <2>5. Only(l, D) = Only(l, E) /\ Only(Ids(r), D) = Only(Ids(r), E) /\ Only(a, F) = Only(a, G)
    <3>1. /\ \A i \in DOMAIN l : l[i] \in D <=> l[i] \in E
          /\ \A i \in DOMAIN Ids(r) : Ids(r)[i] \in D <=> Ids(r)[i] \in E
          /\ \A i \in DOMAIN a : a[i] \in F <=> a[i] \in G
      BY <1>1, <2>1 DEF Within
    <3> HIDE DEF l, a
    <3> QED
      BY <3>1, OnlySame
  <2> HIDE DEF l, a, k, b, c
  <2>6. Only(l \o k, E) = Only(l, E) \o Only(k, E) /\ Only(Ids(r) \o k, E) = Only(Ids(r), E) \o Only(k, E)
    <3>1. Only(l \o k, E) = Only(l, E) \o Only(k, E)
      BY <1>1, <1>3, OnlyParts
    <3>2. Only(Ids(r) \o k, E) = Only(Ids(r), E) \o Only(k, E)
      BY <1>1, <1>3, OnlyParts
    <3> QED
      BY <3>1, <3>2
  <2>7. Only(Line(s)', E) = Only(Ids(read'[s]), E)
    BY <1>3, <2>2, <2>5, <2>6
  <2>8. /\ Only(Ids(r), E) \in Seq(Nat) /\ Only(k, E) \in Seq(Nat) /\ Only(a, G) \in Seq(Nat)
        /\ Only(x, G) \in Seq(Nat) /\ Only(a \o x, E) \in Seq(Nat) /\ Only(b \o c, E) \in Seq(Nat)
        /\ b \o c \in Seq(Nat)
    BY <1>1, <1>2, <1>3, <1>5, OnlyTyped, ConcatProperties
  <2>9. IsPrefix(Taken(s, t), Taken(s, t)')
    BY <1>3, <2>4, <2>5, <2>6, <2>8, PrefixConcat
  <2>10. IsPrefix(Relayed(s, t), Relayed(s, t)')
    <3>0. a \in Seq(Nat) /\ x \in Seq(Nat)
      BY <1>1
    <3>1. Only(a \o x, G) = Only(a, G) \o Only(x, G)
      BY <3>0, OnlyParts
    <3> QED
      BY <2>4, <2>5, <2>8, <3>1, PrefixConcat
  <2>11. IsPrefix(Relayed(s, t)', Taken(s, t)')
    <3>1. Line(s)' = (a \o x) \o (b \o c)
      BY <1>9
    <3>2. Only((a \o x) \o (b \o c), E) = Only(a \o x, E) \o Only(b \o c, E)
      BY <1>5, <2>8, OnlyParts
    <3>3. Only(a \o x, G) = Only(a \o x, E)
      BY <2>3, OnlySame
    <3> QED
      BY <2>4, <2>7, <2>8, <3>1, <3>2, <3>3, PrefixConcat
  <2> QED
    BY <2>7, <2>9, <2>10, <2>11 DEF E
<1> QED
  BY <1>4, <1>6, <1>8 DEF Account

\* Joining sequences of units.
LEMMA Joins ==
    \A a, b, c \in Seq(Nat) :
       /\ a \o <<>> = a /\ <<>> \o a = a /\ <<>> \in Seq(Nat)
       /\ a \o b \in Seq(Nat) /\ (a \o b) \o c = a \o (b \o c)
  <1>1. ASSUME NEW a \in Seq(Nat), NEW b \in Seq(Nat), NEW c \in Seq(Nat)
        PROVE  (a \o b) \o c = a \o (b \o c)
    BY ConcatAssociative
  <1> QED
    BY <1>1, SMTT(30)

\* The parts of the line of a side.
LEMMA LineParts ==
    ASSUME AgreeInv, NEW s \in Side
    PROVE  /\ read[s] \in Nat /\ slot[s].units \in Seq(Nat) /\ All(s) \in Seq(Nat)
           /\ Queued(s) \in Seq(Nat) /\ Line(s) \in Seq(Nat)
           /\ queue[s] = <<>> => Queued(s) = <<>>
           /\ slot[s] = NoMessage => slot[s].units = <<>>
<1>1. /\ read[s] \in Nat /\ slot[s].units \in Seq(Nat) /\ All(s) \in Seq(Nat)
      /\ Queued(s) \in Seq(Nat) /\ Line(s) \in Seq(Nat)
  BY LineTyped, NumberedSeqs
<1>2. queue[s] = <<>> => Queued(s) = <<>>
  BY DEF Queued, FlattenSeq
<1> QED
  BY <1>1, <1>2, SideNames

\* The units of the line, in their order, with what has been taken behind.
LEMMA ExactMoved ==
    ASSUME NEW s \in Side, read'[s] \in {read[s], read[s] + 1},
           NEW x \in Seq(Nat), All(s)' = All(s) \o x, GivesNone(x, Keeping(s)'),
           Line(s)' = Line(s) \o New(s)
    PROVE  Moved(s)
  BY Zenon DEF Moved

LEMMA NothingGiven == \A K : GivesNone(<<>>, K)
  BY DEF GivesNone

\* A step that leaves a side alone moves nothing there.
LEMMA StillMoved ==
    ASSUME AgreeInv, NEW s \in Side, read'[s] = read[s], slot'[s].units = slot[s].units,
           queue'[s] = queue[s], out'[Other(s)] = out[Other(s)]
    PROVE  Moved(s)
<1>1. All(s)' = All(s) /\ Queued(s)' = Queued(s) /\ Line(s)' = Line(s)
  BY DEF All, Loads, Queued, Line
<1>2. /\ All(s) \o <<>> = All(s) /\ Line(s) \o <<>> = Line(s) /\ <<>> \in Seq(Nat)
  BY LineParts, Joins
<1>3. New(s) = <<>>
  BY DEF New
<1>4. GivesNone(<<>>, Keeping(s)')
  BY NothingGiven
<1> QED
  BY <1>1, <1>2, <1>3, <1>4, ExactMoved

\* Nothing is withheld but a CONNECT.
LEMMA NoneKept ==
    ASSUME NEW s, s # "up" \/ plan # "connect", NEW x
    PROVE  GivesNone(x, Keeping(s))
  BY DEF GivesNone, Keeping, Kept

\* What is written to the other peer is given behind all that was.
LEMMA WroteAll ==
    ASSUME AgreeInv, NEW s \in Side, NEW ws \in Seq(Written),
           out' = [out EXCEPT ![Other(s)] = @ \o ws]
    PROVE  /\ All(s)' = All(s) \o FlattenSeq(Loads(ws)) /\ FlattenSeq(Loads(ws)) \in Seq(Nat)
           /\ \A t \in Side : t # s => out'[Other(t)] = out[Other(t)]
<1>1. /\ out'[Other(s)] = out[Other(s)] \o ws
      /\ \A t \in Side : t # s => out'[Other(t)] = out[Other(t)]
  BY OutSides DEF AgreeInv
<1>2. out[Other(s)] \in Seq(Written)
  BY SideTypes DEF AgreeInv, Other, Side
<1>3. FlattenSeq(Loads(out[Other(s)] \o ws)) = FlattenSeq(Loads(out[Other(s)])) \o FlattenSeq(Loads(ws))
  BY <1>2, LoadsConcat
<1>4. All(s)' = FlattenSeq(Loads(out'[Other(s)]))
  BY DEF All, Loads
<1> QED
  BY <1>1, <1>3, <1>4, WrittenLoads DEF All

\* The message of the slot is written.
LEMMA GivenMoved ==
    ASSUME AgreeInv, NEW s \in Side, UNCHANGED <<plan, sent>>, s # "up" \/ plan # "connect",
           out' = [out EXCEPT ![Other(s)] = @ \o <<Http1(slot[s])>>], slot'[s] = NoMessage,
           queue[s] = <<>>, queue'[s] = <<>>, read'[s] = read[s]
    PROVE  Moved(s) /\ \A t \in Side : t # s => out'[Other(t)] = out[Other(t)]
<1> DEFINE a == All(s)
           b == slot[s].units
           w == Http1(slot[s])
<1>1. /\ a \in Seq(Nat) /\ b \in Seq(Nat) /\ Queued(s) = <<>> /\ Line(s) \in Seq(Nat)
      /\ NoMessage.units = <<>>
  BY LineParts, SideNames
<1>2. w \in Written /\ w.of = b
  <2>1. slot[s] \in Message
    BY SideTypes DEF AgreeInv
  <2> QED
    BY <2>1 DEF Http1, Message, Written
<1>3. <<w>> \in Seq(Written) /\ FlattenSeq(Loads(<<w>>)) = b
  BY <1>2, LoadsOne
<1>4. /\ All(s)' = a \o b
      /\ \A t \in Side : t # s => out'[Other(t)] = out[Other(t)]
  BY <1>3, WroteAll
<1>5. Queued(s)' = <<>>
  BY DEF Queued, FlattenSeq
<1>6. Line(s)' = All(s)' \o (<<>> \o <<>>) /\ Line(s) = a \o (b \o <<>>)
  BY <1>1, <1>5 DEF Line
<1> HIDE DEF a, b, w
<1>7. Line(s)' = Line(s) \o <<>>
  BY <1>1, <1>4, <1>6, Joins
<1>8. New(s) = <<>>
  BY DEF New
<1>9. GivesNone(b, Keeping(s)')
  <2>1. GivesNone(b, Keeping(s)) /\ Keeping(s)' = Keeping(s)
    BY NoneKept DEF Keeping, Kept
  <2> QED
    BY <2>1
<1>10. Moved(s)
  BY <1>1, <1>4, <1>7, <1>8, <1>9, ExactMoved DEF a
<1> QED
  BY <1>4, <1>10

\* The queue of an HTTP/2 session is written.
LEMMA QueueMoved ==
    ASSUME AgreeInv, NEW s \in Side, UNCHANGED <<plan, sent>>, s # "up" \/ plan # "connect",
           FlushQueue(s), slot[s] = NoMessage, slot'[s] = NoMessage, read'[s] = read[s]
    PROVE  /\ Moved(s)
           /\ \A t \in Side : t # s => out'[Other(t)] = out[Other(t)] /\ queue'[t] = queue[t]
           /\ queue'[s] = <<>> \/ queue' = queue
<1>1. CASE UNCHANGED <<out, queue, recvwait>>
  <2>1. Moved(s)
    BY <1>1, StillMoved
  <2> QED
    BY <1>1, <2>1
<1>2. ASSUME queue' = [queue EXCEPT ![s] = <<>>], NEW ws \in Seq(Written), ws = Frames(queue[s]),
             out' = [out EXCEPT ![Other(s)] = @ \o ws]
      PROVE  /\ Moved(s) /\ queue'[s] = <<>>
             /\ \A t \in Side : t # s => out'[Other(t)] = out[Other(t)] /\ queue'[t] = queue[t]
  <2> DEFINE a == All(s)
             c == Queued(s)
  <2>1. /\ a \in Seq(Nat) /\ c \in Seq(Nat) /\ slot[s].units = <<>> /\ NoMessage.units = <<>>
        /\ Line(s) \in Seq(Nat) /\ queue[s] \in Seq(Seq(Nat)) /\ queue \in [Side -> Seq(Seq(Nat))]
    BY LineParts, SideNames, SideTypes DEF AgreeInv, TypeInv, TypeOK
  <2>2. FlattenSeq(Loads(ws)) = c
    BY <1>2, <2>1, LoadsFrames DEF Queued
  <2>3. /\ All(s)' = a \o c
        /\ \A t \in Side : t # s => out'[Other(t)] = out[Other(t)]
    BY <1>2, <2>2, WroteAll
  <2>4. queue'[s] = <<>> /\ \A t \in Side : t # s => queue'[t] = queue[t]
    BY <1>2, <2>1
  <2>5. Queued(s)' = <<>>
    BY <2>4 DEF Queued, FlattenSeq
  <2>6. Line(s)' = All(s)' \o (<<>> \o <<>>) /\ Line(s) = a \o (<<>> \o c)
    BY <2>1, <2>5 DEF Line
  <2> HIDE DEF a, c
  <2>7. Line(s)' = Line(s) \o <<>>
    BY <2>1, <2>3, <2>6, Joins
  <2>8. New(s) = <<>>
    BY DEF New
  <2>9. GivesNone(c, Keeping(s)')
    <3>1. GivesNone(c, Keeping(s)) /\ Keeping(s)' = Keeping(s)
      BY NoneKept DEF Keeping, Kept
    <3> QED
      BY <3>1
  <2>10. Moved(s)
    BY <2>1, <2>3, <2>7, <2>8, <2>9, ExactMoved DEF a
  <2> QED
    BY <2>3, <2>4, <2>10
<1> QED
  BY <1>1, <1>2, FlushQueueSteps

\* An answer of the proxy's own carries nothing.
LEMMA OwnMoved ==
    ASSUME AgreeInv, NEW k \in {"101", "200", "goaway"}, write("up", <<Own(k)>>),
           read'["down"] = read["down"], slot'["down"].units = slot["down"].units,
           queue'["down"] = queue["down"]
    PROVE  Moved("down") /\ out'["down"] = out["down"]
<1>0. "up" \in Side /\ "down" \in Side /\ Other("down") = "up" /\ Other("up") = "down"
  BY SideNames DEF Other
<1> DEFINE w == Own(k)
           s == "down"
<1>1. w \in Written /\ <<w>> \in Seq(Written) /\ w.of = <<>>
  BY DEF Own, Written
<1>2. FlattenSeq(Loads(<<w>>)) = <<>>
  BY <1>1, LoadsOne
<1>3. out' = [out EXCEPT ![Other(s)] = @ \o <<w>>]
  BY <1>0 DEF write
<1>4. /\ All(s)' = All(s) \o <<>>
      /\ \A t \in Side : t # s => out'[Other(t)] = out[Other(t)]
  BY <1>0, <1>1, <1>2, <1>3, WroteAll
<1>5. All(s) \in Seq(Nat) /\ Line(s) \in Seq(Nat) /\ <<>> \in Seq(Nat)
  BY <1>0, LineParts
<1>6. Queued(s)' = Queued(s) /\ All(s)' = All(s)
  <2>1. All(s) \o <<>> = All(s)
    BY <1>5, Joins
  <2> QED
    BY <1>4, <2>1 DEF Queued
<1>7. Line(s)' = Line(s) \o <<>>
  <2>1. Line(s)' = Line(s)
    BY <1>6 DEF Line
  <2>2. Line(s) \o <<>> = Line(s)
    BY <1>5, Joins
  <2> QED
    BY <2>1, <2>2
<1>8. New(s) = <<>> /\ GivesNone(<<>>, Keeping(s)')
  BY NothingGiven DEF New
<1>9. Moved(s)
  BY <1>0, <1>4, <1>5, <1>7, <1>8, ExactMoved
<1> QED
  BY <1>0, <1>4, <1>9

\* What has been read stays as it is.
LEMMA SteadyKeeps ==
    ASSUME AgreeInv, UNCHANGED <<plan, manners, sent>>
    PROVE  Steady
<1>1. ASSUME NEW s \in Side, NEW n \in 1..read[s] PROVE n \in DOMAIN sent[s]
  <2>1. DOMAIN sent[s] = 1..Len(sent[s]) /\ Len(sent[s]) \in Nat /\ read[s] \in Nat /\ read[s] <= Len(sent[s])
    BY SideTypes DEF AgreeInv
  <2> QED
    BY <2>1
<1> QED
  BY <1>1 DEF Steady

LEMMA SteadyWrites ==
    ASSUME AgreeInv, NEW s \in Side, NEW units \in Seq(Kind), Write(s, units)
    PROVE  Steady
<1>1. /\ sent'[s] = sent[s] \o units /\ \A t \in Side : t # s => sent'[t] = sent[t]
      /\ \A t \in Side : \A n \in 1..read[t] : sent'[t][n] = sent[t][n]
      /\ UNCHANGED <<plan, manners>>
  BY WriteKeeps
<1>2. ASSUME NEW t \in Side, NEW n \in 1..read[t] PROVE n \in DOMAIN sent[t] /\ n \in DOMAIN sent'[t]
  <2>1. /\ DOMAIN sent[t] = 1..Len(sent[t]) /\ Len(sent[t]) \in Nat /\ read[t] \in Nat
        /\ read[t] <= Len(sent[t]) /\ sent[t] \in Seq(Kind)
    BY SideTypes DEF AgreeInv
  <2>2. n \in 1..Len(sent[t])
    BY <2>1
  <2>3. CASE t = s
    <3>1. /\ Len(sent[s] \o units) = Len(sent[s]) + Len(units) /\ Len(units) \in Nat
          /\ sent[s] \o units \in Seq(Kind)
      BY <2>1, <2>3, ConcatProperties
    <3>2. DOMAIN (sent[s] \o units) = 1..(Len(sent[s]) + Len(units))
      BY <3>1
    <3> QED
      BY <1>1, <2>1, <2>2, <2>3, <3>1, <3>2
  <2>4. CASE t # s
    BY <1>1, <2>1, <2>2, <2>4
  <2> QED
    BY <2>3, <2>4
<1> QED
  BY <1>1, <1>2 DEF Steady

\* A step that relays nothing.
LEMMA StillForwards ==
    ASSUME AgreeInv, Waiting, NEW s \in Side, read'[s] = read[s],
           slot'[s] = slot[s], queue'[s] = queue[s], out'[Other(s)] = out[Other(s)],
           ClassOf(s)' = ClassOf(s)
    PROVE  Forwards(s)
  BY StillMoved DEF Forwards, Waiting

LEMMA IdleForwards ==
    ASSUME AgreeInv, Waiting, UNCHANGED <<read, slot, queue, out, up, down>>
    PROVE  \A s \in Side : Forwards(s)
  BY StillForwards DEF ClassOf

\* The peers relay nothing; they change what is unread.
LEMMA PeersForwards ==
    ASSUME AgreeInv, Waiting, Peers
    PROVE  Steady /\ \A s \in Side : Forwards(s)
<1>1. CASE App \/ Origin
  <2>1. PICK s \in Side, units \in Seq(Kind) : Write(s, units)
    BY <1>1, PeerWrites
  <2>2. Steady
    BY <2>1, SteadyWrites
  <2>3. UNCHANGED <<read, slot, queue, out, up, down>>
    BY <2>1 DEF Write, serverVars, inputVars, clientVars
  <2> QED
    BY <2>2, <2>3, IdleForwards
<1>2. ASSUME NEW s \in Side, PeerClose(s) PROVE Steady /\ \A t \in Side : Forwards(t)
  <2>1. UNCHANGED <<plan, manners, sent, read, slot, queue, out, up, down>>
    BY <1>2 DEF PeerClose, serverVars, inputVars, clientVars
  <2> QED
    BY <2>1, SteadyKeeps, IdleForwards
<1> QED
  BY <1>1, <1>2 DEF Peers

LEMMA IdlesForward ==
    ASSUME AgreeInv, Waiting, on_read \/ removeSocket \/ UpPlaneDone \/ DownPlaneDone \/ UNCHANGED vars
    PROVE  Steady /\ \A s \in Side : Forwards(s)
<1>1. UNCHANGED <<plan, manners, sent, read, slot, queue, out, up, down>>
  BY DEF on_read, removeSocket, UpPlaneDone, DownPlaneDone, vars, peerVars, serverVars, inputVars, clientVars
<1> QED
  BY <1>1, SteadyKeeps, IdleForwards

\* The preface meets a session that has taken nothing.
LEMMA ReadcbForwards ==
    ASSUME AgreeInv, Turns, Waiting, readcb
    PROVE  Steady /\ \A s \in Side : Forwards(s)
<1>1. /\ UNCHANGED <<plan, manners, sent, read, queue, out, down>> /\ signalled["up"]
      /\ \/ UNCHANGED <<up, slot>>
         \/ /\ NextUnit("up") \in {"preface", "preface1"} /\ up' = "http2"
            /\ slot' = [slot EXCEPT !["up"] = IF up = "http2" THEN @ ELSE NoMessage]
  BY DEF readcb, peerVars, inputVars, clientVars
<1>2. "up" \in Side /\ "down" \in Side /\ slot \in [Side -> Message]
  BY SideNames DEF AgreeInv, TypeInv, TypeOK
<1>3. CASE UNCHANGED <<up, slot>>
  BY <1>1, <1>3, SteadyKeeps, IdleForwards
<1>4. CASE /\ NextUnit("up") \in {"preface", "preface1"} /\ up' = "http2"
           /\ slot' = [slot EXCEPT !["up"] = IF up = "http2" THEN @ ELSE NoMessage]
  <2>1. slot' = slot
    <3>1. CASE up = "http2"
      BY <1>2, <1>4, <3>1
    <3>2. CASE up # "http2"
      <4>1. read["up"] + 1 \in DOMAIN sent["up"]
        <5>1. read["up"] < Len(sent["up"])
          BY <1>1, <1>2 DEF AgreeInv, Signals
        <5>2. DOMAIN sent["up"] = 1..Len(sent["up"]) /\ Len(sent["up"]) \in Nat /\ read["up"] \in Nat
          BY <1>2, SideTypes DEF AgreeInv
        <5> QED
          BY <5>1, <5>2
      <4>2. plan = "direct"
        BY <1>4, <3>2, <4>1 DEF AgreeInv, AppKinds, NextUnit
      <4>3. slot["up"] = NoMessage
        BY <1>2, <4>2 DEF Waiting
      <4> QED
        BY <1>2, <1>4, <3>2, <4>3
    <3> QED
      BY <3>1, <3>2
  <2>2. /\ ClassOf("up")' = "http2" /\ ClassOf("down")' = ClassOf("down")
        /\ \A s \in Side : s = "up" \/ s = "down"
    BY <1>1, <1>4 DEF ClassOf, Side
  <2>3. \A s \in Side : Moved(s)
    BY <1>1, <2>1, StillMoved
  <2>4. \A s \in Side : ClassOf(s)' # "http2" => queue'[s] = <<>>
    BY <1>1, <1>2, <2>2 DEF Waiting
  <2> QED
    BY <1>1, <2>1, <2>3, <2>4, SteadyKeeps DEF Forwards
<1> QED
  BY <1>1, <1>3, <1>4

LEMMA OneTaken ==
    ASSUME AgreeInv, NEW s \in Side, read'[s] = read[s] + 1
    PROVE  New(s) = <<read[s] + 1>> /\ New(s) \in Seq(Nat) /\ read[s] \in Nat
<1>1. read[s] \in Nat
  BY LineParts
<1> QED
  BY <1>1 DEF New

\* The preface goes no further.
LEMMA PrefaceMoved ==
    ASSUME AgreeInv, NEW s \in Side, UNCHANGED <<sent, slot, queue, out>>,
           read'[s] = read[s] + 1, sent[s][read[s] + 1] = "preface"
    PROVE  Moved(s)
<1>1. New(s) = <<read[s] + 1>> /\ New(s) \in Seq(Nat) /\ read[s] \in Nat /\ Line(s) \in Seq(Nat)
      /\ All(s) \in Seq(Nat)
  BY OneTaken, LineParts
<1>2. All(s)' = All(s) /\ Line(s)' = Line(s)
  BY DEF All, Loads, Queued, Line
<1>3. ASSUME NEW t \in Channels PROVE Only(Line(s)', Owed(s, t)') = Only(Line(s) \o New(s), Owed(s, t)')
  <2> DEFINE E == Owed(s, t)'
             n == read[s] + 1
  <2>1. n \notin E
    BY DEF Owed, On, CarriedOn, Framed
  <2> HIDE DEF E
  <2>2. Only(New(s), E) = <<>>
    BY <1>1, <2>1, OnlyOne
  <2>3. Only(Line(s) \o New(s), E) = Only(Line(s), E) \o Only(New(s), E)
    BY <1>1, OnlyParts
  <2>4. Only(Line(s), E) \in Seq(Nat)
    BY <1>1, OnlyTyped
  <2>5. Only(Line(s), E) \o <<>> = Only(Line(s), E)
    BY <2>4, Joins
  <2> QED
    BY <1>2, <2>2, <2>3, <2>5 DEF E
<1>4. All(s)' = All(s) \o <<>> /\ <<>> \in Seq(Nat)
  <2>1. All(s) \o <<>> = All(s)
    BY <1>1, Joins
  <2> QED
    BY <1>2, <2>1
<1>5. GivesNone(<<>>, Keeping(s)')
  BY NothingGiven
<1> QED
  BY <1>3, <1>4, <1>5 DEF Moved

\* Orderly applications write the preface whole.
LEMMA PrefaceForwards ==
    ASSUME AgreeInv, Turns, Waiting, TakePreface
    PROVE  Steady /\ \A s \in Side : Forwards(s)
<1>1. /\ UNCHANGED <<plan, manners, sent, slot, queue, out, up, down>> /\ Taking("up", "http2")
  BY DEF TakePreface, peerVars, serverVars, clientVars
<1>2. PICK k \in {0, 1, 2} :
             /\ read["up"] + k <= Len(sent["up"])
             /\ k = 1 => sent["up"][read["up"] + 1] = "preface"
             /\ k = 2 => sent["up"][read["up"] + 1] = "preface1"
             /\ read' = [read EXCEPT !["up"] = @ + k]
  <2>1. TypeInv
    BY DEF AgreeInv
  <2> QED
    BY <2>1, PrefaceTaken
<1>3. /\ "up" \in Side /\ "down" \in Side /\ \A s \in Side : s = "up" \/ s = "down"
      /\ read \in [Side -> Nat] /\ DOMAIN sent["up"] = 1..Len(sent["up"]) /\ Len(sent["up"]) \in Nat
  BY SideTypes DEF Side, AgreeInv, TypeInv, TypeOK
<1>4. k # 2
  <2>1. ASSUME k = 2 PROVE FALSE
    <3>1. read["up"] + 1 \in DOMAIN sent["up"]
      BY <1>2, <1>3, <2>1
    <3> QED
      BY <1>2, <2>1, <3>1 DEF Turns, UpKinds
  <2> QED
    BY <2>1
<1>5. read'["up"] = read["up"] + k /\ read'["down"] = read["down"]
  BY <1>2, <1>3
<1>6. Moved("down")
  BY <1>1, <1>3, <1>5, StillMoved
<1>7. Moved("up")
  <2>1. CASE k = 0
    <3>1. read'["up"] = read["up"]
      BY <1>3, <1>5, <2>1
    <3> QED
      BY <1>1, <1>3, <3>1, StillMoved
  <2>2. CASE k = 1
    BY <1>1, <1>2, <1>3, <1>5, <2>2, PrefaceMoved
  <2> QED
    BY <1>4, <2>1, <2>2
<1>8. \A s \in Side : ClassOf(s)' # "http2" => queue'[s] = <<>>
  BY <1>1 DEF ClassOf, Waiting
<1> QED
  BY <1>1, <1>3, <1>6, <1>7, <1>8, SteadyKeeps DEF Forwards

\* A frame is queued, the SETTINGS frame before all others.
LEMMA FrameForwards ==
    ASSUME AgreeInv, Turns, Waiting, SettingsFirst, NEW s \in Side, TakeFrame(s)
    PROVE  Steady /\ \A t \in Side : Forwards(t)
<1> DEFINE n == read[s] + 1
           f == <<n>>
           q == Queued(s)
           a == All(s)
<1>1. /\ UNCHANGED <<plan, manners, sent, slot, out, up, down>> /\ Taking(s, "http2") /\ Take(s)
      /\ queue' = [queue EXCEPT ![s] = IF NextUnit(s) = "settings" THEN <<f>> \o @ ELSE Append(@, f)]
  BY DEF TakeFrame, peerVars, serverVars, clientVars
<1>2. /\ queue \in [Side -> Seq(Seq(Nat))] /\ queue[s] \in Seq(Seq(Nat)) /\ read[s] \in Nat
      /\ a \in Seq(Nat) /\ q \in Seq(Nat) /\ Line(s) \in Seq(Nat) /\ a \in Seq(1..read[s])
      /\ q \in Seq(1..read[s])
  BY LineParts, LineTyped, SideTypes DEF AgreeInv, TypeInv, TypeOK
<1>3. read'[s] = read[s] + 1 /\ \A t \in Side : t # s => read'[t] = read[t]
  BY <1>1, TakeReads DEF AgreeInv
<1>4. /\ queue'[s] = IF NextUnit(s) = "settings" THEN <<f>> \o queue[s] ELSE Append(queue[s], f)
      /\ \A t \in Side : t # s => queue'[t] = queue[t]
  BY <1>1, <1>2
<1>5. New(s) = f /\ f \in Seq(Nat) /\ <<f>> \in Seq(Seq(Nat))
  BY <1>3, OneTaken
<1>6. ClassOf(s) = "http2" /\ slot[s] = NoMessage
  BY <1>1 DEF Taking, Waiting
<1>7. slot[s].units = <<>> /\ slot'[s].units = <<>>
  BY <1>1, <1>6, SideNames
<1>8. All(s)' = a
  BY <1>1 DEF All, Loads
<1>9. Queued(s)' = IF NextUnit(s) = "settings" THEN f \o q ELSE q \o f
  <2>1. FlattenSeq(<<f>>) = f
    BY <1>5, FlattenOne
  <2>2. FlattenSeq(<<f>> \o queue[s]) = FlattenSeq(<<f>>) \o FlattenSeq(queue[s])
    BY <1>2, <1>5, FlattenConcat
  <2>3. FlattenSeq(queue[s] \o <<f>>) = FlattenSeq(queue[s]) \o FlattenSeq(<<f>>)
    BY <1>2, <1>5, FlattenConcat
  <2>4. Append(queue[s], f) = queue[s] \o <<f>>
    BY <1>2, <1>5, AppendIsConcat
  <2>5. Queued(s)' = FlattenSeq(queue'[s]) /\ q = FlattenSeq(queue[s])
    BY DEF Queued
  <2> HIDE DEF f, q
  <2> QED
    BY <1>4, <2>1, <2>2, <2>3, <2>4, <2>5
<1>10. Line(s)' = a \o (<<>> \o Queued(s)') /\ Line(s) = a \o (<<>> \o q)
  BY <1>7, <1>8 DEF Line
<1> HIDE DEF a, q, f
<1>11. Line(s) = a \o q /\ Line(s) \o f = a \o (q \o f)
  <2>1. <<>> \o q = q
    BY <1>2, Joins
  <2>2. Line(s) = a \o q
    BY <1>10, <2>1
  <2>3. (a \o q) \o f = a \o (q \o f)
    <3>1. a \in Seq(Nat) /\ q \in Seq(Nat) /\ f \in Seq(Nat)
      BY <1>2, <1>5
    <3> QED
      BY <3>1, Associates, SMTT(30)
  <2> QED
    BY <2>2, <2>3
<1>12. ASSUME NEW t \in Channels PROVE Only(Line(s)', Owed(s, t)') = Only(Line(s) \o New(s), Owed(s, t)')
  <2>1. CASE NextUnit(s) # "settings"
    <3>1. Line(s)' = a \o (q \o f)
      BY <1>2, <1>5, <1>9, <1>10, <2>1, Joins, SMTT(30)
    <3> QED
      BY <1>5, <1>11, <3>1
  <2>2. CASE NextUnit(s) = "settings"
    <3> DEFINE E == Owed(s, t)'
    <3>1. Line(s)' = a \o (f \o q)
      <4>1. f \o q \in Seq(Nat)
        BY <1>2, <1>5, Joins
      <4> QED
        BY <1>9, <1>10, <2>2, <4>1, Joins
    <3>2. Only(f, E) = <<>> \/ Only(q, E) = <<>>
      <4>1. CASE n \notin E
        BY <1>2, <4>1, OnlyOne DEF f
      <4>2. CASE n \in E
        <5>1. t = "frames"
          BY <1>1, <2>2, <4>2 DEF Owed, On, CarriedOn, Framed, NextUnit, Channels
        <5>2. ASSUME NEW i \in DOMAIN q PROVE q[i] \notin E
          <6>1. q[i] \in 1..read[s]
            BY <1>2, <5>2
          <6>2. q[i] \in E => q[i] \in DOMAIN sent[s] /\ sent[s][q[i]] \in Framed
            BY <1>1, <5>1 DEF Owed, On, CarriedOn
          <6>3. n \in DOMAIN sent[s] /\ sent[s][n] = "settings"
            BY <1>1, <2>2, <4>2 DEF Owed, On, NextUnit
          <6>4. q[i] \in E => n <= q[i]
            BY <6>2, <6>3 DEF SettingsFirst
          <6> QED
            BY <1>2, <6>1, <6>4
        <5> QED
          BY <1>2, <5>2, OnlyNothing
      <4> QED
        BY <4>1, <4>2
    <3> HIDE DEF E
    <3>3. /\ Only(a, E) \in Seq(Nat) /\ Only(f, E) \in Seq(Nat) /\ Only(q, E) \in Seq(Nat)
          /\ f \o q \in Seq(Nat) /\ q \o f \in Seq(Nat)
      BY <1>2, <1>5, OnlyParts, Joins
    <3>4. Only(f \o q, E) = Only(f, E) \o Only(q, E) /\ Only(q \o f, E) = Only(q, E) \o Only(f, E)
      BY <1>2, <1>5, OnlyParts
    <3>5. Only(f \o q, E) = Only(q \o f, E)
      <4>1. <<>> \o Only(q, E) = Only(q, E) /\ Only(q, E) \o <<>> = Only(q, E)
        BY <3>3, Joins
      <4>2. <<>> \o Only(f, E) = Only(f, E) /\ Only(f, E) \o <<>> = Only(f, E)
        BY <3>3, Joins
      <4> QED
        BY <3>2, <3>4, <4>1, <4>2
    <3>6. Only(a \o (f \o q), E) = Only(a, E) \o Only(f \o q, E)
      BY <1>2, <3>3, OnlyParts
    <3>7. Only(a \o (q \o f), E) = Only(a, E) \o Only(q \o f, E)
      BY <1>2, <3>3, OnlyParts
    <3> QED
      BY <1>5, <1>11, <3>1, <3>5, <3>6, <3>7 DEF E
  <2> QED
    BY <2>1, <2>2
<1>13. Moved(s)
  <2>1. All(s)' = All(s) \o <<>> /\ <<>> \in Seq(Nat)
    BY <1>2, <1>8, Joins DEF a
  <2>2. GivesNone(<<>>, Keeping(s)')
    BY NothingGiven
  <2> QED
    BY <1>3, <1>12, <2>1, <2>2 DEF Moved
<1>14. \A t \in Side : ClassOf(t)' = ClassOf(t)
  BY <1>1 DEF ClassOf
<1>15. Forwards(s)
  BY <1>1, <1>6, <1>13, <1>14 DEF Forwards
<1>16. \A t \in Side : t # s => Forwards(t)
  BY <1>1, <1>3, <1>4, <1>14, StillForwards
<1> QED
  BY <1>1, <1>15, <1>16, SteadyKeeps

\* Bytes are copied as they are read.
LEMMA CopyForwards ==
    ASSUME AgreeInv, Turns, Waiting, NEW s \in Side, CopyBytes(s)
    PROVE  Steady /\ \A t \in Side : Forwards(t)
<1> DEFINE n == read[s] + 1
           f == <<n>>
           w == [kind |-> "raw", of |-> f]
           a == All(s)
<1>1. /\ UNCHANGED <<plan, manners, sent, slot, queue, up, down>> /\ Taking(s, "plane") /\ Take(s)
      /\ write(Other(s), <<w>>)
  BY DEF CopyBytes, peerVars, serverVars, clientVars
<1>2. read[s] \in Nat /\ a \in Seq(Nat) /\ Line(s) \in Seq(Nat)
  BY LineParts
<1>3. read'[s] = read[s] + 1 /\ \A t \in Side : t # s => read'[t] = read[t]
  BY <1>1, TakeReads DEF AgreeInv
<1>4. New(s) = f /\ f \in Seq(Nat)
  BY <1>3, OneTaken
<1>5. ClassOf(s) = "plane" /\ slot[s] = NoMessage /\ queue[s] = <<>>
  BY <1>1 DEF Taking, Waiting
<1>6. slot[s].units = <<>> /\ slot'[s].units = <<>> /\ Queued(s) = <<>> /\ Queued(s)' = <<>>
  <2>1. Queued(s) = <<>>
    BY <1>5, LineParts
  <2> QED
    BY <1>1, <1>5, <2>1, SideNames DEF Queued
<1>7. w \in Written /\ <<w>> \in Seq(Written) /\ w.of = f
  BY <1>4 DEF Written
<1>8. FlattenSeq(Loads(<<w>>)) = f
  BY <1>7, LoadsOne
<1>9. /\ All(s)' = a \o f
      /\ \A t \in Side : t # s => out'[Other(t)] = out[Other(t)]
  <2>1. out' = [out EXCEPT ![Other(s)] = @ \o <<w>>]
    BY <1>1 DEF write
  <2> QED
    BY <1>7, <1>8, <2>1, WroteAll
<1>10. Line(s)' = All(s)' \o (<<>> \o <<>>) /\ Line(s) = a \o (<<>> \o <<>>)
  BY <1>6 DEF Line
<1>11. GivesNone(f, Keeping(s)')
  <2>1. n \in read[s] + 1..Len(sent[s]) /\ n \in DOMAIN sent[s]
    <3>1. read[s] < Len(sent[s]) /\ Len(sent[s]) \in Nat /\ DOMAIN sent[s] = 1..Len(sent[s])
      BY <1>1, SideTypes DEF Taking, AgreeInv
    <3> QED
      BY <1>2, <3>1
  <2>2. ClassFor(sent[s][n]) = "plane"
    BY <1>5, <2>1 DEF Turns, Unread
  <2>3. sent[s][n] \notin {"begin", "rest"}
    BY <2>2 DEF ClassFor
  <2>4. n \notin Keeping(s)'
    BY <1>1, <2>3 DEF Keeping, Kept
  <2> QED
    BY <2>4 DEF GivesNone
<1>16. \A t \in Side : ClassOf(t)' = ClassOf(t)
  BY <1>1 DEF ClassOf
<1> HIDE DEF a, f
<1>12. <<>> \o <<>> = <<>> /\ a \o <<>> = a /\ (a \o f) \o <<>> = a \o f
  <2>1. a \o f \in Seq(Nat) /\ a \o <<>> = a
    BY <1>2, <1>4, Joins
  <2>2. (a \o f) \o <<>> = a \o f
    BY <2>1, Joins
  <2> QED
    BY <2>1, <2>2
<1>13. Line(s)' = Line(s) \o New(s)
  BY <1>4, <1>9, <1>10, <1>12
<1>14. Moved(s)
  BY <1>3, <1>4, <1>9, <1>11, <1>13, ExactMoved DEF a
<1>15. Forwards(s)
  BY <1>1, <1>5, <1>14 DEF Forwards
<1>17. \A t \in Side : t # s => Forwards(t)
  BY <1>1, <1>3, <1>9, <1>16, StillForwards
<1> QED
  BY <1>1, <1>15, <1>17, SteadyKeeps

\* The parser of an HTTP/1 session fills the slot.
LEMMA ParseForwards ==
    ASSUME AgreeInv, Turns, Waiting, NEW s \in Side,
           ParseBegin(s) \/ ParseRest(s) \/ ParseShort(s) \/ ParseError(s)
    PROVE  Steady /\ \A t \in Side : Forwards(t)
<1> DEFINE n == read[s] + 1
           f == <<n>>
           b == slot[s].units
           a == All(s)
<1>1. Taking(s, "http1") /\ UNCHANGED <<plan, manners, sent, queue, out, up, down>>
  BY ParseSteps DEF peerVars, serverVars
<1>2. /\ ~ParseError(s) /\ plan # "direct"
      /\ Taking(s, "http1") /\ Take(s)
  <2>1. ~ParseError(s) /\ plan # "direct"
    BY <1>1, NoParseError, Meets
  <2> QED
    BY <1>1, <2>1 DEF ParseBegin, ParseRest, ParseShort
<1>3. /\ slot[s] \in Message /\ b \in Seq(Nat) /\ read[s] \in Nat /\ a \in Seq(Nat)
      /\ Line(s) \in Seq(Nat) /\ msg_begin(s) \in Message /\ NextUnit(s) \in Kind
      /\ msg_complete(s, slot[s]) \in Message /\ msg_complete(s, msg_begin(s)) \in Message
  <2>1. /\ slot[s] \in Message /\ b \in Seq(Nat) /\ read[s] \in Nat /\ a \in Seq(Nat)
        /\ Line(s) \in Seq(Nat)
    BY SideTypes, LineParts DEF AgreeInv
  <2>2. msg_begin(s) \in Message
    BY <2>1, SlotTypes DEF AgreeInv
  <2> QED
    BY <2>1, <2>2, SlotTypes, TakenUnit, <1>1 DEF AgreeInv, NextUnit
<1>4. slot'[s].units = Append(b, n) /\ \A t \in Side : t # s => slot'[t] = slot[t]
  <2>1. CASE ParseBegin(s)
    <3>1. Fed(s, msg_begin(s))
      BY <1>1, <2>1, FedBegin DEF ParseBegin
    <3>2. slot' = [slot EXCEPT ![s] = msg_begin(s)]
      BY <2>1 DEF ParseBegin
    <3>3. slot'[s] = msg_begin(s) /\ \A t \in Side : t # s => slot'[t] = slot[t]
      BY <1>3, <3>2, Slots DEF AgreeInv
    <3> QED
      BY <3>1, <3>3 DEF Fed
  <2>2. CASE ParseRest(s)
    <3>1. Fed(s, msg_complete(s, slot[s]))
      BY <1>1, <2>2, FedComplete DEF ParseRest
    <3>2. slot' = [slot EXCEPT ![s] = msg_complete(s, slot[s])]
      BY <2>2 DEF ParseRest
    <3>3. slot'[s] = msg_complete(s, slot[s]) /\ \A t \in Side : t # s => slot'[t] = slot[t]
      BY <1>3, <3>2, Slots DEF AgreeInv
    <3> QED
      BY <3>1, <3>3 DEF Fed
  <2>3. CASE ParseShort(s)
    <3>1. s # "up"
      <4>1. read[s] + 1 \in DOMAIN sent[s] /\ sent[s][read[s] + 1] \in {"100", "101"}
        BY <1>1, <2>3, TakenUnit DEF ParseShort, NextUnit, AgreeInv
      <4> QED
        BY <4>1 DEF AgreeInv, AppKinds
    <3>2. Fed(s, msg_complete(s, msg_begin(s)))
      BY <1>1, <3>1, FedShort
    <3>3. slot' = [slot EXCEPT ![s] = msg_complete(s, msg_begin(s))]
      BY <2>3 DEF ParseShort
    <3>4. slot'[s] = msg_complete(s, msg_begin(s)) /\ \A t \in Side : t # s => slot'[t] = slot[t]
      BY <1>3, <3>3, Slots DEF AgreeInv
    <3> QED
      BY <3>2, <3>4 DEF Fed
  <2> QED
    BY <1>2, <2>1, <2>2, <2>3
<1>5. read'[s] = read[s] + 1 /\ \A t \in Side : t # s => read'[t] = read[t]
  BY <1>2, TakeReads DEF AgreeInv
<1>6. New(s) = f /\ f \in Seq(Nat)
  BY <1>5, OneTaken
<1>7. queue[s] = <<>> /\ Queued(s) = <<>> /\ Queued(s)' = <<>>
  <2>1. queue[s] = <<>>
    BY <1>1 DEF Taking, Waiting
  <2>2. Queued(s) = <<>>
    BY <2>1, LineParts
  <2> QED
    BY <1>1, <2>1, <2>2 DEF Queued
<1>8. slot'[s].units = b \o f
  <2>1. Append(b, n) = b \o <<n>>
    <3>1. b \in Seq(Nat) /\ n \in Nat
      BY <1>3
    <3> HIDE DEF b, n
    <3> QED
      BY <3>1, AppendIsConcat
  <2> QED
    BY <1>4, <2>1
<1>9. All(s)' = a
  BY <1>1 DEF All, Loads
<1>10. Line(s)' = a \o ((b \o f) \o <<>>) /\ Line(s) = a \o (b \o <<>>)
  BY <1>7, <1>8, <1>9 DEF Line
<1>11. \A t \in Side : ClassOf(t)' = ClassOf(t)
  BY <1>1 DEF ClassOf
<1> HIDE DEF a, b, f
<1>12. Line(s)' = Line(s) \o New(s)
  <2>1. a \in Seq(Nat) /\ b \in Seq(Nat) /\ f \in Seq(Nat)
    BY <1>3, <1>6
  <2>2. b \o f \in Seq(Nat) /\ b \o <<>> = b
    BY <2>1, Joins
  <2>3. (b \o f) \o <<>> = b \o f
    BY <2>2, Joins
  <2>4. (a \o b) \o f = a \o (b \o f)
    BY <2>1, Associates
  <2> QED
    BY <1>6, <1>10, <2>2, <2>3, <2>4
<1>13. Moved(s)
  <2>1. All(s)' = All(s) \o <<>> /\ <<>> \in Seq(Nat)
    BY <1>3, <1>9, Joins DEF a
  <2>2. GivesNone(<<>>, Keeping(s)')
    BY NothingGiven
  <2> QED
    BY <1>5, <1>12, <2>1, <2>2, ExactMoved
<1>14. Forwards(s)
  BY <1>1, <1>2, <1>7, <1>13 DEF Forwards
<1>15. \A t \in Side : t # s => Forwards(t)
  BY <1>1, <1>4, <1>5, <1>11, StillForwards
<1> QED
  BY <1>1, <1>14, <1>15, SteadyKeeps

\* Before the origin is asked for there is no HTTP/2 down session.
LEMMA NoClient ==
    ASSUME AgreeInv, client = "none"
    PROVE  down # "http2"
  BY PlanClasses DEF AgreeInv, SessionsOf

\* DoFlush of UpSessionHttp gives a whole request or nothing. A CONNECT is
\* not given: once its connection stands the session is gone.
LEMMA UpHttpForwards ==
    ASSUME AgreeInv, AgreeInv', Waiting, UpHttpDone
    PROVE  Steady /\ \A s \in Side : Forwards(s)
<1> DEFINE m == slot["up"]
           asked == CASE ~(m # NoMessage /\ sent["up"][m.units[1]] = "begin") -> "none"
                      [] (m # NoMessage /\ sent["up"][m.units[1]] = "begin") /\ m.h2 -> "both"
                      [] (m # NoMessage /\ sent["up"][m.units[1]] = "begin") /\ ~m.h2 /\ m.connect -> "plane"
                      [] (m # NoMessage /\ sent["up"][m.units[1]] = "begin") /\ ~m.h2 /\ ~m.connect -> "http1"
<1>0. /\ "up" \in Side /\ "down" \in Side /\ (\A s \in Side : s = "up" \/ s = "down")
      /\ Other("up") = "down" /\ Other("down") = "up" /\ slot \in [Side -> Message]
  BY DEF Side, Other, AgreeInv, TypeInv, TypeOK
<1>1. /\ UNCHANGED <<plan, manners, sent, read, queue, up>> /\ up = "http1"
      /\ InitClient(asked) /\ FlushRequest(slot["up"])
  BY DEF UpHttpDone, peerVars, inputVars, serverVars
<1>2. asked \in {"none", "http1", "both", "plane"}
  <2>1. m.h2 \in BOOLEAN /\ m.connect \in BOOLEAN
    BY <1>0 DEF Message
  <2> QED
    BY <2>1
<1> HIDE DEF asked
<1>3. down' = "http2" => down = "http2"
  BY <1>1, <1>2, InitClientSteps
<1>4. down = "http2" => down' = "http2"
  <2>1. CASE client # "none" \/ asked = "none"
    BY <1>1, <2>1 DEF InitClient
  <2>2. CASE client = "none"
    BY <2>2, NoClient
  <2> QED
    BY <2>1, <2>2
<1>5. \A s \in Side : ClassOf(s)' # "http2" => queue'[s] = <<>>
  BY <1>0, <1>1, <1>4 DEF ClassOf, Waiting
<1>6. CASE UNCHANGED <<out, slot>>
  <2>1. \A s \in Side : Moved(s)
    BY <1>0, <1>1, <1>6, StillMoved
  <2> QED
    BY <1>1, <1>5, <1>6, <2>1, SteadyKeeps DEF Forwards
<1>7. CASE /\ client' = "connected" /\ slot' = [slot EXCEPT !["up"] = NoMessage]
           /\ out' = [out EXCEPT !["down"] = @ \o <<Http1(slot["up"])>>]
  <2>1. plan # "connect"
    <3>1. up' # "plane"
      BY <1>1
    <3> QED
      BY <1>1, <1>7, <3>1 DEF AgreeInv, SessionsOf
  <2>2. slot'["up"] = NoMessage /\ slot'["down"] = slot["down"]
    BY <1>0, <1>7
  <2>3. queue["up"] = <<>> /\ queue'["up"] = <<>>
    BY <1>0, <1>1 DEF Waiting, ClassOf
  <2>4. Moved("up") /\ \A t \in Side : t # "up" => out'[Other(t)] = out[Other(t)]
    BY <1>0, <1>1, <1>7, <2>1, <2>2, <2>3, GivenMoved
  <2>5. Moved("down")
    BY <1>0, <1>1, <2>2, <2>4, StillMoved
  <2> QED
    BY <1>0, <1>1, <1>5, <2>2, <2>4, <2>5, SteadyKeeps DEF Forwards
<1> QED
  BY <1>1, <1>6, <1>7, FlushRequestSteps

\* DoFlush of the HTTP/2 sessions gives all of the queue or nothing.
LEMMA UpHttp2Forwards ==
    ASSUME AgreeInv, Waiting, UpHttp2Done
    PROVE  Steady /\ \A s \in Side : Forwards(s)
<1> DEFINE asked == IF \E q \in Range(queue["up"]) : sent["up"][q[1]] = "frame" THEN "http2" ELSE "none"
<1>0. /\ "up" \in Side /\ "down" \in Side /\ (\A s \in Side : s = "up" \/ s = "down")
      /\ Other("up") = "down" /\ Other("down") = "up"
  BY DEF Side, Other
<1>1. /\ UNCHANGED <<plan, manners, sent, read, slot, up>> /\ up = "http2"
      /\ InitClient(asked) /\ FlushQueue("up")
  BY DEF UpHttp2Done, peerVars, inputVars, serverVars
<1>2. asked \in {"none", "http2"}
  OBVIOUS
<1> HIDE DEF asked
<1>3. down' = down \/ down' = "http2"
  BY <1>1, <1>2, InitClientSteps
<1>4. slot["up"] = NoMessage /\ plan # "connect"
  BY <1>0, <1>1, PlanClasses DEF Waiting, ClassOf
<1>5. /\ Moved("up")
      /\ \A t \in Side : t # "up" => out'[Other(t)] = out[Other(t)] /\ queue'[t] = queue[t]
  BY <1>0, <1>1, <1>4, QueueMoved
<1>6. Moved("down")
  BY <1>0, <1>1, <1>5, StillMoved
<1>7. \A s \in Side : ClassOf(s)' # "http2" => queue'[s] = <<>>
  BY <1>0, <1>1, <1>3, <1>5 DEF ClassOf, Waiting
<1> QED
  BY <1>0, <1>1, <1>5, <1>6, <1>7, SteadyKeeps DEF Forwards

LEMMA DownHttp2Forwards ==
    ASSUME AgreeInv, Waiting, DownHttp2Done
    PROVE  Steady /\ \A s \in Side : Forwards(s)
<1>0. /\ "up" \in Side /\ "down" \in Side /\ (\A s \in Side : s = "up" \/ s = "down")
      /\ Other("up") = "down" /\ Other("down") = "up"
  BY DEF Side, Other
<1>1. /\ UNCHANGED <<plan, manners, sent, read, slot, up, down>> /\ down = "http2"
      /\ FlushQueue("down")
  BY DEF DownHttp2Done, peerVars, inputVars, serverVars, clientVars
<1>2. slot["down"] = NoMessage
  BY <1>0, <1>1 DEF Waiting, ClassOf
<1>3. /\ Moved("down")
      /\ \A t \in Side : t # "down" => out'[Other(t)] = out[Other(t)] /\ queue'[t] = queue[t]
  BY <1>0, <1>1, <1>2, QueueMoved
<1>4. Moved("up")
  BY <1>0, <1>1, <1>3, StillMoved
<1>5. \A s \in Side : ClassOf(s)' # "http2" => queue'[s] = <<>>
  BY <1>0, <1>1, <1>3 DEF ClassOf, Waiting
<1> QED
  BY <1>0, <1>1, <1>3, <1>4, <1>5, SteadyKeeps DEF Forwards

\* DoFlush of DownSessionHttp gives the response; when it was a 101 the slot
\* of the application is emptied too, in which nothing was left.
LEMMA DownHttpForwards ==
    ASSUME AgreeInv, Turns, Waiting, DownHttpDone
    PROVE  Steady /\ \A s \in Side : Forwards(s)
<1>0. /\ "up" \in Side /\ "down" \in Side /\ (\A s \in Side : s = "up" \/ s = "down")
      /\ Other("up") = "down" /\ Other("down") = "up" /\ slot \in [Side -> Message] /\ TypeInv
      /\ out["up"] \in Seq(Written) /\ slot["down"] \in Message
  BY SideTypes DEF Side, Other, AgreeInv, TypeInv, TypeOK
<1>1. /\ ReadEnds("down") /\ down = "http1" /\ UNCHANGED <<plan, manners, sent, read, queue>>
      /\ \/ UNCHANGED <<out, slot, up, down>>
         \/ /\ slot["down"] # NoMessage
            /\ \/ slot["down"].stat # "COMPLETE" /\ UNCHANGED out
               \/ /\ slot["down"].stat = "COMPLETE"
                  /\ out' = [out EXCEPT !["up"] = Append(@, Http1(slot["down"]))]
            /\ \/ switching # "" /\ SwitchSessions
               \/ /\ UNCHANGED <<down, up>>
                  /\ \/ slot["down"].stat # "COMPLETE" /\ UNCHANGED slot
                     \/ /\ slot["down"].stat = "COMPLETE"
                        /\ slot' = [slot EXCEPT !["down"] = NoMessage]
  BY <1>0, DownHttpSteps DEF peerVars, inputVars
<1>2. Exchanging /\ up = "http1"
  <2>1. client = "connected"
    BY <1>1 DEF ReadEnds, AgreeInv, SessionsOf
  <2>2. plan \in {"get", "connect", "h2c", "other", "direct"}
    BY PlanClasses
  <2> QED
    BY <1>1, <2>1, <2>2 DEF Exchanging, AgreeInv, SessionsOf
<1>3. queue["up"] = <<>> /\ queue["down"] = <<>> /\ queue'["up"] = <<>> /\ queue'["down"] = <<>>
  BY <1>0, <1>1, <1>2 DEF Waiting, ClassOf
<1>4. CASE UNCHANGED <<out, slot>>
  <2>1. \A s \in Side : Moved(s)
    BY <1>1, <1>4, StillMoved
  <2> QED
    BY <1>0, <1>1, <1>3, <1>4, <2>1, SteadyKeeps DEF Forwards
<1>5. CASE /\ slot["down"].stat = "COMPLETE" /\ slot'["down"] = NoMessage /\ slot'["up"] = slot["up"]
           /\ out' = [out EXCEPT !["up"] = Append(@, Http1(slot["down"]))]
  <2>1. out' = [out EXCEPT ![Other("down")] = @ \o <<Http1(slot["down"])>>]
    <3>1. Http1(slot["down"]) \in Written
      BY <1>0 DEF Http1, Message, Written
    <3>2. Append(out["up"], Http1(slot["down"])) = out["up"] \o <<Http1(slot["down"])>>
      BY <1>0, <3>1, AppendIsConcat
    <3> QED
      BY <1>0, <1>5, <3>2
  <2>2. Moved("down") /\ \A t \in Side : t # "down" => out'[Other(t)] = out[Other(t)]
    BY <1>0, <1>1, <1>3, <1>5, <2>1, GivenMoved
  <2>3. Moved("up")
    BY <1>0, <1>1, <1>3, <1>5, <2>2, StillMoved
  <2> QED
    BY <1>0, <1>1, <1>3, <1>5, <2>2, <2>3, SteadyKeeps DEF Forwards
<1>6. switching # "" => slot["up"] = NoMessage /\ slot["down"].stat = "COMPLETE"
  BY <1>1, <1>2, SwitchQuiet DEF Quiet
<1>7. SwitchSessions => slot'["down"] = NoMessage /\ slot'["up"] = NoMessage
  BY <1>0 DEF SwitchSessions
<1>8. slot' = [slot EXCEPT !["down"] = NoMessage] => slot'["down"] = NoMessage /\ slot'["up"] = slot["up"]
  BY <1>0
<1> QED
  BY <1>1, <1>4, <1>5, <1>6, <1>7, <1>8

\* switchinghttp2 moves the request of the slot to the queue.
LEMMA ConnectedH2Forwards ==
    ASSUME AgreeInv, Waiting, ConnectedH2
    PROVE  Steady /\ \A s \in Side : Forwards(s)
<1> DEFINE a == All("up")
           b == slot["up"].units
<1>0. /\ "up" \in Side /\ "down" \in Side /\ (\A s \in Side : s = "up" \/ s = "down")
      /\ Other("up") = "down" /\ Other("down") = "up" /\ slot \in [Side -> Message]
      /\ queue \in [Side -> Seq(Seq(Nat))]
  BY DEF Side, Other, AgreeInv, TypeInv, TypeOK
<1>1. /\ UNCHANGED <<plan, manners, sent, read>> /\ down' = "http2"
      /\ \/ /\ up = "http1" /\ slot["up"].h2 /\ up' = "http2"
            /\ queue' = [queue EXCEPT !["up"] = <<slot["up"].units>>]
            /\ slot' = [slot EXCEPT !["up"] = NoMessage]
            /\ write("up", <<Own("101")>>)
         \/ up = "http2" /\ FlushQueue("up") /\ UNCHANGED <<up, slot>>
         \/ up # "http2" /\ UNCHANGED <<up, slot, queue, out>>
  BY ConnectedH2Steps DEF peerVars, inputVars
<1>2. CASE /\ up = "http1" /\ slot["up"].h2 /\ up' = "http2"
           /\ queue' = [queue EXCEPT !["up"] = <<slot["up"].units>>]
           /\ slot' = [slot EXCEPT !["up"] = NoMessage]
           /\ write("up", <<Own("101")>>)
  <2>1. /\ slot'["up"] = NoMessage /\ slot'["down"] = slot["down"]
        /\ queue'["up"] = <<b>> /\ queue'["down"] = queue["down"]
    BY <1>0, <1>2
  <2>2. Moved("down") /\ out'["down"] = out["down"]
    BY <1>1, <1>2, <2>1, OwnMoved
  <2>3. All("up")' = a
    BY <1>0, <2>2 DEF All, Loads
  <2>4. a \in Seq(Nat) /\ b \in Seq(Nat) /\ Queued("up") = <<>> /\ Line("up") \in Seq(Nat)
    <3>1. queue["up"] = <<>>
      BY <1>0, <1>2 DEF Waiting, ClassOf
    <3> QED
      BY <1>0, <3>1, LineParts
  <2>5. Queued("up")' = b
    <3>1. FlattenSeq(<<b>>) = b
      BY <2>4, FlattenOne
    <3> QED
      BY <2>1, <3>1 DEF Queued
  <2>6. Line("up")' = a \o (<<>> \o b) /\ Line("up") = a \o (b \o <<>>)
    BY <2>1, <2>3, <2>4, <2>5, SideNames DEF Line
  <2> HIDE DEF a, b
  <2>7. Line("up")' = Line("up") \o New("up")
    <3>1. <<>> \o b = b /\ b \o <<>> = b
      BY <2>4, Joins
    <3>2. Line("up")' = Line("up")
      BY <2>6, <3>1
    <3>3. Line("up") \o <<>> = Line("up")
      BY <2>4, Joins
    <3>4. New("up") = <<>>
      BY <1>1 DEF New
    <3> QED
      BY <3>2, <3>3, <3>4
  <2>8. Moved("up")
    <3>1. All("up")' = All("up") \o <<>> /\ <<>> \in Seq(Nat)
      BY <2>3, <2>4, Joins DEF a
    <3>2. GivesNone(<<>>, Keeping("up")')
      BY NothingGiven
    <3> QED
      BY <1>0, <1>1, <2>7, <3>1, <3>2, ExactMoved
  <2>9. \A s \in Side : ClassOf(s)' = "http2"
    BY <1>1, <1>2 DEF ClassOf
  <2> QED
    BY <1>0, <1>1, <2>1, <2>2, <2>8, <2>9, SteadyKeeps DEF Forwards
<1>3. CASE up = "http2" /\ FlushQueue("up") /\ UNCHANGED <<up, slot>>
  <2>1. slot["up"] = NoMessage /\ plan # "connect"
    BY <1>0, <1>3, PlanClasses DEF Waiting, ClassOf
  <2>2. /\ Moved("up")
        /\ \A t \in Side : t # "up" => out'[Other(t)] = out[Other(t)] /\ queue'[t] = queue[t]
    BY <1>0, <1>1, <1>3, <2>1, QueueMoved
  <2>3. Moved("down")
    BY <1>0, <1>1, <1>3, <2>2, StillMoved
  <2>4. \A s \in Side : ClassOf(s)' = "http2"
    BY <1>1, <1>3 DEF ClassOf
  <2> QED
    BY <1>0, <1>1, <1>3, <2>2, <2>3, <2>4, SteadyKeeps DEF Forwards
<1>4. CASE up # "http2" /\ UNCHANGED <<up, slot, queue, out>>
  <2>1. \A s \in Side : Moved(s)
    BY <1>1, <1>4, StillMoved
  <2>2. \A s \in Side : ClassOf(s)' # "http2" => queue'[s] = <<>>
    BY <1>0, <1>1, <1>4 DEF Waiting, ClassOf
  <2> QED
    BY <1>1, <1>4, <2>1, <2>2, SteadyKeeps DEF Forwards
<1> QED
  BY <1>1, <1>2, <1>3, <1>4

\* A GOAWAY of the proxy carries nothing.
LEMMA RefusedForwards ==
    ASSUME AgreeInv, Waiting, Refused
    PROVE  Steady /\ \A s \in Side : Forwards(s)
<1>0. /\ "up" \in Side /\ "down" \in Side /\ (\A s \in Side : s = "up" \/ s = "down")
      /\ Other("up") = "down" /\ Other("down") = "up"
  BY DEF Side, Other
<1>1. /\ UNCHANGED <<plan, manners, sent, read, slot, queue, up, down>>
      /\ write("up", <<Own("goaway")>>)
  BY DEF Refused, peerVars, inputVars, serverVars
<1>2. Moved("down") /\ out'["down"] = out["down"]
  BY <1>1, OwnMoved
<1>3. Moved("up")
  BY <1>0, <1>1, <1>2, StillMoved
<1>4. \A s \in Side : ClassOf(s)' # "http2" => queue'[s] = <<>>
  BY <1>1 DEF ClassOf, Waiting
<1> QED
  BY <1>0, <1>1, <1>2, <1>3, <1>4, SteadyKeeps DEF Forwards

\* The CONNECT goes no further.
LEMMA ConnectMoved ==
    ASSUME AgreeInv, Turns, Waiting, UNCHANGED <<plan, manners, sent, read, queue>>,
           handler = "idle", up = "http1", slot["up"].connect, slot'["up"] = NoMessage,
           out'["down"] = out["down"]
    PROVE  Moved("up")
<1> DEFINE a == All("up")
           b == slot["up"].units
<1>0. /\ "up" \in Side /\ Other("up") = "down" /\ TypeInv /\ slot["up"] # NoMessage
      /\ plan = "connect" /\ UpTurn
  <2>1. "up" \in Side /\ Other("up") = "down" /\ TypeInv /\ SlotKinds /\ UpTurn
    BY DEF Side, Other, AgreeInv, Turns
  <2>2. plan = "connect"
    BY <2>1 DEF SlotKinds
  <2>3. NoMessage.connect = FALSE
    BY DEF NoMessage
  <2>4. slot["up"] # NoMessage
    BY <2>3
  <2> QED
    BY <2>1, <2>2, <2>4
<1>1. /\ read["up"] \in Nat /\ a \in Seq(Nat) /\ b \in Seq(Nat) /\ Queued("up") = <<>>
      /\ Queued("up")' = <<>> /\ Line("up") \in Seq(Nat)
  <2>1. queue["up"] = <<>>
    BY <1>0 DEF Waiting, ClassOf
  <2>2. Queued("up") = <<>>
    BY <1>0, <2>1, LineParts
  <2> QED
    BY <1>0, <2>2, LineParts DEF Queued
<1>2. All("up")' = a
  BY <1>0 DEF All, Loads
<1>3. Line("up")' = a \o (<<>> \o <<>>) /\ Line("up") = a \o (b \o <<>>)
  BY <1>1, <1>2, SideNames DEF Line
<1>4. \A i \in DOMAIN b : sent["up"][b[i]] \in {"begin", "rest"}
  <2>1. Ended("up")
    BY <1>0 DEF UpTurn, Quiet, Half
  <2>2. slot["up"].stat = "COMPLETE"
    BY <1>0, <2>1 DEF Ended, Opened, Full
  <2> QED
    BY <1>0, <2>1, <2>2, EndedWhole
<1>5. New("up") = <<>>
  BY DEF New
<1>6. ASSUME NEW t \in Channels
      PROVE  Only(Line("up")', Owed("up", t)') = Only(Line("up") \o New("up"), Owed("up", t)')
  <2> DEFINE E == Owed("up", t)'
  <2>1. \A i \in DOMAIN b : b[i] \notin E
    BY <1>0, <1>4 DEF Owed, On, Kept
  <2> HIDE DEF E, a, b
  <2>2. Only(b, E) = <<>>
    BY <1>1, <2>1, OnlyNothing
  <2>3. Line("up")' = a /\ Line("up") = a \o b /\ Line("up") \o <<>> = Line("up")
    <3>1. b \o <<>> = b
      BY <1>1, Joins
    <3>2. a \o <<>> = a /\ <<>> \o <<>> = <<>>
      BY <1>1, Joins
    <3>3. Line("up") \o <<>> = Line("up")
      BY <1>1, Joins
    <3> QED
      BY <1>3, <3>1, <3>2, <3>3
  <2>4. Only(a \o b, E) = Only(a, E) \o Only(b, E)
    BY <1>1, OnlyParts
  <2>5. Only(a, E) \o <<>> = Only(a, E)
    <3>1. Only(a, E) \in Seq(Nat)
      BY <1>1, OnlyParts
    <3> QED
      BY <3>1, Joins
  <2> QED
    BY <1>5, <2>2, <2>3, <2>4, <2>5 DEF E
<1>7. All("up")' = All("up") \o <<>> /\ <<>> \in Seq(Nat)
  BY <1>1, <1>2, Joins
<1>8. GivesNone(<<>>, Keeping("up")')
  BY NothingGiven
<1> QED
  BY <1>6, <1>7, <1>8 DEF Moved

\* A CONNECT is answered, or what waits is given.
LEMMA ConnectedForwards ==
    ASSUME AgreeInv, AgreeInv', Turns, Waiting, Connected
    PROVE  Steady /\ \A s \in Side : Forwards(s)
<1>0. /\ "up" \in Side /\ "down" \in Side /\ (\A s \in Side : s = "up" \/ s = "down")
      /\ Other("up") = "down" /\ Other("down") = "up" /\ slot \in [Side -> Message] /\ TypeInv
  BY DEF Side, Other, AgreeInv, TypeInv, TypeOK
<1>1. /\ UNCHANGED <<plan, manners, sent, read, down>> /\ handler = "idle" /\ client' = "connected"
      /\ \/ /\ up = "http1" /\ slot["up"].connect /\ up' = "plane"
            /\ slot' = [slot EXCEPT !["up"] = NoMessage]
            /\ write("up", <<Own("200")>>) /\ UNCHANGED queue
         \/ up = "http1" /\ FlushRequest(slot["up"]) /\ UNCHANGED <<up, queue>>
         \/ up = "http2" /\ FlushQueue("up") /\ UNCHANGED <<up, slot>>
         \/ UNCHANGED <<up, slot, out, queue>>
  BY <1>0, ConnectedSteps DEF peerVars, inputVars, Connecting
<1>2. CASE /\ up = "http1" /\ slot["up"].connect /\ up' = "plane"
           /\ slot' = [slot EXCEPT !["up"] = NoMessage]
           /\ write("up", <<Own("200")>>) /\ UNCHANGED queue
  <2>1. slot'["up"] = NoMessage /\ slot'["down"] = slot["down"]
    BY <1>0, <1>2
  <2>2. Moved("down") /\ out'["down"] = out["down"]
    BY <1>1, <1>2, <2>1, OwnMoved
  <2>3. Moved("up")
    BY <1>1, <1>2, <2>1, <2>2, ConnectMoved
  <2>4. \A s \in Side : ClassOf(s)' # "http2" => queue'[s] = <<>>
    BY <1>0, <1>1, <1>2 DEF ClassOf, Waiting
  <2> QED
    BY <1>0, <1>1, <2>1, <2>2, <2>3, <2>4, SteadyKeeps DEF Forwards
<1>3. CASE up = "http1" /\ FlushRequest(slot["up"]) /\ UNCHANGED <<up, queue>>
  <2>1. \A s \in Side : ClassOf(s)' # "http2" => queue'[s] = <<>>
    BY <1>0, <1>1, <1>3 DEF ClassOf, Waiting
  <2>2. CASE UNCHANGED <<out, slot>>
    BY <1>1, <1>3, <2>2, SteadyKeeps, IdleForwards
  <2>3. CASE /\ slot' = [slot EXCEPT !["up"] = NoMessage]
             /\ out' = [out EXCEPT !["down"] = @ \o <<Http1(slot["up"])>>]
    <3>1. plan # "connect"
      <4>1. up' # "plane"
        BY <1>3
      <4> QED
        BY <1>1, <4>1 DEF AgreeInv, SessionsOf
    <3>2. slot'["up"] = NoMessage /\ slot'["down"] = slot["down"]
      BY <1>0, <2>3
    <3>3. queue["up"] = <<>> /\ queue'["up"] = <<>>
      BY <1>0, <1>3 DEF Waiting, ClassOf
    <3>4. Moved("up") /\ \A t \in Side : t # "up" => out'[Other(t)] = out[Other(t)]
      BY <1>0, <1>1, <2>3, <3>1, <3>2, <3>3, GivenMoved
    <3>5. Moved("down")
      BY <1>0, <1>1, <1>3, <3>2, <3>4, StillMoved
    <3> QED
      BY <1>0, <1>1, <2>1, <3>2, <3>4, <3>5, SteadyKeeps DEF Forwards
  <2> QED
    BY <1>3, <2>2, <2>3, FlushRequestSteps
<1>4. CASE up = "http2" /\ FlushQueue("up") /\ UNCHANGED <<up, slot>>
  <2>1. slot["up"] = NoMessage /\ plan # "connect"
    BY <1>0, <1>4, PlanClasses DEF Waiting, ClassOf
  <2>2. /\ Moved("up")
        /\ \A t \in Side : t # "up" => out'[Other(t)] = out[Other(t)] /\ queue'[t] = queue[t]
    BY <1>0, <1>1, <1>4, <2>1, QueueMoved
  <2>3. Moved("down")
    BY <1>0, <1>1, <1>4, <2>2, StillMoved
  <2>4. \A s \in Side : ClassOf(s)' # "http2" => queue'[s] = <<>>
    BY <1>0, <1>1, <1>4, <2>2 DEF ClassOf, Waiting
  <2> QED
    BY <1>0, <1>1, <1>4, <2>2, <2>3, <2>4, SteadyKeeps DEF Forwards
<1>5. CASE UNCHANGED <<up, slot, out, queue>>
  BY <1>1, <1>5, SteadyKeeps, IdleForwards
<1> QED
  BY <1>1, <1>2, <1>3, <1>4, <1>5

\* Every step forwards.
LEMMA NextForwards ==
    ASSUME AgreeInv, AgreeInv', Turns, Waiting, SettingsFirst, [Next]_vars
    PROVE  Steady /\ \A s \in Side : Forwards(s)
<1>1. CASE Peers
  BY <1>1, PeersForwards
<1>2. CASE on_read \/ removeSocket \/ UpPlaneDone \/ DownPlaneDone \/ UNCHANGED vars
  BY <1>2, IdlesForward
<1>3. CASE readcb
  BY <1>3, ReadcbForwards
<1>4. CASE TakePreface
  BY <1>4, PrefaceForwards
<1>5. ASSUME NEW s \in Side, TakeFrame(s) PROVE Steady /\ \A t \in Side : Forwards(t)
  BY <1>5, FrameForwards
<1>6. ASSUME NEW s \in Side, CopyBytes(s) PROVE Steady /\ \A t \in Side : Forwards(t)
  BY <1>6, CopyForwards
<1>7. ASSUME NEW s \in Side, ParseBegin(s) \/ ParseRest(s) \/ ParseShort(s) \/ ParseError(s)
      PROVE  Steady /\ \A t \in Side : Forwards(t)
  BY <1>7, ParseForwards
<1>8. CASE UpHttpDone
  BY <1>8, UpHttpForwards
<1>9. CASE UpHttp2Done
  BY <1>9, UpHttp2Forwards
<1>10. CASE DownHttpDone
  BY <1>10, DownHttpForwards
<1>11. CASE DownHttp2Done
  BY <1>11, DownHttp2Forwards
<1>12. CASE ConnectedH2
  BY <1>12, ConnectedH2Forwards
<1>13. CASE Refused
  BY <1>13, RefusedForwards
<1>14. CASE Connected
  BY <1>14, ConnectedForwards
<1> QED
  BY <1>1, <1>2, <1>3, <1>4, <1>5, <1>6, <1>7, <1>8, <1>9, <1>10, <1>11, <1>12, <1>13, <1>14
     DEF Next, Callback, Outcome, Failed, Closed

\* What the peers write of HTTP/2.
LEMMA FramedWrites ==
    ASSUME App \/ Origin
    PROVE  \E s \in Side, units \in Seq(Kind) :
             /\ Write(s, units)
             /\ \/ units = <<"settings">> /\ Of(s, {"settings"}) = {}
                \/ units = <<"frame">> /\ Of(s, {"settings"}) # {}
                \/ \A i \in DOMAIN units : units[i] \notin Framed
<1> DEFINE Suits(s, units) ==
                \/ units = <<"settings">> /\ Of(s, {"settings"}) = {}
                \/ units = <<"frame">> /\ Of(s, {"settings"}) # {}
                \/ \A i \in DOMAIN units : units[i] \notin Framed
<1>1. "up" \in Side /\ "down" \in Side
  BY SideNames
<1>2. /\ <<"begin", "rest">> \in Seq(Kind)
      /\ \A k \in Kind : <<k>> \in Seq(Kind)
      /\ \A k \in Kind : k \notin Framed => \A i \in DOMAIN <<k>> : <<k>>[i] \notin Framed
      /\ \A i \in DOMAIN <<"begin", "rest">> : <<"begin", "rest">>[i] \notin Framed
  BY DEF Kind, Framed
<1>3. \A k \in Kind : k \notin Framed =>
         \A s \in Side : Write(s, <<k>>) => \E u \in Side, units \in Seq(Kind) : Write(u, units) /\ Suits(u, units)
  <2>1. ASSUME NEW k \in Kind, k \notin Framed, NEW s \in Side, Write(s, <<k>>)
        PROVE  <<k>> \in Seq(Kind) /\ Suits(s, <<k>>)
    BY <1>2, <2>1
  <2> QED
    BY <2>1
<1>4. ASSUME AppRequest \/ AppRest \/ AppPreface \/ AppRaw
      PROVE  \E u \in Side, units \in Seq(Kind) : Write(u, units) /\ Suits(u, units)
  <2>1. \/ Write("up", <<"begin", "rest">>)
        \/ \E k \in {"begin", "rest", "preface", "preface1", "preface2", "raw"} : Write("up", <<k>>)
    BY <1>4 DEF AppRequest, AppRest, AppPreface, AppRaw
  <2>2. CASE Write("up", <<"begin", "rest">>)
    BY <1>1, <1>2, <2>2
  <2>3. ASSUME NEW k \in {"begin", "rest", "preface", "preface1", "preface2", "raw"}, Write("up", <<k>>)
        PROVE  \E u \in Side, units \in Seq(Kind) : Write(u, units) /\ Suits(u, units)
    <3>1. k \in Kind /\ k \notin Framed
      BY DEF Kind, Framed
    <3> HIDE DEF Suits
    <3> QED
      BY <1>1, <1>3, <2>3, <3>1
  <2> HIDE DEF Suits
  <2> QED
    BY <2>1, <2>2, <2>3
<1>5. ASSUME OriginInterim \/ OriginBegin \/ OriginRest \/ OriginSwitch \/ OriginRaw
      PROVE  \E u \in Side, units \in Seq(Kind) : Write(u, units) /\ Suits(u, units)
  <2>1. PICK k \in {"100", "begin", "rest", "101", "raw"} : Write("down", <<k>>)
    BY <1>5 DEF OriginInterim, OriginBegin, OriginRest, OriginSwitch, OriginRaw
  <2>2. k \in Kind /\ k \notin Framed
    BY DEF Kind, Framed
  <2> HIDE DEF Suits
  <2> QED
    BY <1>1, <1>3, <2>1, <2>2
<1>6. ASSUME AppSettings \/ OriginSettings
      PROVE  \E u \in Side, units \in Seq(Kind) : Write(u, units) /\ Suits(u, units)
  <2>1. <<"settings">> \in Seq(Kind)
    BY <1>2 DEF Kind
  <2>2. \/ Write("up", <<"settings">>) /\ Of("up", {"settings"}) = {}
        \/ Write("down", <<"settings">>) /\ Of("down", {"settings"}) = {}
    BY <1>6 DEF AppSettings, OriginSettings
  <2> QED
    BY <1>1, <2>1, <2>2
<1>7. ASSUME AppFrame \/ OriginFrame
      PROVE  \E u \in Side, units \in Seq(Kind) : Write(u, units) /\ Suits(u, units)
  <2>1. <<"frame">> \in Seq(Kind)
    BY <1>2 DEF Kind
  <2>2. \/ Write("up", <<"frame">>) /\ Of("up", {"settings"}) # {}
        \/ Write("down", <<"frame">>) /\ Of("down", {"settings"}) # {}
    BY <1>7 DEF AppFrame, OriginFrame
  <2> QED
    BY <1>1, <2>1, <2>2
<1> QED
  BY <1>4, <1>5, <1>6, <1>7 DEF App, Origin

\* Only the peers write.
LEMMA OnlyPeersWrite ==
    ASSUME [Next]_vars
    PROVE  UNCHANGED sent \/ App \/ Origin
  BY DEF Next, vars, peerVars, Peers, PeerClose, Callback, Outcome, Failed, Closed, readcb, on_read,
         TakePreface, ParseBegin, ParseRest, ParseShort, ParseError, TakeFrame, CopyBytes, UpHttpDone,
         UpHttp2Done, UpPlaneDone, DownHttpDone, DownHttp2Done, DownPlaneDone, ConnectedH2, Refused,
         Connected, removeSocket

\* A peer writes SETTINGS once, before its other frames.
LEMMA SettingsKept ==
    ASSUME AgreeInv, SettingsFirst, [Next]_vars
    PROVE  SettingsFirst'
<1>1. CASE UNCHANGED sent
  BY <1>1 DEF SettingsFirst, Of
<1>2. CASE App \/ Origin
  <2>1. PICK s \in Side, units \in Seq(Kind) :
             /\ Write(s, units)
             /\ \/ units = <<"settings">> /\ Of(s, {"settings"}) = {}
                \/ units = <<"frame">> /\ Of(s, {"settings"}) # {}
                \/ \A i \in DOMAIN units : units[i] \notin Framed
    BY <1>2, FramedWrites
  <2>2. sent'[s] = sent[s] \o units /\ \A t \in Side : t # s => sent'[t] = sent[t]
    BY <2>1, WriteKeeps
  <2> DEFINE q == sent[s]
             p == sent'[s]
  <2>3. /\ q \in Seq(Kind) /\ Len(q) \in Nat /\ Len(units) \in Nat /\ Len(p) = Len(q) + Len(units)
        /\ DOMAIN q = 1..Len(q) /\ DOMAIN p = 1..(Len(q) + Len(units)) /\ DOMAIN units = 1..Len(units)
        /\ \A i \in DOMAIN p : p[i] = IF i <= Len(q) THEN q[i] ELSE units[i - Len(q)]
    <3>1. q \in Seq(Kind) /\ Len(q) \in Nat /\ DOMAIN q = 1..Len(q)
      BY SideTypes DEF AgreeInv
    <3>2. /\ q \o units \in Seq(Kind) /\ Len(q \o units) = Len(q) + Len(units)
          /\ \A i \in 1..(Len(q) + Len(units)) :
                (q \o units)[i] = IF i <= Len(q) THEN q[i] ELSE units[i - Len(q)]
      BY <3>1, ConcatProperties
    <3>3. DOMAIN (q \o units) = 1..Len(q \o units)
      BY <3>2
    <3> QED
      BY <2>2, <3>1, <3>2, <3>3
  <2>4. /\ \A m \in DOMAIN q : q[m] = "frame" => \E n \in DOMAIN q : q[n] = "settings"
        /\ \A m, n \in DOMAIN q : q[m] \in Framed /\ q[n] = "settings" => n <= m
    BY DEF SettingsFirst, Of
  <2>5. \A m \in DOMAIN p : m \in DOMAIN q \/ (m - Len(q) \in DOMAIN units /\ m > Len(q) /\ p[m] = units[m - Len(q)])
    BY <2>3
  <2>6. \A m \in DOMAIN q : m \in DOMAIN p /\ p[m] = q[m]
    BY <2>3
  <2> HIDE DEF p, q
  <2>7. /\ \A m \in DOMAIN p : p[m] = "frame" => \E n \in DOMAIN p : p[n] = "settings"
        /\ \A m, n \in DOMAIN p : p[m] \in Framed /\ p[n] = "settings" => n <= m
    <3>1. CASE \A i \in DOMAIN units : units[i] \notin Framed
      BY <2>4, <2>5, <2>6, <3>1 DEF Framed
    <3>2. CASE units = <<"settings">> /\ Of(s, {"settings"}) = {}
      <4>1. Len(units) = 1 /\ units[1] = "settings"
        BY <3>2
      <4>2. \A n \in DOMAIN q : q[n] \notin Framed
        BY <2>4, <3>2 DEF Of, Framed, q
      <4>3. \A m \in DOMAIN p : p[m] \in Framed => m = Len(q) + 1 /\ p[m] = "settings"
        BY <2>3, <2>5, <2>6, <4>1, <4>2
      <4> QED
        BY <2>3, <4>3 DEF Framed
    <3>3. CASE units = <<"frame">> /\ Of(s, {"settings"}) # {}
      <4>1. Len(units) = 1 /\ units[1] = "frame"
        BY <3>3
      <4>2. \E n \in DOMAIN q : q[n] = "settings"
        BY <3>3 DEF Of, q
      <4>3. \A m \in DOMAIN p : m \in DOMAIN q \/ (m = Len(q) + 1 /\ p[m] = "frame")
        BY <2>3, <2>5, <4>1
      <4> QED
        BY <2>3, <2>4, <2>6, <4>2, <4>3
    <3> QED
      BY <2>1, <3>1, <3>2, <3>3
  <2>8. ASSUME NEW t \in Side
        PROVE  /\ \A m \in DOMAIN sent'[t] : sent'[t][m] = "frame" => \E n \in DOMAIN sent'[t] : sent'[t][n] = "settings"
               /\ \A m, n \in DOMAIN sent'[t] : sent'[t][m] \in Framed /\ sent'[t][n] = "settings" => n <= m
    <3>1. CASE t = s
      BY <2>7, <3>1 DEF p
    <3>2. CASE t # s
      BY <2>2, <3>2 DEF SettingsFirst, Of
    <3> QED
      BY <3>1, <3>2
  <2> QED
    BY <2>8 DEF SettingsFirst, Of
<1> QED
  BY <1>1, <1>2, OnlyPeersWrite

\* What a session leaves behind is nothing.
LEMMA WaitingKept ==
    ASSUME AgreeInv', OrderInv', Turns', Waiting, UNCHANGED plan, \A s \in Side : Forwards(s)
    PROVE  Waiting'
<1>1. plan = "direct" => \A s \in Side : slot'[s] = NoMessage
  BY DEF Forwards, Waiting
<1>2. ASSUME NEW s \in Side, ClassOf(s)' # "http1" PROVE slot'[s] = NoMessage
  <2>1. CASE plan = "direct"
    BY <1>1, <2>1
  <2>2. CASE plan # "direct" /\ up' # "http1"
    BY <2>2 DEF Turns, Over
  <2>3. CASE plan # "direct" /\ up' = "http1"
    <3>1. s = "down" /\ down' # "http1"
      BY <1>2, <2>3 DEF ClassOf, Side
    <3>2. plan' \in {"get", "connect", "h2c", "other", "direct"} /\ down' \in {"http1", "http2", "plane"}
      BY ConstantsAssumption DEF AgreeInv, TypeInv, TypeOK, Class
    <3>3. down' = "plane"
      BY <2>3, <3>1, <3>2 DEF AgreeInv, SessionsOf
    <3> QED
      BY <3>1, <3>3, SideNames DEF OrderInv, NothingWaits, ClassOf
  <2> QED
    BY <2>1, <2>2, <2>3
<1>3. \A s \in Side : ClassOf(s)' # "http2" => queue'[s] = <<>>
  BY DEF Forwards
<1> QED
  BY <1>1, <1>2, <1>3 DEF Waiting

\* Nothing is left of nothing.
LEMMA OnlyEmpty == \A S : Only(<<>>, S) = <<>>
<1>1. ASSUME NEW S PROVE Only(<<>>, S) = <<>>
  <2>1. <<>> \in Seq(Nat) /\ \A i \in DOMAIN <<>> : <<>>[i] \notin S
    OBVIOUS
  <2> QED
    BY <2>1, OnlyNothing
<1> QED
  BY <1>1

\* At first nothing has been taken or given.
LEMMA InitLines ==
    ASSUME Init, NEW s \in Side
    PROVE  /\ read[s] = 0 /\ Ids(read[s]) = <<>> /\ All(s) = <<>> /\ Line(s) = <<>>
<1>1. /\ Other(s) \in Side /\ NoMessage.units = <<>>
  BY SideNames DEF Other, Side
<1>2. read[s] = 0 /\ slot[s].units = <<>> /\ queue[s] = <<>> /\ out[Other(s)] = <<>>
  BY <1>1 DEF Init
<1>3. Loads(<<>>) = <<>> /\ FlattenSeq(<<>>) = <<>> /\ Ids(0) = <<>>
  BY DEF Loads, FlattenSeq, Ids
<1>4. All(s) = <<>> /\ Queued(s) = <<>>
  BY <1>2, <1>3 DEF All, Queued
<1> QED
  BY <1>2, <1>3, <1>4 DEF Line

\* PassInv holds at first.
LEMMA InitPass == Init => PassInv
<1> SUFFICES ASSUME Init PROVE PassInv
  OBVIOUS
<1>1. Waiting
  <2>1. \A s \in Side : slot[s] = NoMessage /\ queue[s] = <<>>
    BY DEF Init
  <2> QED
    BY <2>1 DEF Waiting
<1>2. SettingsFirst
  <2>1. \A s \in Side : sent[s] = <<>>
    BY DEF Init
  <2> QED
    BY <2>1 DEF SettingsFirst
<1>3. ASSUME NEW s \in Side PROVE Account(s) /\ GivesNone(All(s), Keeping(s))
  <2>1. Ids(read[s]) = <<>> /\ All(s) = <<>> /\ Line(s) = <<>>
    BY InitLines
  <2> QED
    BY <2>1, NothingGiven DEF Account
<1> QED
  BY <1>1, <1>2, <1>3 DEF PassInv

\* Between peers that are not orderly nothing is promised.
LEMMA Unpromised ==
    ASSUME ~Orderly, NEW s, NEW t
    PROVE  Taken(s, t) = <<>> /\ Relayed(s, t) = <<>>
  BY DEF Taken, Relayed

\* What is taken and given are units.
LEMMA RelayedTyped ==
    ASSUME AgreeInv, NEW s \in Side, NEW t \in Channels
    PROVE  Taken(s, t) \in Seq(Nat) /\ Relayed(s, t) \in Seq(Nat)
<1>1. Ids(read[s]) \in Seq(Nat) /\ All(s) \in Seq(Nat)
  BY LineTyped, NumberedSeqs
<1>2. \A S : Only(Ids(read[s]), S) \in Seq(Nat) /\ Only(All(s), S) \in Seq(Nat)
  BY <1>1, OnlyParts
<1>3. CASE Orderly
  <2>1. Taken(s, t) = Only(Ids(read[s]), Owed(s, t)) /\ Relayed(s, t) = Only(All(s), On(s, t))
    BY <1>3 DEF Taken, Ids, Relayed, All, Loads
  <2> QED
    BY <1>2, <2>1
<1>4. CASE ~Orderly
  <2>1. <<>> \in Seq(Nat)
    OBVIOUS
  <2> QED
    BY <1>4, <2>1, Unpromised
<1> QED
  BY <1>3, <1>4

\* The queues of the promise are well formed.
LEMMA PromiseTyped ==
    ASSUME AgreeInv
    PROVE  /\ [s \in Side |-> [t \in Channels |-> Taken(s, t)]] \in [Side -> [Channels -> Seq(Nat)]]
           /\ [s \in Side |-> [t \in Channels |-> Relayed(s, t)]] \in [Side -> [Channels -> Seq(Nat)]]
  BY RelayedTyped

LEMMA TypedThen ==
    AgreeInv => /\ [s \in Side |-> [t \in Channels |-> Taken(s, t)]] \in [Side -> [Channels -> Seq(Nat)]]
                /\ [s \in Side |-> [t \in Channels |-> Relayed(s, t)]] \in [Side -> [Channels -> Seq(Nat)]]
  BY PromiseTyped

LEMMA TypedNext ==
    AgreeInv' => (/\ [s \in Side |-> [t \in Channels |-> Taken(s, t)]] \in [Side -> [Channels -> Seq(Nat)]]
                  /\ [s \in Side |-> [t \in Channels |-> Relayed(s, t)]] \in [Side -> [Channels -> Seq(Nat)]])'
  BY TypedThen, PTL

\* The initial states are those of the promise.
LEMMA InitPromise == AgreeInv /\ Init => Promise!Init
<1> SUFFICES ASSUME AgreeInv, Init PROVE Promise!Init
  OBVIOUS
<1>1. ASSUME NEW s \in Side, NEW t \in Channels PROVE Relayed(s, t) = <<>>
  <2>1. Relayed(s, t) = IF Orderly THEN Only(All(s), On(s, t)) ELSE <<>>
    BY DEF Relayed, All, Loads
  <2>2. All(s) = <<>>
    BY InitLines
  <2> QED
    BY <2>1, <2>2, OnlyEmpty
<1>2. [s \in Side |-> [t \in Channels |-> Relayed(s, t)]] = [s \in Side |-> [t \in Channels |-> <<>>]]
  BY <1>1
<1> QED
  BY <1>2, PromiseTyped DEF Promise!Init, Promise!Queues

\* A step takes and gives as the promise says, on each channel.
LEMMA StepPasses ==
    ASSUME AgreeInv, AgreeInv', TurnInv, PassInv, [Next]_vars, NEW s \in Side
    PROVE  /\ Orderly => Account(s)' /\ GivesNone(All(s)', Keeping(s)')
           /\ \A t \in Channels : /\ IsPrefix(Taken(s, t), Taken(s, t)')
                                  /\ IsPrefix(Relayed(s, t), Relayed(s, t)')
                                  /\ IsPrefix(Relayed(s, t)', Taken(s, t)')
<1>1. CASE Orderly
  <2>1. Turns /\ Waiting /\ SettingsFirst /\ Account(s) /\ GivesNone(All(s), Keeping(s))
    BY <1>1 DEF TurnInv, PassInv
  <2>2. Steady /\ Moved(s)
    BY <2>1, NextForwards DEF Forwards
  <2> QED
    BY <1>1, <2>1, <2>2, MovedPasses
<1>2. CASE ~Orderly
  <2>1. ~Orderly'
    BY <1>2, SameManners DEF Orderly
  <2>2. \A t \in Channels : Taken(s, t) = <<>> /\ Relayed(s, t) = <<>>
    BY <1>2, Unpromised
  <2>3. \A t \in Channels : Taken(s, t)' = <<>> /\ Relayed(s, t)' = <<>>
    BY <2>1 DEF Taken, Relayed
  <2>4. IsPrefix(<<>>, <<>>)
    BY DEF IsPrefix
  <2> QED
    BY <1>2, <2>2, <2>3, <2>4
<1> QED
  BY <1>1, <1>2

\* Every step is one of the promise.
LEMMA StepPromise ==
    AgreeInv /\ AgreeInv' /\ TurnInv /\ PassInv /\ [Next]_vars => [Promise!Relay]_(Promise!vars)
<1> SUFFICES ASSUME AgreeInv, AgreeInv', TurnInv, PassInv, [Next]_vars PROVE Promise!Relay
  OBVIOUS
<1>1. \A s \in Side : \A t \in Channels :
          /\ IsPrefix(Taken(s, t), Taken(s, t)')
          /\ IsPrefix(Relayed(s, t), Relayed(s, t)')
          /\ IsPrefix(Relayed(s, t)', Taken(s, t)')
  BY StepPasses
<1>2. /\ [s \in Side |-> [t \in Channels |-> Taken(s, t)]]' \in [Side -> [Channels -> Seq(Nat)]]
      /\ [s \in Side |-> [t \in Channels |-> Relayed(s, t)]]' \in [Side -> [Channels -> Seq(Nat)]]
  BY TypedNext
<1> QED
  BY <1>1, <1>2 DEF Promise!Relay, Promise!Queues, Promise!IsPrefix, IsPrefix

\* PassInv is inductive.
LEMMA NextPass ==
    AgreeInv /\ AgreeInv' /\ OrderInv' /\ TurnInv /\ TurnInv' /\ PassInv /\ [Next]_vars => PassInv'
<1> SUFFICES ASSUME AgreeInv, AgreeInv', OrderInv', TurnInv, TurnInv', PassInv, [Next]_vars, Orderly'
             PROVE  Waiting' /\ SettingsFirst'
                    /\ \A s \in Side : Account(s)' /\ GivesNone(All(s)', Keeping(s)')
  BY DEF PassInv
<1>1. Orderly
  BY SameManners DEF Orderly
<1>2. Turns /\ Turns' /\ Waiting /\ SettingsFirst
  BY <1>1 DEF TurnInv, PassInv
<1>3. Steady /\ \A s \in Side : Forwards(s)
  BY <1>2, NextForwards
<1>4. Waiting'
  BY <1>2, <1>3, WaitingKept DEF Steady
<1>5. SettingsFirst'
  BY <1>2, SettingsKept
<1> QED
  BY <1>1, <1>4, <1>5, StepPasses

(***************************************************************************)
(* The connection implements the FIFOs of StreamRelay: in each direction   *)
(* what orderly peers send is given to the far one in its order, nothing   *)
(* lost, repeated or made up, however the sessions are replaced under it.  *)
(***************************************************************************)
THEOREM RelayCorrect == Spec => ImplementsStreamRelay
<1>1. AgreeInv /\ AgreeInv' /\ TurnInv /\ PassInv /\ [Next]_vars => [Promise!Relay]_(Promise!vars)
  BY StepPromise
<1> QED
  BY InitAgree, NextAgree, InitOrder, NextOrder, InitTurn, NextTurn, InitPass, NextPass,
     InitPromise, <1>1, PTL DEF Spec, ImplementsStreamRelay, Promise!Spec
=============================================================================
