-------------------------- MODULE Http1Wire_proofs --------------------------
(***************************************************************************)
(* Proofs about Http1Wire, for all requests and responses, whatever their  *)
(* framing and their size, however the reads cut them.                     *)
(***************************************************************************)
EXTENDS Http1Wire, SequenceTheorems, SequenceLemmas, TLAPS

(***************************************************************************)
(* What is typed more closely: the units of a side belong to messages its  *)
(* peer has sent, and a parser that counts a body down has not reached 0.  *)
(***************************************************************************)
UnitTo(n) == {u \in Unit : u.of <= n}
StoredTo(n) == [stat : {"HEADER", "BODY", "COMPLETE"}, head : Seq(UnitTo(n)),
                payload : Seq(UnitTo(n)), trailer : Seq(UnitTo(n))]
Live(p) == p.state \in {"identity", "chunk_data"} => p.length > 0
SideTyped(s) ==
    LET n == Len(said[s])
    IN  /\ sent[s] \in Seq(UnitTo(n))
        /\ out[Other(s)] \in Seq(UnitTo(n))
        /\ slot[s] \in StoredTo(n) \cup {NoMessage}
        /\ n = 0 => sent[s] = <<>> /\ out[Other(s)] = <<>> /\ slot[s] = NoMessage
        /\ Live(parser[s]) /\ Live(heard[s].parser)
        /\ delivered[s] <= Len(out[s])
\* What a running callback has still to parse is there.
Within == handler \in Side => parsed[handler] + todo <= Len(sent[handler])
TypeInv == TypeOK /\ (\A s \in Side : SideTyped(s)) /\ Within

\* Messages begun in a sequence of units.
Starts == {u \in Unit : u.kind = "begin"}
Count(q) == Len(Only(q, Starts))

Holds(m) == IF m = NoMessage THEN 0 ELSE 1
Ahead(q, j) == IF j <= Len(q) /\ q[j].kind = "begin" THEN 1 ELSE 0
Flushed(s) == Count(out[Other(s)])

(***************************************************************************)
(* Every message is written, in the slot or about to be parsed, and the    *)
(* peers take turns: no slot is needed twice.                              *)
(***************************************************************************)
Turn(s) == Flushed(s) + Holds(slot[s]) + Ahead(sent[s], parsed[s] + 1) = Len(said[s])
Taken(s) == Len(heard[s].got) + Holds(heard[s].slot) <= Count(SubSeq(out[s], 1, delivered[s]))
Turns ==
    /\ \A s \in Side : Turn(s) /\ Taken(s)
    /\ Len(said["down"]) <= Flushed("up")
    /\ Len(said["up"]) <= Flushed("down") + 1

(***************************************************************************)
(* What may stand in q from j on.                                          *)
(***************************************************************************)
BeginOf(n) == Piece("begin", n, 0)
FieldsOf(n) == Piece("fields", n, 0)
\* The rest of the body of message n, whose length is B.
BytesAt(q, j, n, B) == \A i \in j..Len(q) : q[i] = Piece("byte", n, B - (Len(q) - i))
TrailerAt(q, j) ==
    \/ Len(q) = j /\ q[j] = LineEnd
    \/ Len(q) = j + 1 /\ q[j].kind = "trailer" /\ q[j + 1] = LineEnd
DataAt(q, j, k) ==
    /\ j + k < Len(q) /\ \A i \in j..(j + k - 1) : q[i].kind = "byte"
    /\ q[j + k] = LineEnd /\ q[j + k + 1].kind = "size"
Sized(q, j) ==
    \A k \in j..Len(q) : q[k].kind = "size" =>
        IF q[k].size = 0 THEN TrailerAt(q, k + 1) ELSE DataAt(q, k + 1, q[k].size)
ChunkAt(q, j) == j <= Len(q) /\ q[j].kind = "size"
BodyAt(q, j, n, m, quiet) ==
    /\ quiet => Len(q) = j - 1
    /\ ~quiet /\ m.framing \in {"none", "length"} =>
         Len(q) = j - 1 + BodyLength(m) /\ BytesAt(q, j, n, BodyLength(m))
    /\ ~quiet /\ m.framing \notin {"none", "length"} => ChunkAt(q, j) /\ Sized(q, j)
FieldsAt(q, j, n, m, quiet) == j <= Len(q) /\ q[j] = FieldsOf(n) /\ BodyAt(q, j + 1, n, m, quiet)
BeginAt(q, j, n, m, quiet) == j <= Len(q) /\ q[j] = BeginOf(n) /\ FieldsAt(q, j + 1, n, m, quiet)

ChunkState == {"chunk_size", "chunk_data", "chunk_end", "trailer"}

(***************************************************************************)
(* What parser p has still to read of q, from j on, when n is the number   *)
(* of the last message, m that message, and quiet says that it comes       *)
(* without its body.                                                       *)
(***************************************************************************)
Rest(q, j, p, n, m, quiet) ==
    LET st == p.state
        B == BodyLength(m)
    IN  /\ st = "start" => Len(q) = j - 1 \/ BeginAt(q, j, n, m, quiet)
        /\ st = "dead" => Len(q) = j - 1 /\ p.last
        /\ st = "fields" => FieldsAt(q, j, n, m, quiet)
        /\ st = "identity" =>
             /\ m.framing = "length" /\ p.length \in 1..B
             /\ quiet => Len(q) = j - 1
             /\ ~quiet => Len(q) = j - 1 + p.length /\ BytesAt(q, j, n, B)
        /\ st = "eof" => BytesAt(q, j, n, B)
        /\ st = "chunk_size" => Sized(q, j) /\ (ChunkAt(q, j) \/ (quiet /\ Len(q) = j - 1))
        /\ st = "chunk_data" => p.length > 0 /\ DataAt(q, j, p.length) /\ Sized(q, j)
        /\ st = "chunk_end" => DataAt(q, j, 0) /\ Sized(q, j)
        /\ st = "trailer" => TrailerAt(q, j)
        /\ st \in ChunkState => m.framing = "chunked"
        /\ st = "error" => m.framing = "both"

(***************************************************************************)
(* What the slot holds of message n.                                       *)
(***************************************************************************)
Headed(h) == [stat |-> "HEADER", head |-> h, payload |-> <<>>, trailer |-> <<>>]
Whole(x, n) == x.head = <<BeginOf(n), FieldsOf(n)>>
Kinds(q, k) == \A i \in DOMAIN q : q[i].kind = k
Shape(x, p, n, m, quiet) ==
    LET st == p.state
        B == BodyLength(m)
    IN  /\ st = "fields" => x = Headed(<<BeginOf(n)>>)
        /\ st = "error" => x = Headed(<<BeginOf(n), FieldsOf(n)>>)
        /\ st \in Between => x = NoMessage \/ (x.stat = "COMPLETE" /\ Whole(x, n))
        /\ st \in BodyState \cup ChunkState => x.stat = "BODY" /\ Whole(x, n)
        /\ st \in BodyState \cup ChunkState /\ st # "trailer" => x.trailer = <<>>
        /\ st = "identity" => /\ quiet => x.payload = <<>>
                              /\ ~quiet => x.payload = Bytes(n, 0, B - p.length)
        /\ Kinds(x.payload, "byte") /\ Kinds(x.trailer, "trailer")
        /\ x.stat = "COMPLETE" =>
             /\ m.framing # "both"
             /\ m.framing # "chunked" => /\ quiet => x.payload = <<>>
                                         /\ ~quiet => x.payload = Bytes(n, 0, B)
                                         /\ x.trailer = <<>>

Latest(s) == said[s][Len(said[s])]
Quiet(s) == Silent(s, Len(said[s]))
RestOf(s) == Rest(sent[s], parsed[s] + 1, parser[s], Len(said[s]), Latest(s), Quiet(s))
ShapeOf(s) == Shape(slot[s], parser[s], Len(said[s]), Latest(s), Quiet(s))
LastOf(s) ==
    /\ parser[s].last => ~Open(s)
    /\ parser[s].state \notin Between => said[s] # <<>>

\* What a callback has parsed makes a message.
Reading == handler \in Side /\ todo = 0 => slot[handler] # NoMessage

Held(x) == x.head \o x.payload \o x.trailer
Balance(s) ==
    Content(out[Other(s)]) \o Content(Held(slot[s])) = Content(SubSeq(sent[s], 1, parsed[s]))

WireInv ==
    /\ Turns
    /\ \A s \in Side : RestOf(s) /\ ShapeOf(s) /\ LastOf(s) /\ Balance(s)
    /\ Reading /\ handler # "crashed"

(***************************************************************************)
(* Where the messages stand in what has been written, as long as they are  *)
(* not chunked.                                                            *)
(***************************************************************************)
Clean(s, n) == \A i \in 1..n : i \in DOMAIN said[s] => Unchunked(s, i)
Bod(s, n) == IF Silent(s, n) THEN 0 ELSE BodyLength(said[s][n])
\* Message i, of g that have been written to q, ends at e.
EndAt(q, e, i, g) ==
    IF i = g THEN e = Len(q) ELSE e < Len(q) /\ q[e + 1] = BeginOf(i + 1)
\* Message n stands at i, with a body of L bytes.
LaidAt(q, i, n, L, g) ==
    /\ i < Len(q) /\ q[i + 1] = FieldsOf(n)
    /\ \A c \in 1..L : q[i + 1 + c] = Piece("byte", n, c)
    /\ L = 0 => EndAt(q, i + 1, n, g)
    /\ L # 0 => i + L + 2 <= Len(q) /\ q[i + L + 2] = LineEnd /\ EndAt(q, i + L + 2, n, g)
\* The message has an end that does not depend on the connection.
Delimited(s, n) == s = "up" \/ Silent(s, n) \/ said[s][n].framing = "length"
Stands(s, q, i, n, g) ==
    /\ n \in 1..g /\ q[i] = BeginOf(n)
    /\ Clean(s, n) => LaidAt(q, i, n, Bod(s, n), g) /\ Delimited(s, n)
Laid(s, q, g) ==
    /\ EndAt(q, 0, 0, g)
    /\ \A i \in DOMAIN q : q[i].kind = "begin" => Stands(s, q, i, q[i].of, g)

(***************************************************************************)
(* Where the far peer is, which has heard D units of q and received the    *)
(* messages before the n-th, when its parser is p and x what it has of     *)
(* message n.                                                              *)
(***************************************************************************)
Bodied(n, k) == [stat |-> "BODY", head |-> <<BeginOf(n), FieldsOf(n)>>,
                 payload |-> Bytes(n, 0, k), trailer |-> <<>>]
\* k more bytes, of B, and the message ends.
Comes(q, D, n, g, B, k) ==
    /\ \A c \in 1..k : q[D + c] = Piece("byte", n, B - k + c)
    /\ D + k < Len(q) /\ q[D + k + 1] = LineEnd /\ EndAt(q, D + k + 1, n, g)
\* Message n has ended, or does with the next line end.
Behind(q, D, n, g) ==
    EndAt(q, D, n, g) \/ (D < Len(q) /\ q[D + 1] = LineEnd /\ EndAt(q, D + 1, n, g))
Hears(s, n, q, D, g, p, x) ==
    /\ p.state \in {"start", "dead", "fields", "identity"}
    /\ p.state \in Between => x = NoMessage /\ Behind(q, D, n - 1, g)
    /\ p.state = "start" => ~p.last
    /\ p.state = "dead" => Len(said[s]) < n /\ ~Open(s)
    /\ p.state \notin Between => n \in DOMAIN said[s] /\ (p.last => said[s][n].last)
    /\ p.state = "fields" => D > 0 /\ q[D] = BeginOf(n) /\ x = Headed(<<BeginOf(n)>>)
    /\ p.state = "identity" =>
         /\ ~Silent(s, n) /\ said[s][n].framing = "length"
         /\ p.length \in 1..BodyLength(said[s][n])
         /\ x = Bodied(n, BodyLength(said[s][n]) - p.length)
         /\ Comes(q, D, n, g, BodyLength(said[s][n]), p.length)
Received(s, got) == \A n \in DOMAIN got : Clean(s, n) => SameMessage(s, n, got[n])
Listens(s, q, D, g, h) ==
    /\ Clean(s, Len(h.got) + 1) => Hears(s, Len(h.got) + 1, q, D, g, h.parser, h.slot)
    /\ Received(s, h.got)

\* Only the last message may be the last on its connection; and one without a
\* length is complete only where none is needed.
LastIsLast(s) == \A i \in DOMAIN said[s] : said[s][i].last => i = Len(said[s])
Finishes(s) ==
    slot[s].stat = "COMPLETE" /\ Latest(s).framing = "none" => s = "up" \/ Quiet(s)
\* (Bound variables, to compare the values of the next state with these.)
Far(s) ==
    \A q \in {out[Other(s)]}, D \in {delivered[Other(s)]}, h \in {heard[Other(s)]} :
       Laid(s, q, Count(q)) /\ Listens(s, q, D, Count(q), h)
FarInv == \A s \in Side : Far(s) /\ LastIsLast(s) /\ Finishes(s)

\* How many messages a sequence of units begins.
LEMMA CountTyped == \A q \in Seq(Unit) : Count(q) \in Nat
<1>1. SUFFICES ASSUME NEW q \in Seq(Unit) PROVE Count(q) \in Nat
  OBVIOUS
<1>2. Only(q, Starts) \in Seq(Unit)
  BY <1>1, OnlyTyped
<1> QED
  BY <1>2 DEF Count

LEMMA CountConcat == \A p, q \in Seq(Unit) : Count(p \o q) = Count(p) + Count(q)
<1>1. SUFFICES ASSUME NEW p \in Seq(Unit), NEW q \in Seq(Unit)
               PROVE  Count(p \o q) = Count(p) + Count(q)
  OBVIOUS
<1>2. Only(p, Starts) \in Seq(Unit) /\ Only(q, Starts) \in Seq(Unit)
  BY <1>1, OnlyTyped
<1>3. Only(p \o q, Starts) = Only(p, Starts) \o Only(q, Starts)
  BY <1>1, OnlyConcat
<1>4. Len(Only(p, Starts) \o Only(q, Starts)) = Len(Only(p, Starts)) + Len(Only(q, Starts))
  BY <1>2, ConcatProperties
<1> QED
  BY <1>3, <1>4 DEF Count

LEMMA CountNone ==
    \A q \in Seq(Unit) : (\A i \in DOMAIN q : q[i].kind # "begin") => Count(q) = 0
<1>1. SUFFICES ASSUME NEW q \in Seq(Unit), \A i \in DOMAIN q : q[i].kind # "begin"
               PROVE  Count(q) = 0
  OBVIOUS
<1>2. \A i \in DOMAIN q : q[i] \notin Starts
  BY <1>1 DEF Starts
<1>3. Only(q, Starts) = <<>>
  BY <1>1, <1>2, OnlyNothing
<1> QED
  BY <1>3 DEF Count

LEMMA CountUnit == \A u \in Unit : Count(<<u>>) = IF u.kind = "begin" THEN 1 ELSE 0
<1>1. SUFFICES ASSUME NEW u \in Unit PROVE Count(<<u>>) = IF u.kind = "begin" THEN 1 ELSE 0
  OBVIOUS
<1>2. Only(<<u>>, Starts) = IF u \in Starts THEN <<u>> ELSE <<>>
  BY OnlyOne
<1> QED
  BY <1>1, <1>2 DEF Count, Starts

LEMMA CountAppend ==
    \A q \in Seq(Unit) : \A u \in Unit :
       Count(Append(q, u)) = Count(q) + (IF u.kind = "begin" THEN 1 ELSE 0)
<1>1. SUFFICES ASSUME NEW q \in Seq(Unit), NEW u \in Unit
               PROVE  Count(Append(q, u)) = Count(q) + (IF u.kind = "begin" THEN 1 ELSE 0)
  OBVIOUS
<1>2. Append(q, u) = q \o <<u>> /\ <<u>> \in Seq(Unit)
  BY <1>1, AppendIsConcat
<1>3. Count(q \o <<u>>) = Count(q) + Count(<<u>>)
  BY <1>1, <1>2, CountConcat
<1> QED
  BY <1>1, <1>2, <1>3, CountUnit

\* One sequence behind another, index by index.
LEMMA Joined ==
    ASSUME NEW X, NEW p \in Seq(X), NEW q \in Seq(X)
    PROVE  /\ p \o q \in Seq(X) /\ Len(p \o q) = Len(p) + Len(q)
           /\ \A i \in 1..Len(p) : (p \o q)[i] = p[i]
           /\ \A i \in 1..Len(q) : (p \o q)[Len(p) + i] = q[i]
<1>1. Len(p) \in Nat /\ Len(q) \in Nat
  OBVIOUS
<1>2. /\ p \o q \in Seq(X) /\ Len(p \o q) = Len(p) + Len(q)
      /\ \A i \in 1..(Len(p) + Len(q)) :
           (p \o q)[i] = IF i <= Len(p) THEN p[i] ELSE q[i - Len(p)]
  BY ConcatProperties
<1> DEFINE r == p \o q
<1> HIDE DEF r
<1>3. \A i \in 1..Len(p) : r[i] = p[i]
  BY <1>1, <1>2 DEF r
<1>4. ASSUME NEW i \in 1..Len(q) PROVE r[Len(p) + i] = q[i]
  <2>1. Len(p) + i \in 1..(Len(p) + Len(q)) /\ ~(Len(p) + i <= Len(p)) /\ Len(p) + i - Len(p) = i
    BY <1>1
  <2>2. r[Len(p) + i] = q[Len(p) + i - Len(p)]
    BY <1>2, <2>1 DEF r
  <2> QED
    BY <2>1, <2>2
<1> QED
  BY <1>2, <1>3, <1>4 DEF r

\* The first k elements of a sequence and the rest.
LEMMA Halves ==
    ASSUME NEW X, NEW q \in Seq(X), NEW k \in 0..Len(q)
    PROVE  /\ SubSeq(q, 1, k) \in Seq(X) /\ Len(SubSeq(q, 1, k)) = k
           /\ SubSeq(q, k + 1, Len(q)) \in Seq(X)
           /\ q = SubSeq(q, 1, k) \o SubSeq(q, k + 1, Len(q))
<1>0. Len(q) \in Nat /\ k \in Nat
  OBVIOUS
<1> DEFINE a == SubSeq(q, 1, k)
           b == SubSeq(q, k + 1, Len(q))
<1>1. a \in Seq(X) /\ Len(a) = k /\ \A i \in 1..k : a[i] = q[i]
  OBVIOUS
<1>2. b \in Seq(X) /\ Len(b) = Len(q) - k /\ \A i \in 1..(Len(q) - k) : b[i] = q[i + k]
  OBVIOUS
<1> HIDE DEF a, b
<1>3. /\ a \o b \in Seq(X) /\ Len(a \o b) = Len(q)
      /\ \A i \in 1..Len(q) : (a \o b)[i] = IF i <= k THEN a[i] ELSE b[i - k]
  BY <1>0, <1>1, <1>2
<1>4. \A i \in 1..Len(q) : (a \o b)[i] = q[i]
  BY <1>0, <1>1, <1>2, <1>3
<1>5. a \o b = q
  BY <1>3, <1>4, SeqEqual
<1> QED
  BY <1>1, <1>2, <1>5 DEF a, b

LEMMA CountPart ==
    \A q \in Seq(Unit) : \A k \in 0..Len(q) : Count(SubSeq(q, 1, k)) <= Count(q)
<1>1. SUFFICES ASSUME NEW q \in Seq(Unit), NEW k \in 0..Len(q)
               PROVE  Count(SubSeq(q, 1, k)) <= Count(q)
  OBVIOUS
<1> DEFINE a == SubSeq(q, 1, k)
           b == SubSeq(q, k + 1, Len(q))
<1>2. a \in Seq(Unit) /\ b \in Seq(Unit) /\ q = a \o b
  BY <1>1, Halves
<1> HIDE DEF a, b
<1>3. Count(q) = Count(a) + Count(b)
  BY <1>2, CountConcat
<1>4. Count(a) \in Nat /\ Count(b) \in Nat
  BY <1>2, CountTyped
<1> QED
  BY <1>3, <1>4 DEF a

\* One unit more.
LEMMA OneMore ==
    ASSUME NEW X, NEW q \in Seq(X), NEW k \in Nat, k < Len(q)
    PROVE  SubSeq(q, 1, k + 1) = Append(SubSeq(q, 1, k), q[k + 1])
<1>0. Len(q) \in Nat
  OBVIOUS
<1> DEFINE a == SubSeq(q, 1, k)
           b == SubSeq(q, 1, k + 1)
<1>1. a \in Seq(X) /\ Len(a) = k /\ \A i \in 1..k : a[i] = q[i]
  BY <1>0
<1>2. b \in Seq(X) /\ Len(b) = k + 1 /\ \A i \in 1..(k + 1) : b[i] = q[i]
  BY <1>0
<1>3. q[k + 1] \in X
  BY <1>0
<1> HIDE DEF a, b
<1>4. /\ Append(a, q[k + 1]) \in Seq(X) /\ Len(Append(a, q[k + 1])) = k + 1
      /\ \A i \in 1..(k + 1) : Append(a, q[k + 1])[i] = IF i = k + 1 THEN q[k + 1] ELSE a[i]
  BY <1>1, <1>3, AppendProperties
<1>5. \A i \in 1..(k + 1) : Append(a, q[k + 1])[i] = b[i]
  BY <1>1, <1>2, <1>4
<1>6. Append(a, q[k + 1]) = b
  BY <1>2, <1>4, <1>5, SeqEqual
<1> QED
  BY <1>6 DEF a, b

\* A prefix stays one.
LEMMA PartOfConcat ==
    ASSUME NEW X, NEW p \in Seq(X), NEW q \in Seq(X), NEW k \in 0..Len(p)
    PROVE  SubSeq(p \o q, 1, k) = SubSeq(p, 1, k)
<1>0. Len(p) \in Nat /\ Len(q) \in Nat /\ p \o q \in Seq(X) /\ Len(p \o q) = Len(p) + Len(q)
      /\ \A i \in 1..Len(p) : (p \o q)[i] = p[i]
  BY ConcatProperties
<1> DEFINE a == SubSeq(p, 1, k)
           b == SubSeq(p \o q, 1, k)
<1>1. a \in Seq(X) /\ Len(a) = k /\ \A i \in 1..k : a[i] = p[i]
  BY <1>0
<1>2. b \in Seq(X) /\ Len(b) = k /\ \A i \in 1..k : b[i] = (p \o q)[i]
  <2> DEFINE r == p \o q
  <2>1. r \in Seq(X) /\ k \in 0..Len(r)
    BY <1>0
  <2> HIDE DEF r
  <2>2. SubSeq(r, 1, k) \in Seq(X) /\ Len(SubSeq(r, 1, k)) = k /\ \A i \in 1..k : SubSeq(r, 1, k)[i] = r[i]
    BY <2>1
  <2> QED
    BY <2>2 DEF r
<1> HIDE DEF a, b
<1>3. \A i \in 1..k : a[i] = b[i]
  BY <1>0, <1>1, <1>2
<1>4. a = b
  BY <1>1, <1>2, <1>3, SeqEqual
<1> QED
  BY <1>4 DEF a, b

\* Total is defined by a recursive function: Sums(q, n, f) says that f is its
\* first values.
SumsTo(q, n, f) == f = [i \in 0..n |-> IF i = 0 THEN 0 ELSE f[i - 1] + q[i]]

LEMMA SumsGrow ==
    ASSUME NEW q, NEW n \in Nat, n # 0, NEW f, SumsTo(q, n - 1, f)
    PROVE  \E g : SumsTo(q, n, g)
<1> DEFINE next(i) == IF i = 0 THEN 0 ELSE f[i - 1] + q[i]
           g == [i \in 0..n |-> next(i)]
           F == [i \in 0..(n - 1) |-> next(i)]
<1>1. f = F
  BY DEF SumsTo
<1>2. \A i \in 0..(n - 1) : F[i] = next(i)
  OBVIOUS
<1>3. \A i \in 0..n : g[i] = next(i)
  OBVIOUS
<1>4. \A i \in 0..(n - 1) : g[i] = f[i]
  <2>1. \A i \in 0..(n - 1) : i \in 0..n
    OBVIOUS
  <2> HIDE DEF F, g, next
  <2> QED
    BY <1>1, <1>2, <1>3, <2>1
<1>5. \A i \in 0..n : next(i) = IF i = 0 THEN 0 ELSE g[i - 1] + q[i]
  <2>1. \A i \in 0..n : i # 0 => i - 1 \in 0..(n - 1)
    OBVIOUS
  <2> HIDE DEF F, g
  <2> QED
    BY <1>4, <2>1
<1>6. g = [i \in 0..n |-> IF i = 0 THEN 0 ELSE g[i - 1] + q[i]]
  <2>1. g = [i \in 0..n |-> next(i)]
    OBVIOUS
  <2> HIDE DEF g, next
  <2> QED
    BY <1>5, <2>1
<1>7. SumsTo(q, n, g)
  <2> HIDE DEF g
  <2> QED
    BY <1>6 DEF SumsTo
<1> QED
  BY <1>7

LEMMA SumsExist ==
    ASSUME NEW q, Len(q) \in Nat
    PROVE  \E f : SumsTo(q, Len(q), f)
<1> DEFINE N == {n \in 0..Len(q) : ~\E f : SumsTo(q, n, f)}
<1>1. N = {}
  <2>1. SUFFICES ASSUME N # {} PROVE FALSE
    OBVIOUS
  <2>2. PICK n \in N : \A m \in N : ~(m < n)
    <3>1. N \in SUBSET Nat
      OBVIOUS
    <3> QED
      BY <2>1, <3>1, Least
  <2>3. n # 0
    <3>1. SumsTo(q, 0, [i \in 0..0 |-> 0])
      <4> DEFINE g == [i \in 0..0 |-> 0]
      <4>1. \A i \in 0..0 : 0 = IF i = 0 THEN 0 ELSE g[i - 1] + q[i]
        OBVIOUS
      <4> QED
        BY <4>1 DEF SumsTo
    <3> QED
      BY <3>1
  <2>4. PICK f : SumsTo(q, n - 1, f)
    BY <2>2, <2>3
  <2> QED
    BY <2>2, <2>3, <2>4, SumsGrow
<1> QED
  BY <1>1

LEMMA SumStep ==
    ASSUME NEW q, NEW n \in Nat, NEW f, SumsTo(q, n, f), NEW i \in 0..n
    PROVE  f[i] = IF i = 0 THEN 0 ELSE f[i - 1] + q[i]
<1> DEFINE F == [j \in 0..n |-> IF j = 0 THEN 0 ELSE f[j - 1] + q[j]]
<1>1. f = F
  BY DEF SumsTo
<1>2. F[i] = IF i = 0 THEN 0 ELSE f[i - 1] + q[i]
  OBVIOUS
<1> HIDE DEF F
<1> QED
  BY <1>1, <1>2

LEMMA TotalTyped == \A q \in Seq(Nat) : Total(q) \in Nat
<1>1. SUFFICES ASSUME NEW q \in Seq(Nat) PROVE Total(q) \in Nat
  OBVIOUS
<1>2. Len(q) \in Nat /\ \A i \in 1..Len(q) : q[i] \in Nat
  BY <1>1
<1> DEFINE F == CHOOSE f : SumsTo(q, Len(q), f)
<1>3. SumsTo(q, Len(q), F)
  BY <1>2, SumsExist
<1>4. Total(q) = F[Len(q)]
  BY DEF Total, SumsTo
<1> HIDE DEF F
<1> DEFINE B == {i \in 0..Len(q) : F[i] \notin Nat}
<1>5. B = {}
  <2>1. SUFFICES ASSUME B # {} PROVE FALSE
    OBVIOUS
  <2>2. PICK i \in B : \A j \in B : ~(j < i)
    <3>1. B \in SUBSET Nat
      OBVIOUS
    <3> QED
      BY <2>1, <3>1, Least
  <2>3. i \in 0..Len(q) /\ F[i] = IF i = 0 THEN 0 ELSE F[i - 1] + q[i]
    BY <1>2, <1>3, <2>2, SumStep
  <2>4. i # 0 => i - 1 \in 0..Len(q) /\ i - 1 < i
    BY <1>2, <2>3
  <2>5. i # 0 => F[i - 1] \in Nat
    BY <2>2, <2>4
  <2> QED
    BY <1>2, <2>2, <2>3, <2>5
<1>6. Len(q) \in 0..Len(q)
  BY <1>2
<1> QED
  BY <1>4, <1>5, <1>6

LEMMA LengthTyped == \A m \in Message : BodyLength(m) \in Nat
<1>1. SUFFICES ASSUME NEW m \in Message PROVE BodyLength(m) \in Nat
  OBVIOUS
<1>2. m.chunks \in Seq(Nat \ {0})
  BY DEF Message
<1>3. m.chunks \in Seq(Nat)
  BY <1>2, SeqMonotonic
<1> QED
  BY <1>3, TotalTyped DEF BodyLength

LEMMA NoLength == Total(<<>>) = 0
<1> DEFINE F == CHOOSE f : SumsTo(<<>>, 0, f)
<1>1. Len(<<>>) = 0
  OBVIOUS
<1>2. SumsTo(<<>>, 0, F)
  BY <1>1, SumsExist
<1>3. Total(<<>>) = F[0]
  BY <1>1 DEF Total, SumsTo
<1>4. F[0] = 0
  BY <1>2, SumStep
<1> QED
  BY <1>3, <1>4

\* Units and their numbers.
LEMMA UnitsTyped ==
    ASSUME NEW n \in Nat
    PROVE  /\ UnitTo(n) \subseteq Unit
           /\ \A u \in UnitTo(n) : u.of \in Nat /\ u.of <= n /\ u.kind \in UnitKind /\ u.size \in Nat
           /\ \A k \in UnitKind : \A i \in Nat : Piece(k, n, i) \in UnitTo(n)
           /\ LineEnd \in UnitTo(n)
           /\ \A m \in Nat : n <= m => UnitTo(n) \subseteq UnitTo(m)
<1>1. \A k \in UnitKind : \A i \in Nat : Piece(k, n, i) \in UnitTo(n)
  BY DEF UnitTo, Unit, Piece
<1>2. LineEnd \in UnitTo(n)
  BY DEF UnitTo, Unit, Piece, LineEnd, UnitKind
<1>3. \A m \in Nat : n <= m => UnitTo(n) \subseteq UnitTo(m)
  BY DEF UnitTo, Unit
<1> QED
  BY <1>1, <1>2, <1>3 DEF UnitTo, Unit

LEMMA UnitsWiden ==
    ASSUME NEW n \in Nat, NEW m \in Nat, n <= m, NEW q \in Seq(UnitTo(n))
    PROVE  q \in Seq(UnitTo(m))
<1>1. UnitTo(n) \subseteq UnitTo(m)
  BY UnitsTyped
<1> QED
  BY <1>1, SeqMonotonic

LEMMA UnitsAre ==
    ASSUME NEW n \in Nat, NEW q \in Seq(UnitTo(n))
    PROVE  q \in Seq(Unit)
<1>1. UnitTo(n) \subseteq Unit
  BY DEF UnitTo
<1> QED
  BY <1>1, SeqMonotonic

\* The bytes of a body.
LEMMA BytesTyped ==
    ASSUME NEW n \in Nat, NEW from \in Nat, NEW k \in Nat
    PROVE  /\ Bytes(n, from, k) \in Seq(UnitTo(n)) /\ Len(Bytes(n, from, k)) = k
           /\ \A i \in 1..k : Bytes(n, from, k)[i] = Piece("byte", n, from + i)
<1>1. \A i \in 1..k : Piece("byte", n, from + i) \in UnitTo(n)
  BY UnitsTyped DEF UnitKind
<1>2. Bytes(n, from, k) \in [1..k -> UnitTo(n)]
  BY <1>1 DEF Bytes
<1> QED
  BY <1>2 DEF Bytes

LEMMA NoBytes == \A n, from : Bytes(n, from, 0) = <<>>
  BY DEF Bytes

LEMMA OneMoreByte ==
    ASSUME NEW n \in Nat, NEW k \in Nat
    PROVE  Append(Bytes(n, 0, k), Piece("byte", n, k + 1)) = Bytes(n, 0, k + 1)
<1> DEFINE a == Bytes(n, 0, k)
           b == Bytes(n, 0, k + 1)
           u == Piece("byte", n, k + 1)
<1>1. a \in Seq(UnitTo(n)) /\ Len(a) = k /\ \A i \in 1..k : a[i] = Piece("byte", n, 0 + i)
  BY BytesTyped
<1>2. b \in Seq(UnitTo(n)) /\ Len(b) = k + 1 /\ \A i \in 1..(k + 1) : b[i] = Piece("byte", n, 0 + i)
  BY BytesTyped
<1>3. u \in UnitTo(n)
  BY UnitsTyped DEF UnitKind
<1> HIDE DEF a, b
<1>4. /\ Append(a, u) \in Seq(UnitTo(n)) /\ Len(Append(a, u)) = k + 1
      /\ \A i \in 1..(k + 1) : Append(a, u)[i] = IF i = k + 1 THEN u ELSE a[i]
  BY <1>1, <1>3, AppendProperties
<1>5. \A i \in 1..(k + 1) : Append(a, u)[i] = b[i]
  BY <1>1, <1>2, <1>4
<1>6. Append(a, u) = b
  BY <1>2, <1>4, <1>5, SeqEqual
<1> QED
  BY <1>6 DEF a, b

\* A chunk is its size, as many bytes and a line end.
IsChunk(c, k) ==
    /\ Len(c) = k + 2 /\ c[1].kind = "size" /\ c[1].size = k
    /\ \A b \in 2..(k + 1) : c[b].kind = "byte"
    /\ c[k + 2] = LineEnd

LEMMA ChunkTyped ==
    ASSUME NEW m \in Message, NEW n \in Nat, NEW i \in 1..Len(m.chunks)
    PROVE  /\ Chunk(m, n, i) \in Seq(UnitTo(n)) /\ m.chunks[i] \in Nat \ {0}
           /\ IsChunk(Chunk(m, n, i), m.chunks[i])
<1>1. m.chunks \in Seq(Nat \ {0}) /\ m.chunks[i] \in Nat \ {0}
  <2>1. m.chunks \in Seq(Nat \ {0})
    BY DEF Message
  <2> QED
    BY <2>1
<1> DEFINE k == m.chunks[i]
           from == Total(SubSeq(m.chunks, 1, i - 1))
           b == Bytes(n, from, k)
           s == <<Piece("size", n, k)>>
           e == <<LineEnd>>
<1>2. from \in Nat
  <2>1. m.chunks \in Seq(Nat)
    BY <1>1, SeqMonotonic
  <2>2. SubSeq(m.chunks, 1, i - 1) \in Seq(Nat)
    BY <2>1
  <2> QED
    BY <2>2, TotalTyped
<1>3. k \in Nat \ {0}
  BY <1>1
<1>4. /\ b \in Seq(UnitTo(n)) /\ Len(b) = k
      /\ \A j \in 1..k : b[j] = Piece("byte", n, from + j)
  <2> HIDE DEF k, from
  <2> QED
    BY <1>2, <1>3, BytesTyped
<1>5. /\ s \in Seq(UnitTo(n)) /\ Len(s) = 1 /\ s[1].kind = "size" /\ s[1].size = k
  <2>1. Piece("size", n, k) \in UnitTo(n)
    BY <1>3, UnitsTyped DEF UnitKind
  <2> HIDE DEF k
  <2> QED
    BY <2>1 DEF Piece
<1>6. e \in Seq(UnitTo(n)) /\ Len(e) = 1 /\ e[1] = LineEnd
  BY UnitsTyped
<1>7. Chunk(m, n, i) = (s \o b) \o e
  BY Zenon DEF Chunk
<1> HIDE DEF k, from, b, s, e
<1>8. \A j \in 1..k : b[j].kind = "byte"
  BY <1>4 DEF Piece
<1> DEFINE sb == s \o b
<1>9. /\ sb \in Seq(UnitTo(n)) /\ Len(sb) = 1 + k
      /\ sb[1] = s[1] /\ \A j \in 1..k : sb[1 + j] = b[j]
  <2>0. s \in Seq(UnitTo(n)) /\ b \in Seq(UnitTo(n))
    BY <1>4, <1>5
  <2>1. /\ sb \in Seq(UnitTo(n)) /\ Len(sb) = Len(s) + Len(b)
        /\ \A j \in 1..Len(s) : sb[j] = s[j]
        /\ \A j \in 1..Len(b) : sb[Len(s) + j] = b[j]
    BY <2>0, Joined
  <2> HIDE DEF sb
  <2> QED
    BY <1>4, <1>5, <2>1
<1>10. \A j \in 2..(k + 1) : sb[j].kind = "byte"
  <2>1. SUFFICES ASSUME NEW j \in 2..(k + 1) PROVE sb[j].kind = "byte"
    OBVIOUS
  <2>2. j - 1 \in 1..k /\ j = 1 + (j - 1)
    BY <1>3
  <2> HIDE DEF sb
  <2> QED
    BY <1>8, <1>9, <2>2
<1> DEFINE r == sb \o e
<1>11. /\ r \in Seq(UnitTo(n)) /\ Len(r) = k + 2
       /\ \A j \in 1..(k + 1) : r[j] = sb[j]
       /\ r[k + 2] = LineEnd
  <2> HIDE DEF sb
  <2>0. sb \in Seq(UnitTo(n)) /\ e \in Seq(UnitTo(n))
    BY <1>6, <1>9
  <2> HIDE DEF e
  <2>1. /\ r \in Seq(UnitTo(n)) /\ Len(r) = Len(sb) + Len(e)
        /\ \A j \in 1..Len(sb) : r[j] = sb[j]
        /\ \A j \in 1..Len(e) : r[Len(sb) + j] = e[j]
    BY <2>0, Joined
  <2>2. Len(sb) + Len(e) = k + 2 /\ Len(sb) + 1 = k + 2 /\ Len(sb) = k + 1
    BY <1>3, <1>6, <1>9
  <2> HIDE DEF r
  <2> QED
    BY <1>6, <2>1, <2>2
<1>12. IsChunk(r, k)
  <2> HIDE DEF r, sb
  <2>1. 1 \in 1..(k + 1) /\ \A j \in 2..(k + 1) : j \in 1..(k + 1)
    BY <1>3
  <2> QED
    BY <1>5, <1>9, <1>10, <1>11, <2>1 DEF IsChunk
<1>13. Chunk(m, n, i) = r
  BY <1>7
<1> HIDE DEF r
<1> QED
  BY <1>1, <1>11, <1>12, <1>13 DEF k

\* Chunks one after another.
ChunksOnly(q) ==
    /\ Len(q) > 0 => q[1].kind = "size"
    /\ \A i \in 1..Len(q) : q[i].kind = "size" =>
         LET k == q[i].size
         IN  /\ k > 0 /\ i + k + 1 <= Len(q)
             /\ \A b \in (i + 1)..(i + k) : q[b].kind = "byte"
             /\ q[i + k + 1] = LineEnd
             /\ i + k + 1 < Len(q) => q[i + k + 2].kind = "size"

LEMMA ChunksGrow ==
    ASSUME NEW n \in Nat, NEW q \in Seq(UnitTo(n)), ChunksOnly(q),
           NEW c \in Seq(UnitTo(n)), NEW k \in Nat \ {0}, IsChunk(c, k)
    PROVE  ChunksOnly(q \o c)
<1>1. Len(q) \in Nat /\ Len(c) = k + 2 /\ Len(c) \in Nat
  BY DEF IsChunk
<1> DEFINE r == q \o c
<1>2. /\ Len(r) = Len(q) + k + 2
      /\ \A i \in 1..Len(q) : r[i] = q[i]
      /\ \A i \in 1..(k + 2) : r[Len(q) + i] = c[i]
  <2>1. /\ Len(r) = Len(q) + k + 2
        /\ \A i \in 1..(Len(q) + k + 2) : r[i] = IF i <= Len(q) THEN q[i] ELSE c[i - Len(q)]
    BY <1>1
  <2> HIDE DEF r
  <2> QED
    BY <1>1, <2>1
<1> HIDE DEF r
<1>3. c[1].kind = "size" /\ c[1].size = k /\ c[k + 2] = LineEnd /\ (\A b \in 2..(k + 1) : c[b].kind = "byte")
  BY DEF IsChunk
<1>4. \A i \in 1..Len(q) : q[i].size \in Nat
  <2>1. \A i \in 1..Len(q) : q[i] \in UnitTo(n)
    OBVIOUS
  <2> QED
    BY <2>1, UnitsTyped
<1>5. r[Len(q) + 1].kind = "size"
  BY <1>1, <1>2, <1>3
<1>6. r[1].kind = "size"
  BY <1>1, <1>2, <1>5 DEF ChunksOnly
<1>7. ASSUME NEW i \in 1..Len(r), r[i].kind = "size"
      PROVE  /\ r[i].size > 0 /\ i + r[i].size + 1 <= Len(r)
             /\ \A b \in (i + 1)..(i + r[i].size) : r[b].kind = "byte"
             /\ r[i + r[i].size + 1] = LineEnd
             /\ i + r[i].size + 1 < Len(r) => r[i + r[i].size + 2].kind = "size"
  <2>1. CASE i <= Len(q)
    <3>1. r[i] = q[i] /\ q[i].kind = "size" /\ i \in 1..Len(q)
      BY <1>2, <1>7, <2>1
    <3>2. /\ q[i].size > 0 /\ i + q[i].size + 1 <= Len(q)
          /\ \A b \in (i + 1)..(i + q[i].size) : q[b].kind = "byte"
          /\ q[i + q[i].size + 1] = LineEnd
          /\ i + q[i].size + 1 < Len(q) => q[i + q[i].size + 2].kind = "size"
      BY <3>1 DEF ChunksOnly
    <3> DEFINE z == q[i].size
    <3>3. z \in Nat /\ i \in Nat
      BY <1>4, <3>1
    <3> HIDE DEF z
    <3>4. z > 0 /\ i + z + 1 <= Len(r)
      BY <1>1, <1>2, <3>2, <3>3 DEF z
    <3>5. \A b \in (i + 1)..(i + z) : r[b].kind = "byte"
      <4>1. \A b \in (i + 1)..(i + z) : b \in 1..Len(q)
        BY <1>1, <3>2, <3>3 DEF z
      <4> QED
        BY <1>2, <3>2, <4>1 DEF z
    <3>6. r[i + z + 1] = LineEnd
      <4>1. i + z + 1 \in 1..Len(q)
        BY <1>1, <3>2, <3>3, SMTT(30) DEF z
      <4> QED
        BY <1>2, <3>2, <4>1 DEF z
    <3>7. r[i + z + 2].kind = "size"
      <4>1. CASE i + z + 1 < Len(q)
        <5>1. i + z + 2 \in 1..Len(q)
          BY <1>1, <3>3, <4>1
        <5> QED
          BY <1>2, <3>2, <4>1, <5>1 DEF z
      <4>2. CASE ~(i + z + 1 < Len(q))
        <5>1. i + z + 1 <= Len(q)
          BY <3>2 DEF z
        <5>2. i + z + 2 = Len(q) + 1
          BY <1>1, <3>3, <4>2, <5>1
        <5> QED
          BY <1>5, <5>2
      <4> QED
        BY <4>1, <4>2
    <3> QED
      BY <3>1, <3>4, <3>5, <3>6, <3>7 DEF z
  <2>2. CASE i > Len(q)
    <3>1. PICK j \in 1..(k + 2) : i = Len(q) + j
      <4>1. i - Len(q) \in 1..(k + 2) /\ i = Len(q) + (i - Len(q))
        BY <1>1, <1>2, <2>2
      <4> QED
        BY <4>1
    <3>2. r[i] = c[j]
      BY <1>2, <3>1
    <3>3. j = 1
      <4>1. j \in 2..(k + 1) => c[j].kind = "byte"
        BY <1>3
      <4>2. j = k + 2 => c[j].kind = "crlf"
        BY <1>3 DEF LineEnd, Piece
      <4> QED
        BY <1>7, <3>1, <3>2, <4>1, <4>2
    <3>4. r[i].size = k /\ i = Len(q) + 1
      BY <1>3, <3>1, <3>2, <3>3
    <3>5. \A b \in (i + 1)..(i + k) : r[b].kind = "byte"
      <4>1. ASSUME NEW b \in (i + 1)..(i + k) PROVE r[b].kind = "byte"
        <5>1. b - Len(q) \in 2..(k + 1) /\ b = Len(q) + (b - Len(q)) /\ b - Len(q) \in 1..(k + 2)
          BY <1>1, <3>4, <4>1
        <5>2. r[b] = c[b - Len(q)]
          BY <1>2, <5>1
        <5> QED
          BY <1>3, <5>1, <5>2
      <4> QED
        BY <4>1
    <3>6. r[i + k + 1] = LineEnd
      <4>1. i + k + 1 = Len(q) + (k + 2) /\ k + 2 \in 1..(k + 2)
        <5> DEFINE b == Len(q)
        <5>1. k \in Nat /\ b \in Nat /\ i = b + 1
          BY <1>1, <3>4
        <5> HIDE DEF b
        <5>2. i + k + 1 = b + (k + 2) /\ k + 2 \in 1..(k + 2)
          BY <5>1
        <5> QED
          BY <5>2 DEF b
      <4>2. r[Len(q) + (k + 2)] = c[k + 2]
        BY <1>2, <4>1
      <4> QED
        BY <1>3, <4>1, <4>2
    <3>7. i + k + 1 = Len(r) /\ k > 0
      BY <1>1, <1>2, <3>4
    <3> QED
      BY <1>1, <3>4, <3>5, <3>6, <3>7
  <2> QED
    BY <1>1, <1>7, <2>1, <2>2
<1>8. ChunksOnly(r)
  BY <1>6, <1>7 DEF ChunksOnly
<1> QED
  BY <1>8 DEF r

\* The chunks of a body.
Chunks(m, n, k) == FlattenSeq([i \in 1..k |-> Chunk(m, n, i)])

LEMMA ChunksTyped ==
    ASSUME NEW m \in Message, NEW n \in Nat, NEW k \in 0..Len(m.chunks)
    PROVE  Chunks(m, n, k) \in Seq(UnitTo(n)) /\ ChunksOnly(Chunks(m, n, k))
<1>0. Len(m.chunks) \in Nat
  BY DEF Message
<1> DEFINE P(i) == Chunks(m, n, i) \in Seq(UnitTo(n)) /\ ChunksOnly(Chunks(m, n, i))
           N == {i \in 0..Len(m.chunks) : ~P(i)}
           Of(j) == [i \in 1..j |-> Chunk(m, n, i)]
<1>1. \A j \in 0..Len(m.chunks) : Of(j) \in Seq(Seq(UnitTo(n)))
  <2>1. SUFFICES ASSUME NEW j \in 0..Len(m.chunks) PROVE Of(j) \in Seq(Seq(UnitTo(n)))
    OBVIOUS
  <2>2. \A i \in 1..j : Chunk(m, n, i) \in Seq(UnitTo(n))
    BY <1>0, ChunkTyped
  <2>3. Of(j) \in [1..j -> Seq(UnitTo(n))]
    BY <2>2
  <2> QED
    BY <1>0, <2>3
<1>2. N = {}
  <2>1. SUFFICES ASSUME N # {} PROVE FALSE
    OBVIOUS
  <2>2. PICK j \in N : \A l \in N : ~(l < j)
    <3>1. N \in SUBSET Nat
      OBVIOUS
    <3> QED
      BY <2>1, <3>1, Least
  <2>3. CASE j = 0
    <3>1. [i \in 1..0 |-> Chunk(m, n, i)] = <<>>
      OBVIOUS
    <3>2. Chunks(m, n, 0) = <<>>
      BY <3>1 DEF Chunks, FlattenSeq
    <3>3. <<>> \in Seq(UnitTo(n)) /\ ChunksOnly(<<>>)
      BY DEF ChunksOnly
    <3>4. P(0)
      BY <3>2, <3>3
    <3> QED
      BY <2>2, <2>3, <3>4
  <2>4. CASE j # 0
    <3>1. j - 1 \in 0..Len(m.chunks) /\ j \in 1..Len(m.chunks) /\ j - 1 < j
      BY <1>0, <2>2, <2>4
    <3>2. P(j - 1)
      BY <2>2, <3>1
    <3>3. /\ Chunk(m, n, j) \in Seq(UnitTo(n)) /\ m.chunks[j] \in Nat \ {0}
          /\ IsChunk(Chunk(m, n, j), m.chunks[j])
      BY <3>1, ChunkTyped
    <3>4. Of(j) = Append(Of(j - 1), Chunk(m, n, j))
      <4> DEFINE c == Chunk(m, n, j)
                 a == Of(j - 1)
                 b == Of(j)
      <4>1. a \in Seq(Seq(UnitTo(n))) /\ Len(a) = j - 1 /\ \A i \in 1..(j - 1) : a[i] = Chunk(m, n, i)
        BY <1>1, <3>1
      <4>2. b \in Seq(Seq(UnitTo(n))) /\ Len(b) = j /\ \A i \in 1..j : b[i] = Chunk(m, n, i)
        BY <1>1, <3>1
      <4>3. c = Chunk(m, n, j)
        OBVIOUS
      <4> HIDE DEF a, b, c, Of
      <4>4. /\ Append(a, c) \in Seq(Seq(UnitTo(n))) /\ Len(Append(a, c)) = j
            /\ \A i \in 1..j : Append(a, c)[i] = IF i = j THEN c ELSE a[i]
        BY <3>1, <3>3, <4>1, <4>3, AppendProperties
      <4>5. \A i \in 1..j : Append(a, c)[i] = b[i]
        BY <3>1, <4>1, <4>2, <4>3, <4>4
      <4>6. Append(a, c) = b
        BY <4>2, <4>4, <4>5, SeqEqual
      <4> QED
        BY <4>6 DEF a, b, c
    <3>5. FlattenSeq(Of(j)) = FlattenSeq(Of(j - 1)) \o Chunk(m, n, j)
      <4> HIDE DEF Of
      <4>1. Of(j - 1) \in Seq(Seq(UnitTo(n)))
        BY <1>1, <3>1
      <4> QED
        BY <3>3, <3>4, <4>1, FlattenAppend
    <3>6. Chunks(m, n, j) = Chunks(m, n, j - 1) \o Chunk(m, n, j)
      BY <3>5 DEF Chunks
    <3>7. ChunksOnly(Chunks(m, n, j))
      <4> HIDE DEF Of
      <4> QED
        BY <3>2, <3>3, <3>6, ChunksGrow
    <3>8. Chunks(m, n, j) \in Seq(UnitTo(n))
      BY <3>2, <3>3, <3>6, ConcatProperties
    <3> QED
      BY <2>2, <3>7, <3>8
  <2> QED
    BY <2>3, <2>4
<1> QED
  BY <1>2

LEMMA Steps ==
    \A i, z, l \in Nat :
       /\ i + z + 1 <= l /\ ~(i + z + 1 < l) => i + z + 2 = l + 1
       /\ i + 1 + z = i + z + 1 /\ i + 1 + z + 1 = i + z + 2 /\ i + 1 + z - 1 = i + z
       /\ \A k \in Nat : i + z + 1 <= l /\ k > 0 => i + 1 + z < l + k
OBVIOUS

LEMMA Positive == \A x \in Nat : x = 2 \/ x = 3 => x > 0
OBVIOUS

\* What ends a chunked body: the size 0, a trailer field or none, a line end.
IsEnding(w) ==
    /\ (Len(w) = 2 \/ Len(w) = 3) /\ w[1].kind = "size" /\ w[1].size = 0
    /\ w[Len(w)] = LineEnd
    /\ Len(w) = 3 => w[2].kind = "trailer"

LEMMA TwoUnits ==
    ASSUME NEW X, NEW a \in X, NEW b \in X
    PROVE  <<a>> \o <<b>> = <<a, b>>
<1> DEFINE r == <<a>> \o <<b>>
           q == <<a, b>>
<1>1. <<a>> \in Seq(X) /\ <<b>> \in Seq(X) /\ Len(<<a>>) = 1 /\ Len(<<b>>) = 1
  OBVIOUS
<1>2. /\ r \in Seq(X) /\ Len(r) = 1 + 1
      /\ \A i \in 1..1 : r[i] = <<a>>[i]
      /\ \A i \in 1..1 : r[1 + i] = <<b>>[i]
  BY <1>1, Joined
<1>3. q \in Seq(X) /\ Len(q) = 2 /\ q[1] = a /\ q[2] = b
  OBVIOUS
<1> HIDE DEF r, q
<1>4. r[1] = a /\ r[2] = b
  BY <1>2
<1>5. \A i \in 1..2 : r[i] = q[i]
  BY <1>3, <1>4
<1>6. r = q
  BY <1>2, <1>3, <1>5, SeqEqual
<1> QED
  BY <1>6 DEF r, q

LEMMA Pair ==
    ASSUME NEW X, NEW a \in X, NEW b \in X
    PROVE  <<a>> \o (<<>> \o <<b>>) = <<a, b>>
<1>1. <<b>> \in Seq(X)
  OBVIOUS
<1>2. <<>> \o <<b>> = <<b>>
  BY <1>1, ConcatEmptySeq
<1> QED
  BY <1>2, TwoUnits

LEMMA Triple ==
    ASSUME NEW X, NEW a \in X, NEW b \in X, NEW c \in X
    PROVE  <<a>> \o (<<b>> \o <<c>>) = <<a, b, c>>
<1> DEFINE r == <<a>> \o <<b, c>>
           q == <<a, b, c>>
<1>1. <<a>> \in Seq(X) /\ <<b, c>> \in Seq(X) /\ Len(<<a>>) = 1 /\ Len(<<b, c>>) = 2
  OBVIOUS
<1>2. /\ r \in Seq(X) /\ Len(r) = 1 + 2
      /\ \A i \in 1..1 : r[i] = <<a>>[i]
      /\ \A i \in 1..2 : r[1 + i] = <<b, c>>[i]
  BY <1>1, Joined
<1>3. q \in Seq(X) /\ Len(q) = 3 /\ q[1] = a /\ q[2] = b /\ q[3] = c
  OBVIOUS
<1> HIDE DEF r, q
<1>4. r[1] = a /\ r[2] = b /\ r[3] = c
  BY <1>2
<1>5. \A i \in 1..3 : r[i] = q[i]
  BY <1>3, <1>4
<1>6. r = q
  BY <1>2, <1>3, <1>5, SeqEqual
<1>7. <<b>> \o <<c>> = <<b, c>>
  BY TwoUnits
<1> QED
  BY <1>6, <1>7 DEF r, q

LEMMA EndingOf ==
    ASSUME NEW n \in Nat, NEW t \in BOOLEAN
    PROVE  LET w == <<Piece("size", n, 0)>>
                      \o ((IF t THEN <<Piece("trailer", n, 0)>> ELSE <<>>) \o <<LineEnd>>)
           IN  w \in Seq(UnitTo(n)) /\ IsEnding(w)
<1> DEFINE a == Piece("size", n, 0)
           b == Piece("trailer", n, 0)
<1>1. a \in UnitTo(n) /\ b \in UnitTo(n) /\ LineEnd \in UnitTo(n)
  BY UnitsTyped DEF UnitKind
<1>2. a.kind = "size" /\ a.size = 0 /\ b.kind = "trailer"
  BY DEF Piece
<1> HIDE DEF a, b
<1>3. CASE t
  <2>1. <<a>> \o (<<b>> \o <<LineEnd>>) = <<a, b, LineEnd>>
    BY <1>1, Triple
  <2>2. <<a, b, LineEnd>> \in Seq(UnitTo(n))
    BY <1>1
  <2>3. IsEnding(<<a, b, LineEnd>>)
    BY <1>2 DEF IsEnding
  <2> QED
    BY <1>3, <2>1, <2>2, <2>3 DEF a, b
<1>4. CASE ~t
  <2>1. <<a>> \o (<<>> \o <<LineEnd>>) = <<a, LineEnd>>
    BY <1>1, Pair
  <2>2. <<a, LineEnd>> \in Seq(UnitTo(n))
    BY <1>1
  <2>3. IsEnding(<<a, LineEnd>>)
    BY <1>2 DEF IsEnding
  <2> QED
    BY <1>4, <2>1, <2>2, <2>3 DEF a, b
<1> QED
  BY <1>3, <1>4

LEMMA EndedChunks ==
    ASSUME NEW n \in Nat, NEW v \in Seq(UnitTo(n)), ChunksOnly(v),
           NEW w \in Seq(UnitTo(n)), IsEnding(w)
    PROVE  ChunkAt(v \o w, 1) /\ Sized(v \o w, 1)
<1> DEFINE r == v \o w
           l == Len(v)
<1>1. /\ r \in Seq(UnitTo(n)) /\ Len(r) = l + Len(w)
      /\ \A i \in 1..l : r[i] = v[i]
      /\ \A i \in 1..Len(w) : r[l + i] = w[i]
  BY Joined
<1>2. l \in Nat /\ (Len(w) = 2 \/ Len(w) = 3)
  BY DEF IsEnding
<1>10. Len(w) \in Nat /\ Len(w) > 0
  <2>1. Len(w) \in Nat
    BY LenProperties
  <2> QED
    BY <1>2, <2>1, Positive
<1>3. /\ w[1].kind = "size" /\ w[1].size = 0 /\ w[Len(w)] = LineEnd
      /\ Len(w) = 3 => w[2].kind = "trailer"
  BY DEF IsEnding
<1> HIDE DEF r
<1>4. r[l + 1] = w[1] /\ r[l + Len(w)] = LineEnd /\ (Len(w) = 3 => r[l + 2].kind = "trailer")
  <2>1. r[l + 1] = w[1]
    BY <1>1, <1>2
  <2>2. r[l + Len(w)] = w[Len(w)]
    BY <1>1, <1>2
  <2>3. Len(w) = 3 => r[l + 2] = w[2]
    BY <1>1, <1>2
  <2> QED
    BY <1>3, <2>1, <2>2, <2>3
<1> HIDE DEF l
<1>5. r[l + 1].kind = "size" /\ r[l + 1].size = 0
  BY <1>3, <1>4
<1>6. TrailerAt(r, l + 2)
  <2>1. CASE Len(w) = 2
    BY <1>1, <1>2, <1>4, <2>1 DEF TrailerAt
  <2>2. CASE Len(w) = 3
    <3>1. Len(r) = l + 2 + 1 /\ l + 2 + 1 = l + Len(w)
      BY <1>1, <1>2, <2>2
    <3> QED
      BY <1>4, <2>2, <3>1 DEF TrailerAt
  <2> QED
    BY <1>2, <2>1, <2>2
<1>7. ChunkAt(r, 1)
  <2>1. 1 <= Len(r)
    BY <1>1, <1>2, <1>10
  <2>2. CASE l = 0
    BY <1>5, <2>1, <2>2 DEF ChunkAt
  <2>3. CASE l # 0
    <3>1. r[1] = v[1] /\ v[1].kind = "size"
      BY <1>1, <1>2, <2>3 DEF ChunksOnly, l
    <3> QED
      BY <2>1, <3>1 DEF ChunkAt
  <2> QED
    BY <2>2, <2>3
<1>8. ASSUME NEW i \in 1..Len(r), r[i].kind = "size"
      PROVE  IF r[i].size = 0 THEN TrailerAt(r, i + 1) ELSE DataAt(r, i + 1, r[i].size)
  <2>1. CASE i <= l
    <3>1. i \in 1..l /\ i \in Nat /\ r[i] = v[i] /\ v[i].kind = "size"
      BY <1>1, <1>2, <1>8, <2>1
    <3>2. /\ v[i].size > 0 /\ i + v[i].size + 1 <= l
          /\ \A b \in (i + 1)..(i + v[i].size) : v[b].kind = "byte"
          /\ v[i + v[i].size + 1] = LineEnd
          /\ i + v[i].size + 1 < l => v[i + v[i].size + 2].kind = "size"
      BY <3>1 DEF ChunksOnly, l
    <3> DEFINE z == v[i].size
    <3>3. z \in Nat
      <4>1. v[i] \in UnitTo(n)
        BY <3>1 DEF l
      <4> QED
        BY <4>1, UnitsTyped
    <3>4. /\ z > 0 /\ i + z + 1 <= l
          /\ \A b \in (i + 1)..(i + z) : v[b].kind = "byte"
          /\ v[i + z + 1] = LineEnd
          /\ i + z + 1 < l => v[i + z + 2].kind = "size"
      BY <3>2
    <3> HIDE DEF z
    <3>5. \A b \in (i + 1)..(i + z) : r[b].kind = "byte"
      <4>1. \A b \in (i + 1)..(i + z) : b \in 1..l
        BY <1>2, <3>1, <3>3, <3>4
      <4> QED
        BY <1>1, <3>4, <4>1
    <3>6. r[i + z + 1] = LineEnd
      <4>1. i + z + 1 \in 1..l
        BY <1>2, <3>1, <3>3, <3>4
      <4> QED
        BY <1>1, <3>4, <4>1
    <3>7. r[i + z + 2].kind = "size"
      <4>1. CASE i + z + 1 < l
        <5>1. i + z + 2 \in 1..l
          BY <1>2, <3>1, <3>3, <4>1
        <5> QED
          BY <1>1, <3>4, <4>1, <5>1
      <4>2. CASE ~(i + z + 1 < l)
        <5>1. i + z + 1 <= l
          BY <3>4
        <5>2. i + z + 2 = l + 1
          BY <1>2, <3>1, <3>3, <4>2, <5>1, Steps
        <5> QED
          BY <1>5, <5>2
      <4> QED
        BY <4>1, <4>2
    <3>8. /\ i + 1 + z < Len(r) /\ i + 1 + z = i + z + 1 /\ i + 1 + z + 1 = i + z + 2
          /\ i + 1 + z - 1 = i + z
      <4>1. i + z + 1 <= l
        BY <3>4
      <4>2. i \in Nat /\ z \in Nat /\ l \in Nat /\ Len(w) \in Nat /\ Len(w) > 0
        BY <1>2, <1>10, <3>1, <3>3
      <4>3. i + 1 + z < l + Len(w)
        BY <4>1, <4>2, Steps
      <4> QED
        BY <1>1, <4>2, <4>3, Steps
    <3>9. DataAt(r, i + 1, z)
      BY <3>5, <3>6, <3>7, <3>8 DEF DataAt
    <3>10. r[i].size = z /\ z # 0
      BY <3>1, <3>3, <3>4 DEF z
    <3> QED
      BY <3>9, <3>10
  <2>2. CASE i > l
    <3>1. i = l + 1
      <4>1. i \in Nat /\ i <= l + Len(w)
        BY <1>1, <1>2
      <4>2. i # l + Len(w)
        BY <1>4, <1>8 DEF LineEnd, Piece
      <4>3. Len(w) = 3 => i # l + 2
        BY <1>4, <1>8
      <4> QED
        <5> DEFINE k == Len(w)
        <5>1. i \in Nat /\ i <= l + k /\ l \in Nat /\ k \in {2, 3} /\ i > l /\ i # l + k /\ (k = 3 => i # l + 2)
          BY <1>2, <2>2, <4>1, <4>2, <4>3
        <5> HIDE DEF k
        <5> QED
          BY <5>1
    <3>2. i + 1 = l + 2
      BY <1>2, <3>1
    <3> QED
      BY <1>5, <1>6, <3>1, <3>2
  <2> QED
    BY <1>1, <1>2, <2>1, <2>2
<1>9. Sized(r, 1)
  BY <1>8 DEF Sized
<1> QED
  BY <1>7, <1>9 DEF r

\* The body of message n.
LEMMA BodyTyped ==
    ASSUME NEW m \in Message, NEW n \in Nat
    PROVE  /\ BodyUnits(m, n) \in Seq(UnitTo(n))
           /\ m.framing \in {"none", "length"} => BodyUnits(m, n) = Bytes(n, 0, BodyLength(m))
           /\ m.framing \notin {"none", "length"} =>
                ChunkAt(BodyUnits(m, n), 1) /\ Sized(BodyUnits(m, n), 1)
<1>1. /\ m.framing \in {"none", "length", "chunked", "both"} /\ m.trailer \in BOOLEAN
      /\ m.chunks \in Seq(Nat \ {0})
  BY DEF Message
<1>2. CASE m.framing \in {"none", "length"}
  <2>1. BodyUnits(m, n) = Bytes(n, 0, BodyLength(m))
    BY <1>2 DEF BodyUnits
  <2>2. BodyLength(m) \in Nat
    BY LengthTyped
  <2>3. Bytes(n, 0, BodyLength(m)) \in Seq(UnitTo(n))
    BY <2>2, BytesTyped
  <2> QED
    BY <1>2, <2>1, <2>3
<1>3. CASE m.framing \notin {"none", "length"}
  <2> DEFINE v == Chunks(m, n, Len(m.chunks))
             s == <<Piece("size", n, 0)>>
             t == IF m.trailer THEN <<Piece("trailer", n, 0)>> ELSE <<>>
             e == <<LineEnd>>
             w == s \o (t \o e)
  <2>1. v \in Seq(UnitTo(n)) /\ ChunksOnly(v)
    <3>1. Len(m.chunks) \in 0..Len(m.chunks)
      BY <1>1
    <3> QED
      BY <3>1, ChunksTyped
  <2>2. w \in Seq(UnitTo(n)) /\ IsEnding(w)
    BY <1>1, EndingOf
  <2>3. s \in Seq(UnitTo(n)) /\ t \in Seq(UnitTo(n)) /\ e \in Seq(UnitTo(n))
    <3>1. Piece("size", n, 0) \in UnitTo(n) /\ Piece("trailer", n, 0) \in UnitTo(n) /\ LineEnd \in UnitTo(n)
      BY UnitsTyped DEF UnitKind
    <3> QED
      BY <3>1
  <2>4. BodyUnits(m, n) = ((v \o s) \o t) \o e
    <3>1. m.framing \in {"chunked", "both"} /\ DOMAIN m.chunks = 1..Len(m.chunks)
      BY <1>1, <1>3
    <3> QED
      BY <3>1, Zenon DEF BodyUnits, Chunks
  <2> HIDE DEF v, s, t, e
  <2>5. ((v \o s) \o t) \o e = (v \o s) \o (t \o e)
    <3>1. v \o s \in Seq(UnitTo(n))
      BY <2>1, <2>3, ConcatProperties
    <3> QED
      BY <2>3, <3>1, Associates, SMTT(30)
  <2>6. (v \o s) \o (t \o e) = v \o w
    <3>1. t \o e \in Seq(UnitTo(n))
      BY <2>3, ConcatProperties
    <3> HIDE DEF w
    <3> DEFINE x == t \o e
    <3>2. v \in Seq(UnitTo(n)) /\ s \in Seq(UnitTo(n)) /\ x \in Seq(UnitTo(n))
      BY <2>1, <2>3, <3>1
    <3> HIDE DEF x
    <3>3. (v \o s) \o x = v \o (s \o x)
      BY <3>2, Associates
    <3> QED
      BY <3>3 DEF w, x
  <2> HIDE DEF w
  <2>7. ChunkAt(v \o w, 1) /\ Sized(v \o w, 1)
    BY <2>1, <2>2, EndedChunks
  <2>8. v \o w \in Seq(UnitTo(n))
    BY <2>1, <2>2, ConcatProperties
  <2> QED
    BY <1>3, <2>4, <2>5, <2>6, <2>7, <2>8
<1> QED
  BY <1>2, <1>3

\* What stands in u stands behind p, too.
LEMMA ShiftTrailer ==
    ASSUME NEW X, NEW p \in Seq(X), NEW u \in Seq(X), NEW j \in Nat \ {0}
    PROVE  TrailerAt(u, j) => TrailerAt(p \o u, Len(p) + j)
<1> DEFINE r == p \o u
           l == Len(p)
<1>1. /\ Len(r) = l + Len(u) /\ \A i \in 1..Len(u) : r[l + i] = u[i]
      /\ l \in Nat /\ Len(u) \in Nat
  BY Joined
<1>2. SUFFICES ASSUME TrailerAt(u, j) PROVE TrailerAt(r, l + j)
  OBVIOUS
<1> HIDE DEF r, l
<1>3. CASE Len(u) = j /\ u[j] = LineEnd
  <2>1. j \in 1..Len(u)
    BY <1>1, <1>3
  <2>2. Len(r) = l + j /\ r[l + j] = LineEnd
    BY <1>1, <1>3, <2>1
  <2> QED
    BY <2>2 DEF TrailerAt
<1>4. CASE Len(u) = j + 1 /\ u[j].kind = "trailer" /\ u[j + 1] = LineEnd
  <2>1. j \in 1..Len(u) /\ j + 1 \in 1..Len(u)
    BY <1>1, <1>4
  <2>2. Len(r) = l + j + 1 /\ l + (j + 1) = l + j + 1
    BY <1>1, <1>4
  <2>3. r[l + j] = u[j] /\ r[l + (j + 1)] = u[j + 1]
    BY <1>1, <2>1
  <2> QED
    BY <1>4, <2>2, <2>3 DEF TrailerAt
<1> QED
  BY <1>2, <1>3, <1>4 DEF TrailerAt

LEMMA ShiftData ==
    ASSUME NEW X, NEW p \in Seq(X), NEW u \in Seq(X), NEW j \in Nat \ {0}, NEW k \in Nat
    PROVE  DataAt(u, j, k) => DataAt(p \o u, Len(p) + j, k)
<1> DEFINE r == p \o u
           l == Len(p)
<1>1. /\ Len(r) = l + Len(u) /\ \A i \in 1..Len(u) : r[l + i] = u[i]
      /\ l \in Nat /\ Len(u) \in Nat
  BY Joined
<1>2. SUFFICES ASSUME DataAt(u, j, k) PROVE DataAt(r, l + j, k)
  OBVIOUS
<1> HIDE DEF r, l
<1>3. /\ j + k < Len(u) /\ u[j + k] = LineEnd /\ u[j + k + 1].kind = "size"
      /\ \A i \in j..(j + k - 1) : u[i].kind = "byte"
  BY <1>2 DEF DataAt
<1>4. l + j + k < Len(r)
  BY <1>1, <1>3
<1>5. ASSUME NEW i \in (l + j)..(l + j + k - 1) PROVE r[i].kind = "byte"
  <2>1. i - l \in 1..Len(u) /\ i - l \in j..(j + k - 1) /\ l + (i - l) = i
    BY <1>1, <1>3, <1>5
  <2> QED
    BY <1>1, <1>3, <2>1
<1>6. r[l + j + k] = LineEnd /\ r[l + j + k + 1].kind = "size"
  <2>1. /\ j + k \in 1..Len(u) /\ j + k + 1 \in 1..Len(u)
        /\ l + (j + k) = l + j + k /\ l + (j + k + 1) = l + j + k + 1
    BY <1>1, <1>3
  <2>2. r[l + (j + k)] = u[j + k] /\ r[l + (j + k + 1)] = u[j + k + 1]
    BY <1>1, <2>1
  <2> QED
    BY <1>3, <2>1, <2>2
<1> QED
  BY <1>4, <1>5, <1>6 DEF DataAt

LEMMA ShiftSized ==
    ASSUME NEW n \in Nat, NEW p \in Seq(UnitTo(n)), NEW u \in Seq(UnitTo(n))
    PROVE  /\ Sized(u, 1) => Sized(p \o u, Len(p) + 1)
           /\ ChunkAt(u, 1) => ChunkAt(p \o u, Len(p) + 1)
<1> DEFINE r == p \o u
           l == Len(p)
<1>1. /\ Len(r) = l + Len(u) /\ \A i \in 1..Len(u) : r[l + i] = u[i]
      /\ l \in Nat /\ Len(u) \in Nat
  BY Joined
<1> HIDE DEF r, l
<1>2. ASSUME ChunkAt(u, 1) PROVE ChunkAt(r, l + 1)
  <2>1. 1 \in 1..Len(u) /\ u[1].kind = "size"
    BY <1>1, <1>2 DEF ChunkAt
  <2>2. l + 1 <= Len(r) /\ r[l + 1] = u[1]
    BY <1>1, <2>1
  <2> QED
    BY <2>1, <2>2 DEF ChunkAt
<1>3. ASSUME Sized(u, 1) PROVE Sized(r, l + 1)
  <2>1. SUFFICES ASSUME NEW k \in (l + 1)..Len(r), r[k].kind = "size"
                 PROVE  IF r[k].size = 0 THEN TrailerAt(r, k + 1) ELSE DataAt(r, k + 1, r[k].size)
    BY DEF Sized
  <2> DEFINE i == k - l
  <2>2. i \in 1..Len(u) /\ k = l + i /\ i + 1 \in Nat \ {0} /\ l + (i + 1) = k + 1
    BY <1>1, <2>1
  <2> HIDE DEF i
  <2>3. r[k] = u[i]
    BY <1>1, <2>2
  <2>4. u[i] \in UnitTo(n)
    BY <2>2
  <2>5. u[i].size \in Nat
    BY <2>4, UnitsTyped
  <2>6. IF u[i].size = 0 THEN TrailerAt(u, i + 1) ELSE DataAt(u, i + 1, u[i].size)
    BY <1>3, <2>1, <2>2, <2>3 DEF Sized
  <2>7. TrailerAt(u, i + 1) => TrailerAt(r, l + (i + 1))
    BY <2>2, ShiftTrailer DEF r, l
  <2>8. DataAt(u, i + 1, u[i].size) => DataAt(r, l + (i + 1), u[i].size)
    BY <2>2, <2>5, ShiftData DEF r, l
  <2> QED
    BY <2>2, <2>3, <2>6, <2>7, <2>8
<1> QED
  BY <1>2, <1>3 DEF r, l

LEMMA BodyQuiet ==
    \A q, j, n, m, quiet : quiet /\ Len(q) = j - 1 => BodyAt(q, j, n, m, quiet)
  BY Zenon DEF BodyAt

LEMMA BodyPlain ==
    \A q, j, n, m, quiet :
       /\ ~quiet /\ m.framing \in {"none", "length"}
       /\ Len(q) = j - 1 + BodyLength(m) /\ BytesAt(q, j, n, BodyLength(m))
       => BodyAt(q, j, n, m, quiet)
  BY ZenonT(30) DEF BodyAt

LEMMA BodyChunked ==
    \A q, j, n, m, quiet :
       ~quiet /\ m.framing \notin {"none", "length"} /\ ChunkAt(q, j) /\ Sized(q, j)
       => BodyAt(q, j, n, m, quiet)
  BY Zenon DEF BodyAt

\* The units message n is written as.
BodySent(m, n, quiet) == IF quiet THEN <<>> ELSE BodyUnits(m, n)
Said(q, m, n, quiet) == q \o <<Piece("begin", n, 0), Piece("fields", n, 0)>> \o BodySent(m, n, quiet)

LEMMA JoinedPair ==
    ASSUME NEW X, NEW p \in Seq(X), NEW h \in Seq(X), Len(h) = 2
    PROVE  /\ p \o h \in Seq(X) /\ Len(p \o h) = Len(p) + 2 /\ Len(p) \in Nat
           /\ (p \o h)[Len(p) + 1] = h[1] /\ (p \o h)[Len(p) + 2] = h[2]
<1>1. /\ p \o h \in Seq(X) /\ Len(p \o h) = Len(p) + Len(h)
      /\ \A i \in 1..Len(h) : (p \o h)[Len(p) + i] = h[i]
  BY Joined
<1>2. Len(p) \in Nat /\ 1 \in 1..Len(h) /\ 2 \in 1..Len(h)
  OBVIOUS
<1> QED
  BY <1>1, <1>2

LEMMA SaidTyped ==
    ASSUME NEW m \in Message, NEW n \in Nat, NEW q \in Seq(UnitTo(n)), NEW quiet \in BOOLEAN
    PROVE  /\ Said(q, m, n, quiet) \in Seq(UnitTo(n))
           /\ \E r \in Seq(UnitTo(n)) : Said(q, m, n, quiet) = q \o r
           /\ BeginAt(Said(q, m, n, quiet), Len(q) + 1, n, m, quiet)
<1> DEFINE h == <<BeginOf(n), FieldsOf(n)>>
           u == BodySent(m, n, quiet)
           a == q \o h
           r == a \o u
           l == Len(q)
<1>1. h \in Seq(UnitTo(n)) /\ Len(h) = 2 /\ h[1] = BeginOf(n) /\ h[2] = FieldsOf(n)
  <2>1. BeginOf(n) \in UnitTo(n) /\ FieldsOf(n) \in UnitTo(n)
    BY UnitsTyped DEF UnitKind, BeginOf, FieldsOf
  <2> QED
    BY <2>1
<1>2. u \in Seq(UnitTo(n))
  <2>1. BodyUnits(m, n) \in Seq(UnitTo(n))
    BY BodyTyped
  <2> QED
    BY <2>1 DEF BodySent
<1>3. Said(q, m, n, quiet) = r
  BY DEF Said, BeginOf, FieldsOf
<1> HIDE DEF h, u
<1>4. /\ a \in Seq(UnitTo(n)) /\ Len(a) = l + 2 /\ l \in Nat /\ Len(u) \in Nat
      /\ a[l + 1] = BeginOf(n) /\ a[l + 2] = FieldsOf(n)
  <2>1. /\ q \o h \in Seq(UnitTo(n)) /\ Len(q \o h) = Len(q) + 2 /\ Len(q) \in Nat
        /\ (q \o h)[Len(q) + 1] = h[1] /\ (q \o h)[Len(q) + 2] = h[2]
    BY <1>1, JoinedPair
  <2>2. Len(u) \in Nat
    BY <1>2
  <2> QED
    BY <1>1, <2>1, <2>2
<1>5. /\ r \in Seq(UnitTo(n)) /\ Len(r) = l + 2 + Len(u)
      /\ \A i \in 1..(l + 2) : r[i] = a[i]
      /\ \A i \in 1..Len(u) : r[l + 2 + i] = u[i]
  <2> HIDE DEF a, l
  <2>1. /\ r \in Seq(UnitTo(n)) /\ Len(r) = Len(a) + Len(u)
        /\ \A i \in 1..Len(a) : r[i] = a[i]
        /\ \A i \in 1..Len(u) : r[Len(a) + i] = u[i]
    <3>1. a \in Seq(UnitTo(n)) /\ u \in Seq(UnitTo(n))
      BY <1>2, <1>4
    <3> QED
      BY <3>1, Joined
  <2> QED
    BY <1>4, <2>1
<1>6. r = q \o (h \o u)
  <2> HIDE DEF l
  <2> QED
    BY <1>1, <1>2, Associates, SMTT(30)
<1>7. h \o u \in Seq(UnitTo(n))
  BY <1>1, <1>2, ConcatProperties
<1>8. BodyAt(r, l + 3, n, m, quiet)
  <2>1. CASE quiet
    <3>1. u = <<>>
      BY <2>1 DEF u, BodySent
    <3>2. Len(u) = 0
      BY <3>1
    <3>3. Len(r) = (l + 3) - 1
      <4> HIDE DEF r, l
      <4> QED
        BY <1>4, <1>5, <3>2
    <3> HIDE DEF r, l
    <3> QED
      BY <2>1, <3>3, BodyQuiet
  <2>2. CASE ~quiet /\ m.framing \in {"none", "length"}
    <3> DEFINE B == BodyLength(m)
    <3>1. B \in Nat
      BY LengthTyped
    <3>2. u = Bytes(n, 0, B)
      BY <2>2, BodyTyped DEF u, BodySent
    <3>3. Len(u) = B /\ \A i \in 1..B : u[i] = Piece("byte", n, 0 + i)
      <4> HIDE DEF B
      <4> QED
        BY <3>1, <3>2, BytesTyped
    <3> HIDE DEF r, l, B
    <3>4. Len(r) = (l + 3) - 1 + B
      BY <1>4, <1>5, <3>1, <3>3
    <3>5. ASSUME NEW i \in (l + 3)..Len(r) PROVE r[i] = Piece("byte", n, B - (Len(r) - i))
      <4>1. /\ i - (l + 2) \in 1..B /\ i = l + 2 + (i - (l + 2))
            /\ 0 + (i - (l + 2)) = B - (Len(r) - i)
        BY <1>4, <3>1, <3>4, <3>5
      <4>2. r[i] = u[i - (l + 2)]
        BY <1>5, <3>3, <4>1
      <4> QED
        BY <3>3, <4>1, <4>2
    <3>6. BytesAt(r, l + 3, n, B)
      BY <3>5 DEF BytesAt
    <3> QED
      BY <2>2, <3>4, <3>6, BodyPlain DEF B
  <2>3. CASE ~quiet /\ m.framing \notin {"none", "length"}
    <3>1. u = BodyUnits(m, n)
      BY <2>3 DEF u, BodySent
    <3>2. ChunkAt(u, 1) /\ Sized(u, 1)
      BY <2>3, <3>1, BodyTyped
    <3> HIDE DEF a, l
    <3>3. ChunkAt(r, Len(a) + 1) /\ Sized(r, Len(a) + 1)
      BY <1>2, <1>4, <3>2, ShiftSized
    <3>4. Len(a) + 1 = l + 3
      BY <1>4
    <3> HIDE DEF r
    <3> QED
      BY <2>3, <3>3, <3>4, BodyChunked
  <2> QED
    BY <2>1, <2>2, <2>3
<1>9. BeginAt(r, l + 1, n, m, quiet)
  <2> HIDE DEF r, a, l
  <2>1. l + 1 \in 1..(l + 2) /\ l + 2 \in 1..(l + 2) /\ l + 1 <= Len(r) /\ l + 2 <= Len(r)
        /\ l + 1 + 1 = l + 2 /\ l + 2 + 1 = l + 3
    BY <1>4, <1>5
  <2>2. r[l + 1] = BeginOf(n) /\ r[l + 2] = FieldsOf(n)
    BY <1>4, <1>5, <2>1
  <2> QED
    BY <1>8, <2>1, <2>2 DEF BeginAt, FieldsAt
<1> QED
  BY <1>3, <1>5, <1>6, <1>7, <1>9

\* http_parser, state by state.
LEMMA ExecuteBetween ==
    \A p, u, m, isRequest, skip :
       /\ p.state = "start" /\ u.kind = "begin" =>
            Execute(p, u, m, isRequest, skip) = [state |-> "fields", length |-> 0, last |-> m.last]
       /\ p.state \in Between /\ u.kind = "crlf" => Execute(p, u, m, isRequest, skip) = p
       /\ p.state = "start" /\ u.kind \notin {"begin", "crlf"} =>
            Execute(p, u, m, isRequest, skip) = To(p, "error")
       /\ p.state = "dead" /\ u.kind # "crlf" => Execute(p, u, m, isRequest, skip) = To(p, "error")
  BY DEF Execute, Between

LEMMA ExecuteFields ==
    \A p, u, m, isRequest, skip :
       /\ p.state = "fields" /\ u.kind = "fields" =>
            Execute(p, u, m, isRequest, skip) = HeadersDone(p, m, isRequest, skip)
       /\ p.state = "fields" /\ u.kind # "fields" =>
            Execute(p, u, m, isRequest, skip) = To(p, "error")
  BY DEF Execute

LEMMA ExecuteBody ==
    \A p, u, m, isRequest, skip :
       /\ p.state = "identity" => Execute(p, u, m, isRequest, skip) = Identity(p)
       /\ p.state = "eof" => Execute(p, u, m, isRequest, skip) = p
       /\ p.state = "error" => Execute(p, u, m, isRequest, skip) = p
       /\ p.state = "chunk_data" => Execute(p, u, m, isRequest, skip) = ChunkData(p)
  BY DEF Execute

LEMMA ExecuteChunk ==
    \A p, u, m, isRequest, skip :
       /\ p.state = "chunk_size" /\ u.kind = "size" =>
            Execute(p, u, m, isRequest, skip)
              = Expecting(p, IF u.size = 0 THEN "trailer" ELSE "chunk_data", u.size)
       /\ p.state = "chunk_size" /\ u.kind # "size" =>
            Execute(p, u, m, isRequest, skip) = To(p, "error")
       /\ p.state = "chunk_end" /\ u.kind = "crlf" =>
            Execute(p, u, m, isRequest, skip) = To(p, "chunk_size")
       /\ p.state = "chunk_end" /\ u.kind # "crlf" =>
            Execute(p, u, m, isRequest, skip) = To(p, "error")
       /\ p.state = "trailer" /\ u.kind = "trailer" => Execute(p, u, m, isRequest, skip) = p
       /\ p.state = "trailer" /\ u.kind = "crlf" => Execute(p, u, m, isRequest, skip) = NewMessage(p)
       /\ p.state = "trailer" /\ u.kind \notin {"trailer", "crlf"} =>
            Execute(p, u, m, isRequest, skip) = To(p, "error")
  BY DEF Execute

\* What is changed in a parser and what is not.
LEMMA ParserTo ==
    ASSUME NEW p \in Parser, NEW st \in ParserState
    PROVE  /\ To(p, st) \in Parser
           /\ To(p, st).state = st /\ To(p, st).length = p.length /\ To(p, st).last = p.last
<1>1. p = [state |-> p.state, length |-> p.length, last |-> p.last]
  BY DEF Parser
<1>2. To(p, st) = [state |-> st, length |-> p.length, last |-> p.last]
  BY <1>1 DEF To
<1>3. p.length \in Nat /\ p.last \in BOOLEAN
  BY DEF Parser
<1> QED
  BY <1>2, <1>3 DEF Parser

LEMMA ParserExpecting ==
    ASSUME NEW p \in Parser, NEW st \in ParserState, NEW n \in Nat
    PROVE  /\ Expecting(p, st, n) \in Parser
           /\ Expecting(p, st, n).state = st /\ Expecting(p, st, n).length = n
           /\ Expecting(p, st, n).last = p.last
  BY DEF Expecting, Parser

LEMMA ParserNew ==
    ASSUME NEW p \in Parser
    PROVE  /\ NewMessage(p) \in Parser /\ NewMessage(p).last = p.last
           /\ NewMessage(p).length = p.length
           /\ NewMessage(p).state = IF p.last THEN "dead" ELSE "start"
<1>1. (IF p.last THEN "dead" ELSE "start") \in ParserState
  BY DEF ParserState
<1> QED
  BY <1>1, ParserTo DEF NewMessage

LEMMA StateNames ==
    /\ {"start", "dead", "fields", "error", "identity", "eof", "chunk_size", "chunk_data",
        "chunk_end", "trailer"} = ParserState
    /\ BodyState = {"identity", "eof", "chunk_data"}
    /\ ChunkState = {"chunk_size", "chunk_data", "chunk_end", "trailer"}
    /\ Between = {"start", "dead"}
  BY DEF ParserState, BodyState, ChunkState, Between

LEMMA ToKnown ==
    \A p \in Parser :
       \A st \in {"error", "chunk_size", "chunk_end", "trailer", "eof", "fields"} :
          To(p, st) \in Parser /\ To(p, st).last = p.last /\ To(p, st).state = st
<1>1. SUFFICES ASSUME NEW p \in Parser,
                      NEW st \in {"error", "chunk_size", "chunk_end", "trailer", "eof", "fields"}
               PROVE  To(p, st) \in Parser /\ To(p, st).last = p.last /\ To(p, st).state = st
  OBVIOUS
<1>2. st \in ParserState
  BY StateNames
<1> QED
  BY <1>2, ParserTo

LEMMA ToIdentity ==
    \A p \in Parser : \A n \in Nat :
       LET q == Expecting(p, "identity", n)
       IN  q \in Parser /\ q.last = p.last /\ q.state = "identity" /\ q.length = n
<1>1. "identity" \in ParserState
  BY StateNames
<1> QED
  BY <1>1, ParserExpecting

\* The end of a header: the message is over, or there is a body.
HeaderOver(q, p, m, isRequest, skip) ==
    \/ m.framing = "both" /\ q.state = "error"
    \/ /\ m.framing # "both" /\ q.state = (IF p.last THEN "dead" ELSE "start")
       /\ \/ skip
          \/ m.framing = "length" /\ BodyLength(m) = 0
          \/ m.framing = "none" /\ (isRequest \/ m.bare)
    \/ m.framing = "chunked" /\ ~skip /\ q.state = "chunk_size"
    \/ /\ m.framing = "length" /\ ~skip /\ q.state = "identity"
       /\ BodyLength(m) # 0 /\ q.length = BodyLength(m)
    \/ m.framing = "none" /\ ~skip /\ ~isRequest /\ ~m.bare /\ q.state = "eof"

LEMMA HeadersTyped ==
    ASSUME NEW p \in Parser, NEW m \in Message, NEW isRequest \in BOOLEAN, NEW skip \in BOOLEAN,
           NEW q, q = HeadersDone(p, m, isRequest, skip)
    PROVE  q \in Parser /\ q.last = p.last /\ HeaderOver(q, p, m, isRequest, skip)
<1>1. /\ m.framing \in {"none", "length", "chunked", "both"} /\ m.bare \in BOOLEAN
      /\ BodyLength(m) \in Nat
  BY LengthTyped DEF Message
<1>2. /\ "error" \in ParserState /\ "chunk_size" \in ParserState /\ "eof" \in ParserState
      /\ "identity" \in ParserState
  BY StateNames
<1>3. /\ NewMessage(p) \in Parser /\ NewMessage(p).last = p.last
      /\ NewMessage(p).state = (IF p.last THEN "dead" ELSE "start")
  BY ParserNew
<1>4. CASE m.framing = "both"
  <2>1. q = To(p, "error")
    BY <1>4 DEF HeadersDone
  <2>2. q \in Parser /\ q.last = p.last /\ q.state = "error"
    BY <2>1, ToKnown
  <2> QED
    BY <1>4, <2>2 DEF HeaderOver
<1>5. CASE m.framing # "both" /\ skip
  <2>1. q = NewMessage(p)
    BY <1>5 DEF HeadersDone
  <2> QED
    BY <1>3, <1>5, <2>1 DEF HeaderOver
<1>6. CASE m.framing = "chunked" /\ ~skip
  <2>1. q = To(p, "chunk_size")
    BY <1>6 DEF HeadersDone
  <2>2. q \in Parser /\ q.last = p.last /\ q.state = "chunk_size"
    BY <2>1, ToKnown
  <2> QED
    BY <1>6, <2>2 DEF HeaderOver
<1>7. CASE m.framing = "length" /\ ~skip
  <2>1. CASE BodyLength(m) = 0
    <3>1. q = NewMessage(p)
      BY <1>7, <2>1 DEF HeadersDone
    <3> QED
      BY <1>3, <1>7, <2>1, <3>1 DEF HeaderOver
  <2>2. CASE BodyLength(m) # 0
    <3>1. q = Expecting(p, "identity", BodyLength(m))
      BY <1>7, <2>2 DEF HeadersDone
    <3>2. q \in Parser /\ q.last = p.last /\ q.state = "identity" /\ q.length = BodyLength(m)
      BY <1>1, <3>1, ToIdentity
    <3> QED
      BY <1>7, <2>2, <3>2 DEF HeaderOver
  <2> QED
    BY <2>1, <2>2
<1>8. CASE m.framing = "none" /\ ~skip
  <2>1. CASE isRequest \/ m.bare
    <3>1. q = NewMessage(p)
      BY <1>8, <2>1 DEF HeadersDone
    <3> QED
      BY <1>3, <1>8, <2>1, <3>1 DEF HeaderOver
  <2>2. CASE ~(isRequest \/ m.bare)
    <3>1. q = To(p, "eof")
      BY <1>8, <2>2 DEF HeadersDone
    <3>2. q \in Parser /\ q.last = p.last /\ q.state = "eof"
      BY <3>1, ToKnown
    <3> QED
      BY <1>8, <2>2, <3>2 DEF HeaderOver
  <2> QED
    BY <2>1, <2>2
<1> QED
  BY <1>1, <1>4, <1>5, <1>6, <1>7, <1>8

\* One byte of a body.
LEMMA ByteTyped ==
    ASSUME NEW p \in Parser, p.length > 0
    PROVE  /\ Identity(p) \in Parser /\ Identity(p).last = p.last
           /\ p.length = 1 => Identity(p).state = IF p.last THEN "dead" ELSE "start"
           /\ p.length # 1 => Identity(p).state = p.state /\ Identity(p).length = p.length - 1
           /\ ChunkData(p) \in Parser /\ ChunkData(p).last = p.last
           /\ ChunkData(p).length = p.length - 1
           /\ ChunkData(p).state = IF p.length = 1 THEN "chunk_end" ELSE "chunk_data"
<1>1. p.length \in Nat /\ p.length - 1 \in Nat /\ p.state \in ParserState /\ p.last \in BOOLEAN
  BY DEF Parser
<1>2. (IF p.length = 1 THEN "chunk_end" ELSE "chunk_data") \in ParserState
  BY StateNames
<1>3. /\ ChunkData(p) \in Parser /\ ChunkData(p).last = p.last
      /\ ChunkData(p).length = p.length - 1
      /\ ChunkData(p).state = IF p.length = 1 THEN "chunk_end" ELSE "chunk_data"
  BY <1>1, <1>2, ParserExpecting DEF ChunkData
<1>4. CASE p.length = 1
  <2> DEFINE z == [p EXCEPT !.length = 0]
  <2>1. z \in Parser /\ z.last = p.last
    BY DEF Parser
  <2>2. Identity(p) = NewMessage(z)
    BY <1>4 DEF Identity
  <2> HIDE DEF z
  <2>3. /\ NewMessage(z) \in Parser /\ NewMessage(z).last = z.last
        /\ NewMessage(z).state = IF z.last THEN "dead" ELSE "start"
    BY <2>1, ParserNew
  <2>4. (IF z.last THEN "dead" ELSE "start") = (IF p.last THEN "dead" ELSE "start")
    BY <2>1
  <2> QED
    BY <1>3, <1>4, <2>1, <2>2, <2>3, <2>4
<1>5. CASE p.length # 1
  <2> DEFINE z == [p EXCEPT !.length = p.length - 1]
  <2>1. z \in Parser /\ z.last = p.last /\ z.state = p.state /\ z.length = p.length - 1
    BY <1>1 DEF Parser
  <2>2. Identity(p) = z
    BY <1>5 DEF Identity
  <2> QED
    BY <1>3, <1>5, <2>1, <2>2
<1> QED
  BY <1>4, <1>5

\* What has still to be read, state by state.
LEMMA RestBetween ==
    \A q, j, p, n, m, quiet :
       /\ p.state = "start" /\ (Len(q) = j - 1 \/ BeginAt(q, j, n, m, quiet)) =>
            Rest(q, j, p, n, m, quiet)
       /\ p.state = "dead" /\ Len(q) = j - 1 /\ p.last => Rest(q, j, p, n, m, quiet)
  BY StateNames DEF Rest

LEMMA RestFields ==
    \A q, j, p, n, m, quiet :
       p.state = "fields" /\ FieldsAt(q, j, n, m, quiet) => Rest(q, j, p, n, m, quiet)
  BY StateNames DEF Rest

LEMMA RestError ==
    \A q, j, p, n, m, quiet :
       p.state = "error" /\ m.framing = "both" => Rest(q, j, p, n, m, quiet)
  BY StateNames DEF Rest

LEMMA RestIdentity ==
    \A q, j, p, n, m, quiet :
       /\ p.state = "identity" /\ m.framing = "length" /\ p.length \in 1..BodyLength(m)
       /\ quiet => Len(q) = j - 1
       /\ ~quiet => Len(q) = j - 1 + p.length /\ BytesAt(q, j, n, BodyLength(m))
       => Rest(q, j, p, n, m, quiet)
  BY StateNames DEF Rest

LEMMA RestEof ==
    \A q, j, p, n, m, quiet :
       p.state = "eof" /\ BytesAt(q, j, n, BodyLength(m)) => Rest(q, j, p, n, m, quiet)
  BY StateNames DEF Rest

LEMMA RestSize ==
    \A q, j, p, n, m, quiet :
       /\ p.state = "chunk_size" /\ m.framing = "chunked" /\ Sized(q, j)
       /\ ChunkAt(q, j) \/ (quiet /\ Len(q) = j - 1)
       => Rest(q, j, p, n, m, quiet)
  BY StateNames DEF Rest

LEMMA RestData ==
    \A q, j, p, n, m, quiet :
       /\ p.state = "chunk_data" /\ m.framing = "chunked" /\ p.length > 0
       /\ DataAt(q, j, p.length) /\ Sized(q, j)
       => Rest(q, j, p, n, m, quiet)
  BY StateNames DEF Rest

LEMMA RestEnd ==
    \A q, j, p, n, m, quiet :
       p.state = "chunk_end" /\ m.framing = "chunked" /\ DataAt(q, j, 0) /\ Sized(q, j)
       => Rest(q, j, p, n, m, quiet)
  BY StateNames DEF Rest

LEMMA RestTrailer ==
    \A q, j, p, n, m, quiet :
       p.state = "trailer" /\ m.framing = "chunked" /\ TrailerAt(q, j) => Rest(q, j, p, n, m, quiet)
  BY StateNames DEF Rest

\* What the slot holds, state by state.
LEMMA ShapeNone ==
    \A p, n, m, quiet : p.state \in Between => Shape(NoMessage, p, n, m, quiet)
<1>1. \A k : Kinds(<<>>, k)
  BY DEF Kinds
<1>2. NoMessage.stat = "INIT" /\ NoMessage.payload = <<>> /\ NoMessage.trailer = <<>>
  BY DEF NoMessage
<1> QED
  BY <1>1, <1>2, StateNames DEF Shape

LEMMA ShapeHeader ==
    \A x, p, n, m, quiet :
       \/ p.state = "fields" /\ x = Headed(<<BeginOf(n)>>)
       \/ p.state = "error" /\ x = Headed(<<BeginOf(n), FieldsOf(n)>>)
       => Shape(x, p, n, m, quiet)
<1>1. \A k : Kinds(<<>>, k)
  BY DEF Kinds
<1>2. \A h : Headed(h).stat = "HEADER" /\ Headed(h).payload = <<>> /\ Headed(h).trailer = <<>>
  BY DEF Headed
<1>3. ASSUME NEW x, NEW p, NEW n, NEW m, NEW quiet,
             p.state = "fields", x = Headed(<<BeginOf(n)>>)
      PROVE  Shape(x, p, n, m, quiet)
  <2>1. x.stat = "HEADER" /\ x.payload = <<>> /\ x.trailer = <<>>
    BY <1>2, <1>3
  <2> QED
    BY <1>1, <1>3, <2>1, StateNames DEF Shape
<1>4. ASSUME NEW x, NEW p, NEW n, NEW m, NEW quiet,
             p.state = "error", x = Headed(<<BeginOf(n), FieldsOf(n)>>)
      PROVE  Shape(x, p, n, m, quiet)
  <2>1. x.stat = "HEADER" /\ x.payload = <<>> /\ x.trailer = <<>>
    BY <1>2, <1>4
  <2> QED
    BY <1>1, <1>4, <2>1, StateNames DEF Shape
<1> QED
  BY <1>3, <1>4

LEMMA ShapeBody ==
    \A x, p, n, m, quiet :
       /\ p.state \in BodyState \cup ChunkState /\ x.stat = "BODY" /\ Whole(x, n)
       /\ Kinds(x.payload, "byte") /\ Kinds(x.trailer, "trailer")
       /\ p.state # "trailer" => x.trailer = <<>>
       /\ p.state = "identity" => /\ quiet => x.payload = <<>>
                                  /\ ~quiet => x.payload = Bytes(n, 0, BodyLength(m) - p.length)
       => Shape(x, p, n, m, quiet)
  BY StateNames DEF Shape

LEMMA ShapeWhole ==
    \A x, p, n, m, quiet :
       /\ p.state \in Between /\ x.stat = "COMPLETE" /\ Whole(x, n)
       /\ Kinds(x.payload, "byte") /\ Kinds(x.trailer, "trailer")
       /\ m.framing # "both"
       /\ m.framing # "chunked" => /\ quiet => x.payload = <<>>
                                   /\ ~quiet => x.payload = Bytes(n, 0, BodyLength(m))
                                   /\ x.trailer = <<>>
       => Shape(x, p, n, m, quiet)
  BY StateNames DEF Shape

\* What a message carries.
LEMMA ContentTyped == \A q \in Seq(Unit) : Content(q) \in Seq(Unit)
  BY OnlyTyped DEF Content

LEMMA ContentConcat ==
    \A p, q \in Seq(Unit) : Content(p \o q) = Content(p) \o Content(q)
  BY OnlyConcat, SMTT(30) DEF Content

LEMMA ContentEmpty == Content(<<>>) = <<>>
<1>1. <<>> \in Seq(Unit) /\ \A S : \A i \in DOMAIN <<>> : <<>>[i] \notin S
  OBVIOUS
<1> QED
  BY <1>1, OnlyNothing DEF Content

LEMMA ContentAppend ==
    \A q \in Seq(Unit) : \A u \in Unit : Content(Append(q, u)) = Content(q) \o Content(<<u>>)
<1>1. SUFFICES ASSUME NEW q \in Seq(Unit), NEW u \in Unit
               PROVE  Content(Append(q, u)) = Content(q) \o Content(<<u>>)
  OBVIOUS
<1>2. Append(q, u) = q \o <<u>> /\ <<u>> \in Seq(Unit)
  BY AppendIsConcat
<1> QED
  BY <1>2, ContentConcat

LEMMA ContentFraming ==
    \A u \in Unit : u.kind \in {"size", "crlf"} => Content(<<u>>) = <<>>
<1>1. SUFFICES ASSUME NEW u \in Unit, u.kind \in {"size", "crlf"} PROVE Content(<<u>>) = <<>>
  OBVIOUS
<1> DEFINE S == {v \in Unit : v.kind \in {"begin", "fields", "byte", "trailer"}}
<1>2. u \notin S
  BY <1>1
<1>3. Only(<<u>>, S) = IF u \in S THEN <<u>> ELSE <<>>
  <2> HIDE DEF S
  <2> QED
    BY OnlyOne
<1> QED
  BY <1>2, <1>3 DEF Content

LEMMA UnitsAssociate == \A a, b, c \in Seq(Unit) : (a \o b) \o c = a \o (b \o c)
  BY Associates

\* The same with a name for the two groupings being one.
Regrouped(a, b, c) == (a \o b) \o c = a \o (b \o c)

LEMMA UnitsRegrouped == \A a, b, c \in Seq(Unit) : Regrouped(a, b, c)
  BY UnitsAssociate DEF Regrouped

LEMMA HeldContent ==
    ASSUME NEW x, x.head \in Seq(Unit), x.payload \in Seq(Unit), x.trailer \in Seq(Unit)
    PROVE  /\ Held(x) \in Seq(Unit)
           /\ Content(Held(x)) = (Content(x.head) \o Content(x.payload)) \o Content(x.trailer)
<1>1. x.head \o x.payload \in Seq(Unit)
  BY ConcatProperties
<1>2. Held(x) = (x.head \o x.payload) \o x.trailer
  BY DEF Held
<1>3. Held(x) \in Seq(Unit)
  BY <1>1, <1>2, ConcatProperties
<1>4. Content(Held(x)) = Content(x.head \o x.payload) \o Content(x.trailer)
  BY <1>1, <1>2, ContentConcat
<1>5. Content(x.head \o x.payload) = Content(x.head) \o Content(x.payload)
  BY ContentConcat
<1> QED
  BY <1>3, <1>4, <1>5

\* One unit more in the part that is being filled, or nowhere.
Grows(x, y, u) ==
    \/ /\ y.head = Append(x.head, u) /\ y.payload = <<>> /\ y.trailer = <<>>
       /\ x.payload = <<>> /\ x.trailer = <<>>
    \/ /\ y.head = x.head /\ y.payload = Append(x.payload, u) /\ y.trailer = <<>> /\ x.trailer = <<>>
    \/ /\ y.head = x.head /\ y.payload = x.payload /\ y.trailer = Append(x.trailer, u)
    \/ /\ y.head = x.head /\ y.payload = x.payload /\ y.trailer = x.trailer
       /\ u.kind \in {"size", "crlf"}

LEMMA HeldGrows ==
    ASSUME NEW x, x.head \in Seq(Unit), x.payload \in Seq(Unit), x.trailer \in Seq(Unit),
           NEW u \in Unit, NEW y, Grows(x, y, u)
    PROVE  Content(Held(y)) = Content(Held(x)) \o Content(<<u>>)
<1> DEFINE a == Content(x.head)
           b == Content(x.payload)
           c == Content(x.trailer)
           d == Content(<<u>>)
           e == <<>>
<1>1. a \in Seq(Unit) /\ b \in Seq(Unit) /\ c \in Seq(Unit) /\ d \in Seq(Unit)
  <2>1. <<u>> \in Seq(Unit)
    OBVIOUS
  <2> QED
    BY <2>1, ContentTyped
<1>2. Content(Held(x)) = (a \o b) \o c
  BY HeldContent
<1>3. /\ y.head \in Seq(Unit) /\ y.payload \in Seq(Unit) /\ y.trailer \in Seq(Unit)
  <2>1. /\ Append(x.head, u) \in Seq(Unit) /\ Append(x.payload, u) \in Seq(Unit)
        /\ Append(x.trailer, u) \in Seq(Unit) /\ <<>> \in Seq(Unit)
    BY AppendProperties
  <2> QED
    BY <2>1 DEF Grows
<1>4. Content(Held(y)) = (Content(y.head) \o Content(y.payload)) \o Content(y.trailer)
  BY <1>3, HeldContent
<1>5. \A z \in Seq(Unit) : z \o e = z /\ e \o z = z
  BY ConcatEmptySeq
<1>6. Content(e) = e
  BY ContentEmpty
<1> HIDE DEF a, b, c, d, e
<1>7. a \o b \in Seq(Unit) /\ (a \o b) \o c \in Seq(Unit)
  <2>1. a \o b \in Seq(Unit)
    BY <1>1, ConcatProperties
  <2> QED
    BY <1>1, <2>1, ConcatProperties
<1>8. CASE /\ y.head = Append(x.head, u) /\ y.payload = e /\ y.trailer = e
           /\ x.payload = e /\ x.trailer = e
  <2>1. Content(y.head) = a \o d
    BY <1>8, ContentAppend DEF a, d
  <2>2. b = e /\ c = e
    BY <1>6, <1>8 DEF b, c
  <2>3. a \o d \in Seq(Unit)
    BY <1>1, ConcatProperties
  <2>4. Content(Held(y)) = ((a \o d) \o e) \o e
    BY <1>4, <1>6, <1>8, <2>1
  <2>5. Content(Held(y)) = a \o d
    BY <1>5, <2>3, <2>4
  <2>6. (a \o b) \o c = a
    BY <1>1, <1>5, <2>2
  <2> QED
    BY <1>2, <2>5, <2>6 DEF d
<1>9. CASE /\ y.head = x.head /\ y.payload = Append(x.payload, u) /\ y.trailer = e /\ x.trailer = e
  <2>1. Content(y.payload) = b \o d
    BY <1>9, ContentAppend DEF b, d
  <2>2. c = e /\ Content(y.head) = a
    BY <1>6, <1>9 DEF a, c
  <2>3. b \o d \in Seq(Unit)
    BY <1>1, ConcatProperties
  <2>4. a \o (b \o d) \in Seq(Unit)
    BY <1>1, <2>3, ConcatProperties
  <2>5. Content(Held(y)) = (a \o (b \o d)) \o e
    BY <1>4, <1>6, <1>9, <2>1, <2>2
  <2>6. Content(Held(y)) = a \o (b \o d)
    BY <1>5, <2>4, <2>5
  <2>7. a \o (b \o d) = (a \o b) \o d
    <3>1. a \in Seq(Unit) /\ b \in Seq(Unit) /\ d \in Seq(Unit)
      BY <1>1
    <3>2. Regrouped(a, b, d)
      BY <3>1, UnitsRegrouped
    <3> QED
      BY <3>2 DEF Regrouped
  <2>8. (a \o b) \o c = a \o b
    BY <1>5, <1>7, <2>2
  <2> QED
    BY <1>2, <2>6, <2>7, <2>8 DEF d
<1>10. CASE y.head = x.head /\ y.payload = x.payload /\ y.trailer = Append(x.trailer, u)
  <2>1. Content(y.trailer) = c \o d
    BY <1>10, ContentAppend DEF c, d
  <2>2. Content(y.head) = a /\ Content(y.payload) = b
    BY <1>10 DEF a, b
  <2>3. Content(Held(y)) = (a \o b) \o (c \o d)
    BY <1>4, <2>1, <2>2
  <2> DEFINE ab == a \o b
  <2>4. ab \in Seq(Unit)
    BY <1>7
  <2> HIDE DEF ab
  <2>5. ab \in Seq(Unit) /\ c \in Seq(Unit) /\ d \in Seq(Unit)
    BY <1>1, <2>4
  <2>6. (ab \o c) \o d = ab \o (c \o d)
    <3>1. Regrouped(ab, c, d)
      BY <2>5, UnitsRegrouped
    <3> QED
      BY <3>1 DEF Regrouped
  <2> QED
    BY <1>2, <2>3, <2>6 DEF d, ab
<1>11. CASE /\ y.head = x.head /\ y.payload = x.payload /\ y.trailer = x.trailer
            /\ u.kind \in {"size", "crlf"}
  <2>1. Content(Held(y)) = (a \o b) \o c
    BY <1>4, <1>11 DEF a, b, c
  <2>2. d = e
    BY <1>11, ContentFraming DEF d, e
  <2>3. ((a \o b) \o c) \o e = (a \o b) \o c
    BY <1>5, <1>7
  <2> QED
    BY <1>2, <2>1, <2>2, <2>3 DEF d
<1> QED
  BY <1>8, <1>9, <1>10, <1>11 DEF Grows, e

\* The callbacks, state by state.
LEMMA NotedHeader ==
    \A x, p, u, r :
       /\ p.state = "start" /\ r.state = "fields" =>
            /\ Noted(x, p, u, r).stat = x.stat /\ Noted(x, p, u, r).head = Append(x.head, u)
            /\ Noted(x, p, u, r).payload = x.payload /\ Noted(x, p, u, r).trailer = x.trailer
       /\ p.state = "fields" /\ u.kind = "fields" =>
            /\ Noted(x, p, u, r).stat = IF r.state \in Between THEN "COMPLETE"
                                        ELSE IF r.state # "error" THEN "BODY" ELSE x.stat
            /\ Noted(x, p, u, r).head = Append(x.head, u)
            /\ Noted(x, p, u, r).payload = x.payload /\ Noted(x, p, u, r).trailer = x.trailer
  BY StateNames DEF Noted, Completes

LEMMA NotedBody ==
    \A x, p, u, r :
       p.state \in BodyState /\ r.state # "fields" =>
            /\ Noted(x, p, u, r).stat = IF r.state \in Between THEN "COMPLETE" ELSE x.stat
            /\ Noted(x, p, u, r).head = x.head
            /\ Noted(x, p, u, r).payload = Append(x.payload, u)
            /\ Noted(x, p, u, r).trailer = x.trailer
  BY StateNames DEF Noted, Completes

LEMMA NotedChunk ==
    \A x, p, u, r :
       p.state \in {"chunk_size", "chunk_end", "trailer"} /\ r.state # "fields" /\ x.stat = "BODY" =>
            /\ Noted(x, p, u, r).stat = IF r.state \in Between THEN "COMPLETE" ELSE x.stat
            /\ Noted(x, p, u, r).head = x.head
            /\ Noted(x, p, u, r).payload = x.payload
            /\ Noted(x, p, u, r).trailer = IF p.state = "trailer" /\ u.kind = "trailer"
                                           THEN Append(x.trailer, u) ELSE x.trailer
  BY StateNames DEF Noted, Completes

\* What is known of the message that is read.
Plays(m, quiet, isRequest) ==
    /\ isRequest => ~quiet
    /\ isRequest /\ m.framing = "none" => BodyLength(m) = 0
    /\ ~isRequest /\ m.bare => quiet

\* What is true again behind the unit at j.
Stepped(q, j, n, m, quiet, x, y, r) ==
    /\ Rest(q, j + 1, r, n, m, quiet) /\ Shape(y, r, n, m, quiet)
    /\ y.stat # "INIT"
    /\ Ahead(q, j + 1) = 0
    /\ x = NoMessage <=> q[j].kind = "begin"
    /\ Content(Held(y)) = Content(Held(x)) \o Content(<<q[j]>>)

LEMMA EmptyWith ==
    /\ Empty = Headed(<<>>) /\ NoMessage.stat = "INIT" /\ Empty # NoMessage
    /\ Empty.stat = "HEADER" /\ Empty.head = <<>> /\ Empty.payload = <<>> /\ Empty.trailer = <<>>
<1>1. Empty = Headed(<<>>) /\ NoMessage.stat = "INIT"
  BY DEF Empty, NoMessage, Headed
<1>2. \A h : /\ Headed(h).stat = "HEADER" /\ Headed(h).head = h
             /\ Headed(h).payload = <<>> /\ Headed(h).trailer = <<>>
  BY DEF Headed
<1> QED
  BY <1>1, <1>2

LEMMA NotedHeaded ==
    \A x, p, u, r : LET y == Noted(x, p, u, r)
                    IN  y.stat = "HEADER" /\ y.payload = <<>> /\ y.trailer = <<>> => y = Headed(y.head)
<1>1. \A x, p, u, r : LET y == Noted(x, p, u, r)
                      IN  y = [stat |-> y.stat, head |-> y.head, payload |-> y.payload,
                               trailer |-> y.trailer]
  BY DEF Noted
<1> QED
  BY <1>1 DEF Headed

LEMMA PartsTyped ==
    ASSUME NEW n \in Nat, NEW x \in StoredTo(n) \cup {NoMessage}
    PROVE  /\ x.head \in Seq(Unit) /\ x.payload \in Seq(Unit) /\ x.trailer \in Seq(Unit)
           /\ x.stat # "INIT" <=> x # NoMessage
<1>1. NoMessage.stat = "INIT" /\ NoMessage.head = <<>> /\ NoMessage.payload = <<>>
      /\ NoMessage.trailer = <<>> /\ <<>> \in Seq(Unit)
  BY DEF NoMessage
<1>2. CASE x = NoMessage
  BY <1>1, <1>2
<1>3. CASE x \in StoredTo(n)
  <2>1. x.head \in Seq(UnitTo(n)) /\ x.payload \in Seq(UnitTo(n)) /\ x.trailer \in Seq(UnitTo(n))
    BY <1>3 DEF StoredTo
  <2>2. x.stat \in {"HEADER", "BODY", "COMPLETE"}
    BY <1>3 DEF StoredTo
  <2>3. x.head \in Seq(Unit) /\ x.payload \in Seq(Unit) /\ x.trailer \in Seq(Unit)
    BY <2>1, UnitsAre
  <2> QED
    BY <1>1, <2>2, <2>3
<1> QED
  BY <1>2, <1>3

LEMMA BodyAhead ==
    ASSUME NEW n \in Nat, NEW q \in Seq(UnitTo(n)), NEW j \in Nat \ {0}, NEW m, NEW quiet \in BOOLEAN
    PROVE  /\ BodyAt(q, j, n, m, quiet) => Ahead(q, j) = 0
           /\ quiet /\ BodyAt(q, j, n, m, quiet) => Len(q) = j - 1
<1>1. SUFFICES ASSUME BodyAt(q, j, n, m, quiet)
               PROVE  Ahead(q, j) = 0 /\ (quiet => Len(q) = j - 1)
  OBVIOUS
<1>2. Len(q) \in Nat
  OBVIOUS
<1>3. CASE quiet
  <2>1. Len(q) = j - 1
    BY <1>1, <1>3 DEF BodyAt
  <2>2. ~(j <= Len(q))
    BY <2>1
  <2> QED
    BY <2>1, <2>2 DEF Ahead
<1>4. CASE ~quiet /\ m.framing \in {"none", "length"}
  <2>1. BytesAt(q, j, n, BodyLength(m))
    BY <1>1, <1>4 DEF BodyAt
  <2>2. ASSUME j <= Len(q) PROVE q[j].kind = "byte"
    <3>1. j \in j..Len(q)
      BY <1>2, <2>2
    <3> QED
      <4>1. q[j] = Piece("byte", n, BodyLength(m) - (Len(q) - j))
        BY <2>1, <3>1 DEF BytesAt
      <4> QED
        BY <4>1 DEF Piece
  <2>3. Ahead(q, j) = 0
    BY <2>2 DEF Ahead
  <2> QED
    BY <1>4, <2>3
<1>5. CASE ~quiet /\ m.framing \notin {"none", "length"}
  <2>1. ChunkAt(q, j)
    BY <1>1, <1>5 DEF BodyAt
  <2>2. Ahead(q, j) = 0
    BY <2>1 DEF ChunkAt, Ahead
  <2> QED
    BY <1>5, <2>2
<1> QED
  BY <1>3, <1>4, <1>5

\* A message begins.
LEMMA StepStart ==
    ASSUME NEW n \in Nat \ {0}, NEW m \in Message, NEW quiet \in BOOLEAN, NEW isRequest \in BOOLEAN,
           NEW q \in Seq(UnitTo(n)), NEW j \in 1..Len(q), NEW p \in Parser, NEW m1 \in Message,
           NEW skip \in BOOLEAN
    PROVE  LET r == Execute(p, q[j], m1, isRequest, skip)
               z == Begun(NoMessage, p, r)
               y == Noted(z, p, q[j], r)
           IN  p.state = "start" /\ Rest(q, j, p, n, m, quiet) =>
                 z # NoMessage /\ Stepped(q, j, n, m, quiet, NoMessage, y, r)
                 /\ r.last = m1.last /\ q[j].of = n
<1> DEFINE r == Execute(p, q[j], m1, isRequest, skip)
           z == Begun(NoMessage, p, r)
           y == Noted(z, p, q[j], r)
<1>1. SUFFICES ASSUME p.state = "start", Rest(q, j, p, n, m, quiet)
               PROVE  z # NoMessage /\ Stepped(q, j, n, m, quiet, NoMessage, y, r)
                      /\ r.last = m1.last /\ q[j].of = n
  OBVIOUS
<1>2. Len(q) \in Nat /\ j \in Nat /\ j <= Len(q) /\ j # 0 /\ Len(q) # j - 1
  OBVIOUS
<1>3. q[j] = BeginOf(n) /\ FieldsAt(q, j + 1, n, m, quiet)
  <2>1. BeginAt(q, j, n, m, quiet)
    BY <1>1, <1>2 DEF Rest
  <2> QED
    BY <2>1 DEF BeginAt
<1>4. q[j].kind = "begin" /\ q[j].of = n /\ q[j] \in Unit
  <2>1. BeginOf(n) \in UnitTo(n)
    BY UnitsTyped DEF UnitKind, BeginOf
  <2> QED
    BY <1>3, <2>1 DEF BeginOf, Piece, UnitTo
<1>5. r = [state |-> "fields", length |-> 0, last |-> m1.last]
  <2> DEFINE u == q[j]
  <2>1. p.state = "start" /\ u.kind = "begin"
    BY <1>1, <1>4
  <2> HIDE DEF u
  <2>2. Execute(p, u, m1, isRequest, skip) = [state |-> "fields", length |-> 0, last |-> m1.last]
    BY <2>1, ExecuteBetween
  <2> QED
    BY <2>2 DEF u
<1>6. r.state = "fields" /\ r.last = m1.last
  <2> HIDE DEF r
  <2> QED
    BY <1>5
<1> HIDE DEF r
<1>7. z = Empty
  BY <1>1, <1>6 DEF Begun
<1>8. /\ y.stat = "HEADER" /\ y.head = Append(<<>>, q[j]) /\ y.payload = <<>> /\ y.trailer = <<>>
  <2>1. /\ Noted(Empty, p, q[j], r).stat = Empty.stat
        /\ Noted(Empty, p, q[j], r).head = Append(Empty.head, q[j])
        /\ Noted(Empty, p, q[j], r).payload = Empty.payload
        /\ Noted(Empty, p, q[j], r).trailer = Empty.trailer
    BY <1>1, <1>6, NotedHeader
  <2> QED
    BY <1>7, <2>1, EmptyWith
<1>9. Append(<<>>, q[j]) = <<BeginOf(n)>>
  BY <1>3
<1>10. y = Headed(<<BeginOf(n)>>)
  BY <1>8, <1>9, NotedHeaded
<1> HIDE DEF y, z
<1>11. Rest(q, j + 1, r, n, m, quiet)
  BY <1>3, <1>6, RestFields
<1>12. Shape(y, r, n, m, quiet)
  BY <1>6, <1>10, ShapeHeader
<1>13. Ahead(q, j + 1) = 0
  BY <1>3 DEF FieldsAt, FieldsOf, Piece, Ahead
<1>14. Content(Held(y)) = Content(Held(NoMessage)) \o Content(<<q[j]>>)
  <2>1. /\ NoMessage.head = <<>> /\ NoMessage.payload = <<>> /\ NoMessage.trailer = <<>>
        /\ <<>> \in Seq(Unit)
    BY DEF NoMessage
  <2>2. Grows(NoMessage, y, q[j])
    BY <1>8, <2>1 DEF Grows
  <2> QED
    BY <1>4, <2>1, <2>2, HeldGrows
<1>15. Stepped(q, j, n, m, quiet, NoMessage, y, r)
  BY <1>4, <1>8, <1>11, <1>12, <1>13, <1>14 DEF Stepped
<1>16. z # NoMessage
  BY <1>7, EmptyWith
<1> QED
  BY <1>4, <1>6, <1>15, <1>16 DEF y, z, r

LEMMA TwoParts == \A a, b : Append(<<a>>, b) = <<a, b>>
<1>1. SUFFICES ASSUME NEW a, NEW b PROVE Append(<<a>>, b) = <<a, b>>
  OBVIOUS
<1>2. <<a>> \in Seq({a, b}) /\ a \in {a, b} /\ b \in {a, b}
  OBVIOUS
<1>3. <<a>> \o <<b>> = Append(<<a>>, b)
  BY <1>2, AppendIsConcat
<1>4. <<a>> \o <<b>> = <<a, b>>
  BY <1>2, TwoUnits
<1> QED
  BY <1>3, <1>4

LEMMA NoKinds == \A k : Kinds(<<>>, k)
  BY DEF Kinds

LEMMA KindsAppend ==
    ASSUME NEW X, NEW q \in Seq(X), NEW u \in X, NEW k
    PROVE  Kinds(q, k) /\ u.kind = k => Kinds(Append(q, u), k)
<1>1. SUFFICES ASSUME Kinds(q, k), u.kind = k PROVE Kinds(Append(q, u), k)
  OBVIOUS
<1>2. /\ Append(q, u) \in Seq(X) /\ Len(Append(q, u)) = Len(q) + 1
      /\ \A i \in 1..(Len(q) + 1) : Append(q, u)[i] = IF i = Len(q) + 1 THEN u ELSE q[i]
  BY AppendProperties
<1>3. Len(q) \in Nat /\ DOMAIN q = 1..Len(q)
  OBVIOUS
<1>4. DOMAIN Append(q, u) = 1..(Len(q) + 1)
  BY <1>2
<1>5. ASSUME NEW i \in 1..(Len(q) + 1) PROVE Append(q, u)[i].kind = k
  <2>1. CASE i = Len(q) + 1
    BY <1>1, <1>2, <2>1
  <2>2. CASE i # Len(q) + 1
    <3>1. i \in DOMAIN q
      BY <1>3, <2>2
    <3>2. q[i].kind = k
      BY <1>1, <3>1 DEF Kinds
    <3> QED
      BY <1>2, <2>2, <3>2
  <2> QED
    BY <2>1, <2>2
<1> QED
  BY <1>4, <1>5 DEF Kinds

\* The header of a message ends.
LEMMA StepFields ==
    ASSUME NEW n \in Nat \ {0}, NEW m \in Message, NEW quiet \in BOOLEAN, NEW isRequest \in BOOLEAN,
           NEW q \in Seq(UnitTo(n)), NEW j \in 1..Len(q), NEW p \in Parser, NEW m1 \in Message,
           NEW skip \in BOOLEAN, NEW x \in StoredTo(n) \cup {NoMessage}
    PROVE  LET r == Execute(p, q[j], m1, isRequest, skip)
               y == Noted(x, p, q[j], r)
           IN  /\ p.state = "fields" /\ Rest(q, j, p, n, m, quiet) /\ Shape(x, p, n, m, quiet)
               /\ Plays(m, quiet, isRequest) /\ ~skip /\ (q[j].of = n => m1 = m)
               => Stepped(q, j, n, m, quiet, x, y, r) /\ r.last = p.last
<1> DEFINE r == Execute(p, q[j], m1, isRequest, skip)
           y == Noted(x, p, q[j], r)
           B == BodyLength(m)
<1>1. SUFFICES ASSUME p.state = "fields", Rest(q, j, p, n, m, quiet), Shape(x, p, n, m, quiet),
                      Plays(m, quiet, isRequest), ~skip, q[j].of = n => m1 = m
               PROVE  Stepped(q, j, n, m, quiet, x, y, r) /\ r.last = p.last
  OBVIOUS
<1>2. Len(q) \in Nat /\ j \in Nat /\ j <= Len(q) /\ j + 1 \in Nat \ {0} /\ (j + 1) - 1 = j
  OBVIOUS
<1>3. q[j] = FieldsOf(n) /\ BodyAt(q, j + 1, n, m, quiet)
  BY <1>1 DEF Rest, FieldsAt
<1>4. q[j].kind = "fields" /\ q[j].of = n /\ q[j] \in Unit
  <2>1. FieldsOf(n) \in UnitTo(n)
    BY UnitsTyped DEF UnitKind, FieldsOf
  <2> QED
    BY <1>3, <2>1 DEF FieldsOf, Piece, UnitTo
<1>5. r = HeadersDone(p, m, isRequest, skip)
  BY <1>1, <1>4, ExecuteFields
<1> HIDE DEF r
<1>6. r \in Parser /\ r.last = p.last /\ HeaderOver(r, p, m, isRequest, skip)
  BY <1>5, HeadersTyped, SMTT(30)
<1>7. x = Headed(<<BeginOf(n)>>)
  BY <1>1 DEF Shape
<1>8. /\ x.stat = "HEADER" /\ x.head = <<BeginOf(n)>> /\ x.payload = <<>> /\ x.trailer = <<>>
      /\ x # NoMessage
  <2>1. x.stat = "HEADER" /\ x.head = <<BeginOf(n)>> /\ x.payload = <<>> /\ x.trailer = <<>>
    BY <1>7 DEF Headed
  <2> QED
    BY <2>1, EmptyWith
<1>9. /\ y.stat = (IF r.state \in Between THEN "COMPLETE"
                   ELSE IF r.state # "error" THEN "BODY" ELSE x.stat)
      /\ y.head = Append(x.head, q[j]) /\ y.payload = x.payload /\ y.trailer = x.trailer
  BY <1>1, <1>4, NotedHeader
<1>10. y.head = <<BeginOf(n), FieldsOf(n)>> /\ y.payload = <<>> /\ y.trailer = <<>>
  BY <1>3, <1>8, <1>9, TwoParts
<1>11. y.stat = "HEADER" => y = Headed(<<BeginOf(n), FieldsOf(n)>>)
  BY <1>10, NotedHeaded
<1> HIDE DEF y
<1>12. Ahead(q, j + 1) = 0 /\ (quiet => Len(q) = j)
  BY <1>2, <1>3, BodyAhead
<1>13. Content(Held(y)) = Content(Held(x)) \o Content(<<q[j]>>)
  <2>1. Grows(x, y, q[j])
    BY <1>8, <1>9 DEF Grows
  <2>2. x.head \in Seq(Unit) /\ x.payload \in Seq(Unit) /\ x.trailer \in Seq(Unit)
    BY PartsTyped
  <2> QED
    BY <1>4, <2>1, <2>2, HeldGrows
<1>14. B \in Nat
  BY LengthTyped
<1>15. y.stat # "INIT"
  BY <1>8, <1>9
<1>16. Whole(y, n) /\ Kinds(y.payload, "byte") /\ Kinds(y.trailer, "trailer")
  BY <1>10, NoKinds DEF Whole
<1>17. /\ isRequest => ~quiet
       /\ isRequest /\ m.framing = "none" => B = 0
       /\ ~isRequest /\ m.bare => quiet
  BY <1>1 DEF Plays
<1>18. ~quiet /\ m.framing \in {"none", "length"} =>
         Len(q) = j + B /\ BytesAt(q, j + 1, n, B)
  <2>1. SUFFICES ASSUME ~quiet, m.framing \in {"none", "length"}
                 PROVE  Len(q) = j + B /\ BytesAt(q, j + 1, n, B)
    OBVIOUS
  <2>2. Len(q) = (j + 1) - 1 + B /\ BytesAt(q, j + 1, n, B)
    BY <1>3, <2>1 DEF BodyAt
  <2> QED
    BY <1>2, <1>14, <2>2
<1>19. ~quiet /\ m.framing \notin {"none", "length"} => ChunkAt(q, j + 1) /\ Sized(q, j + 1)
  BY <1>3 DEF BodyAt
<1> HIDE DEF B
<1>20. Rest(q, j + 1, r, n, m, quiet) /\ Shape(y, r, n, m, quiet)
  <2>1. CASE m.framing = "both" /\ r.state = "error"
    <3>1. Rest(q, j + 1, r, n, m, quiet)
      BY <2>1, RestError
    <3>2. y.stat = "HEADER"
      BY <1>8, <1>9, <2>1, StateNames
    <3>3. Shape(y, r, n, m, quiet)
      BY <1>11, <2>1, <3>2, ShapeHeader
    <3> QED
      BY <3>1, <3>3
  <2>2. CASE /\ m.framing # "both" /\ r.state = (IF p.last THEN "dead" ELSE "start")
             /\ \/ m.framing = "length" /\ BodyLength(m) = 0
                \/ m.framing = "none" /\ (isRequest \/ m.bare)
    <3>1. Len(q) = (j + 1) - 1 /\ (~quiet => B = 0)
      <4>1. CASE quiet
        BY <1>2, <1>12, <4>1
      <4>2. CASE ~quiet
        <5>1. B = 0 /\ m.framing \in {"none", "length"}
          BY <1>17, <2>2, <4>2 DEF B
        <5> QED
          BY <1>2, <1>18, <4>2, <5>1
      <4> QED
        BY <4>1, <4>2
    <3>2. r.state \in Between /\ (r.state = "dead" => r.last)
      BY <1>6, <2>2, StateNames
    <3>3. Rest(q, j + 1, r, n, m, quiet)
      BY <3>1, <3>2, RestBetween, StateNames
    <3>4. y.stat = "COMPLETE"
      BY <1>9, <3>2
    <3>5. ~quiet => y.payload = Bytes(n, 0, BodyLength(m))
      BY <1>10, <3>1, NoBytes DEF B
    <3>6. Shape(y, r, n, m, quiet)
      BY <1>10, <1>16, <2>2, <3>2, <3>4, <3>5, ShapeWhole
    <3> QED
      BY <3>3, <3>6
  <2>3. CASE m.framing = "chunked" /\ r.state = "chunk_size"
    <3>1. Sized(q, j + 1) /\ (ChunkAt(q, j + 1) \/ (quiet /\ Len(q) = (j + 1) - 1))
      <4>1. CASE quiet
        <5>1. \A k \in (j + 1)..Len(q) : FALSE
          BY <1>2, <1>12, <4>1
        <5>2. Sized(q, j + 1)
          BY <5>1 DEF Sized
        <5> QED
          BY <1>2, <1>12, <4>1, <5>2
      <4>2. CASE ~quiet
        BY <1>19, <2>3, <4>2
      <4> QED
        BY <4>1, <4>2
    <3>2. Rest(q, j + 1, r, n, m, quiet)
      BY <2>3, <3>1, RestSize
    <3>3. y.stat = "BODY" /\ r.state \in BodyState \cup ChunkState /\ r.state # "identity"
      BY <1>9, <2>3, StateNames
    <3>4. Shape(y, r, n, m, quiet)
      BY <1>10, <1>16, <3>3, ShapeBody
    <3> QED
      BY <3>2, <3>4
  <2>4. CASE /\ m.framing = "length" /\ r.state = "identity"
             /\ BodyLength(m) # 0 /\ r.length = BodyLength(m)
    <3>1. r.length \in 1..BodyLength(m) /\ BodyLength(m) - r.length = 0
      BY <1>14, <2>4 DEF B
    <3>2. quiet => Len(q) = (j + 1) - 1
      BY <1>2, <1>12
    <3>3. ~quiet => Len(q) = (j + 1) - 1 + r.length /\ BytesAt(q, j + 1, n, BodyLength(m))
      BY <1>2, <1>18, <2>4 DEF B
    <3>4. Rest(q, j + 1, r, n, m, quiet)
      BY <2>4, <3>1, <3>2, <3>3, RestIdentity
    <3>5. y.stat = "BODY" /\ r.state \in BodyState \cup ChunkState
      BY <1>9, <2>4, StateNames
    <3>6. y.payload = Bytes(n, 0, BodyLength(m) - r.length)
      BY <1>10, <3>1, NoBytes
    <3>7. Shape(y, r, n, m, quiet)
      BY <1>10, <1>16, <3>5, <3>6, ShapeBody
    <3> QED
      BY <3>4, <3>7
  <2>5. CASE m.framing = "none" /\ ~isRequest /\ ~m.bare /\ r.state = "eof"
    <3>1. BytesAt(q, j + 1, n, BodyLength(m))
      <4>1. CASE quiet
        <5>1. \A k \in (j + 1)..Len(q) : FALSE
          BY <1>2, <1>12, <4>1
        <5> QED
          BY <5>1 DEF BytesAt
      <4>2. CASE ~quiet
        BY <1>18, <2>5, <4>2 DEF B
      <4> QED
        BY <4>1, <4>2
    <3>2. Rest(q, j + 1, r, n, m, quiet)
      BY <2>5, <3>1, RestEof
    <3>3. y.stat = "BODY" /\ r.state \in BodyState \cup ChunkState /\ r.state # "identity"
      BY <1>9, <2>5, StateNames
    <3>4. Shape(y, r, n, m, quiet)
      BY <1>10, <1>16, <3>3, ShapeBody
    <3> QED
      BY <3>2, <3>4
  <2> QED
    BY <1>1, <1>6, <2>1, <2>2, <2>3, <2>4, <2>5 DEF HeaderOver
<1>21. Stepped(q, j, n, m, quiet, x, y, r)
  BY <1>4, <1>8, <1>12, <1>13, <1>15, <1>20 DEF Stepped
<1> QED
  BY <1>6, <1>21 DEF y, r

\* The next byte of a body is the next one of the message.
LEMMA StepIdentity ==
    ASSUME NEW n \in Nat \ {0}, NEW m \in Message, NEW quiet \in BOOLEAN, NEW isRequest \in BOOLEAN,
           NEW q \in Seq(UnitTo(n)), NEW j \in 1..Len(q), NEW p \in Parser, NEW m1 \in Message,
           NEW skip \in BOOLEAN, NEW x \in StoredTo(n) \cup {NoMessage}
    PROVE  LET r == Execute(p, q[j], m1, isRequest, skip)
               y == Noted(x, p, q[j], r)
           IN  p.state = "identity" /\ Rest(q, j, p, n, m, quiet) /\ Shape(x, p, n, m, quiet)
               => Stepped(q, j, n, m, quiet, x, y, r) /\ r.last = p.last
<1> DEFINE r == Execute(p, q[j], m1, isRequest, skip)
           y == Noted(x, p, q[j], r)
           B == BodyLength(m)
           u == q[j]
<1>1. SUFFICES ASSUME p.state = "identity", Rest(q, j, p, n, m, quiet), Shape(x, p, n, m, quiet)
               PROVE  Stepped(q, j, n, m, quiet, x, y, r) /\ r.last = p.last
  OBVIOUS
<1>2. Len(q) \in Nat /\ j \in Nat /\ j <= Len(q) /\ j # 0 /\ (j + 1) - 1 = j /\ p.length \in Nat
  BY DEF Parser
<1>3. /\ m.framing = "length" /\ p.length \in 1..B
      /\ quiet => Len(q) = j - 1
      /\ ~quiet => Len(q) = j - 1 + p.length /\ BytesAt(q, j, n, B)
  BY <1>1 DEF Rest
<1>4. /\ x.stat = "BODY" /\ Whole(x, n) /\ x.trailer = <<>>
      /\ Kinds(x.payload, "byte")
      /\ ~quiet => x.payload = Bytes(n, 0, B - p.length)
  BY <1>1, StateNames DEF Shape
<1>5. B \in Nat
  BY LengthTyped
<1> HIDE DEF B
<1>6. ~quiet /\ Len(q) = j - 1 + p.length /\ BytesAt(q, j, n, B) /\ p.length > 0 /\ p.length <= B
  <2>1. Len(q) # j - 1
    BY <1>2
  <2>2. ~quiet
    BY <1>3, <2>1
  <2>3. p.length > 0 /\ p.length <= B
    BY <1>2, <1>3, <1>5
  <2> QED
    BY <1>3, <2>2, <2>3
<1>7. u = Piece("byte", n, (B - p.length) + 1) /\ u.kind = "byte"
  <2>1. j \in j..Len(q)
    BY <1>2
  <2>2. u = Piece("byte", n, B - (Len(q) - j))
    BY <1>6, <2>1 DEF BytesAt
  <2>3. B - (Len(q) - j) = (B - p.length) + 1
    BY <1>2, <1>5, <1>6
  <2>4. u = Piece("byte", n, (B - p.length) + 1)
    BY <2>2, <2>3
  <2> HIDE DEF u
  <2> QED
    BY <2>4 DEF Piece
<1>8. u \in UnitTo(n) /\ u \in Unit
  <2>1. u \in UnitTo(n)
    OBVIOUS
  <2> HIDE DEF u
  <2> QED
    BY <2>1 DEF UnitTo
<1>9. r = Identity(p)
  BY <1>1, ExecuteBody
<1> HIDE DEF r
<1>10. /\ r \in Parser /\ r.last = p.last
       /\ p.length = 1 => r.state = IF p.last THEN "dead" ELSE "start"
       /\ p.length # 1 => r.state = p.state /\ r.length = p.length - 1
  BY <1>6, <1>9, ByteTyped
<1>11. r.state # "fields" /\ (p.length = 1 => r.state \in Between)
  BY <1>1, <1>10, StateNames
<1>12. /\ y.stat = IF r.state \in Between THEN "COMPLETE" ELSE x.stat
       /\ y.head = x.head /\ y.payload = Append(x.payload, u) /\ y.trailer = x.trailer
  <2>1. p.state \in BodyState
    BY <1>1, StateNames
  <2> HIDE DEF u
  <2> QED
    BY <1>11, <2>1, NotedBody DEF u
<1> HIDE DEF y, u
<1>13. y.payload = Bytes(n, 0, (B - p.length) + 1)
  <2> DEFINE k == B - p.length
  <2>1. k \in Nat
    BY <1>2, <1>5, <1>6
  <2>2. x.payload = Bytes(n, 0, k)
    BY <1>4, <1>6
  <2>3. u = Piece("byte", n, k + 1)
    BY <1>7
  <2> HIDE DEF k
  <2>4. Append(Bytes(n, 0, k), Piece("byte", n, k + 1)) = Bytes(n, 0, k + 1)
    BY <2>1, OneMoreByte
  <2>5. y.payload = Bytes(n, 0, k + 1)
    BY <1>12, <2>2, <2>3, <2>4
  <2> QED
    BY <2>5 DEF k
<1>14. Whole(y, n) /\ Kinds(y.payload, "byte") /\ y.trailer = <<>> /\ Kinds(y.trailer, "trailer")
  <2>1. x.payload \in Seq(Unit)
    BY PartsTyped
  <2>2. Kinds(Append(x.payload, u), "byte")
    BY <1>4, <1>7, <1>8, <2>1, KindsAppend
  <2>3. Whole(y, n)
    BY <1>4, <1>12 DEF Whole
  <2> QED
    BY <1>4, <1>12, <2>2, <2>3, NoKinds
<1>15. Content(Held(y)) = Content(Held(x)) \o Content(<<u>>)
  <2>1. Grows(x, y, u)
    BY <1>4, <1>12 DEF Grows
  <2>2. x.head \in Seq(Unit) /\ x.payload \in Seq(Unit) /\ x.trailer \in Seq(Unit)
    BY PartsTyped
  <2> QED
    BY <1>8, <2>1, <2>2, HeldGrows
<1>16. Ahead(q, j + 1) = 0
  <2>1. SUFFICES ASSUME j + 1 <= Len(q) PROVE q[j + 1].kind # "begin"
    BY DEF Ahead
  <2>2. j + 1 \in j..Len(q)
    BY <1>2, <2>1
  <2>3. q[j + 1] = Piece("byte", n, B - (Len(q) - (j + 1)))
    BY <1>6, <2>2 DEF BytesAt
  <2> QED
    BY <2>3 DEF Piece
<1>17. Rest(q, j + 1, r, n, m, quiet) /\ Shape(y, r, n, m, quiet)
  <2>1. CASE p.length = 1
    <3>1. Len(q) = (j + 1) - 1
      BY <1>2, <1>6, <2>1
    <3>2. r.state \in Between /\ (r.state = "dead" => r.last)
      BY <1>10, <2>1, StateNames
    <3>3. Rest(q, j + 1, r, n, m, quiet)
      BY <3>1, <3>2, RestBetween, StateNames
    <3>4. y.stat = "COMPLETE"
      BY <1>12, <3>2
    <3>5. y.payload = Bytes(n, 0, BodyLength(m))
      <4>1. (B - p.length) + 1 = B
        BY <1>5, <2>1
      <4> QED
        BY <1>13, <4>1 DEF B
    <3>6. Shape(y, r, n, m, quiet)
      BY <1>3, <1>6, <1>14, <3>2, <3>4, <3>5, ShapeWhole
    <3> QED
      BY <3>3, <3>6
  <2>2. CASE p.length # 1
    <3>1. r.state = "identity" /\ r.length = p.length - 1
      BY <1>1, <1>10, <2>2
    <3>2. r.length \in 1..BodyLength(m) /\ Len(q) = (j + 1) - 1 + r.length
      <4>1. p.length - 1 \in 1..B /\ Len(q) = (j + 1) - 1 + (p.length - 1)
        BY <1>2, <1>5, <1>6, <2>2
      <4> QED
        BY <3>1, <4>1 DEF B
    <3>3. BytesAt(q, j + 1, n, BodyLength(m))
      <4>1. \A i \in (j + 1)..Len(q) : i \in j..Len(q)
        BY <1>2
      <4> QED
        BY <1>6, <4>1 DEF BytesAt, B
    <3>4. Rest(q, j + 1, r, n, m, quiet)
      BY <1>3, <1>6, <3>1, <3>2, <3>3, RestIdentity
    <3>5. y.stat = "BODY" /\ r.state \in BodyState \cup ChunkState
      BY <1>4, <1>12, <3>1, StateNames
    <3>6. y.payload = Bytes(n, 0, BodyLength(m) - r.length)
      <4>1. (B - p.length) + 1 = B - (p.length - 1)
        BY <1>2, <1>5
      <4> QED
        BY <1>13, <3>1, <4>1 DEF B
    <3>7. Shape(y, r, n, m, quiet)
      BY <1>6, <1>14, <3>5, <3>6, ShapeBody
    <3> QED
      BY <3>4, <3>7
  <2> QED
    BY <2>1, <2>2
<1>18. x # NoMessage /\ y.stat # "INIT"
  <2>1. x # NoMessage
    BY <1>4, EmptyWith
  <2> QED
    BY <1>4, <1>12, <2>1
<1>19. Stepped(q, j, n, m, quiet, x, y, r)
  BY <1>7, <1>15, <1>16, <1>17, <1>18 DEF Stepped, u
<1> QED
  BY <1>10, <1>19 DEF y, r, u

\* The bytes of a chunk, or of a body without a length: what is common to them.
LEMMA StepPayload ==
    ASSUME NEW n \in Nat \ {0}, NEW m \in Message, NEW quiet \in BOOLEAN,
           NEW q \in Seq(UnitTo(n)), NEW j \in 1..Len(q), NEW p \in Parser,
           NEW x \in StoredTo(n) \cup {NoMessage}, NEW r \in Parser
    PROVE  LET y == Noted(x, p, q[j], r)
           IN  /\ p.state \in {"eof", "chunk_data"} /\ Shape(x, p, n, m, quiet)
               /\ r.state \in {"eof", "chunk_data", "chunk_end"} /\ q[j].kind = "byte"
               /\ Rest(q, j + 1, r, n, m, quiet) /\ Ahead(q, j + 1) = 0
               => Stepped(q, j, n, m, quiet, x, y, r)
<1> DEFINE y == Noted(x, p, q[j], r)
           u == q[j]
<1>1. SUFFICES ASSUME p.state \in {"eof", "chunk_data"}, Shape(x, p, n, m, quiet),
                      r.state \in {"eof", "chunk_data", "chunk_end"}, u.kind = "byte",
                      Rest(q, j + 1, r, n, m, quiet), Ahead(q, j + 1) = 0
               PROVE  Stepped(q, j, n, m, quiet, x, y, r)
  OBVIOUS
<1>2. x.stat = "BODY" /\ Whole(x, n) /\ x.trailer = <<>> /\ Kinds(x.payload, "byte")
  BY <1>1, StateNames DEF Shape
<1>3. u \in UnitTo(n) /\ u \in Unit
  <2>1. u \in UnitTo(n)
    OBVIOUS
  <2> HIDE DEF u
  <2> QED
    BY <2>1 DEF UnitTo
<1>4. /\ r.state # "fields" /\ r.state \notin Between
      /\ r.state \in BodyState \cup ChunkState /\ r.state # "identity"
  BY <1>1, StateNames
<1>5. /\ y.stat = x.stat
      /\ y.head = x.head /\ y.payload = Append(x.payload, u) /\ y.trailer = x.trailer
  <2>1. p.state \in BodyState
    BY <1>1, StateNames
  <2> QED
    BY <1>4, <2>1, NotedBody
<1> HIDE DEF y, u
<1>6. Whole(y, n) /\ Kinds(y.payload, "byte") /\ y.trailer = <<>> /\ Kinds(y.trailer, "trailer")
  <2>1. x.payload \in Seq(Unit)
    BY PartsTyped
  <2>2. Kinds(Append(x.payload, u), "byte")
    BY <1>1, <1>2, <1>3, <2>1, KindsAppend
  <2>3. Whole(y, n)
    BY <1>2, <1>5 DEF Whole
  <2> QED
    BY <1>2, <1>5, <2>2, <2>3, NoKinds
<1>7. Content(Held(y)) = Content(Held(x)) \o Content(<<u>>)
  <2>1. Grows(x, y, u)
    BY <1>2, <1>5 DEF Grows
  <2>2. x.head \in Seq(Unit) /\ x.payload \in Seq(Unit) /\ x.trailer \in Seq(Unit)
    BY PartsTyped
  <2> QED
    BY <1>3, <2>1, <2>2, HeldGrows
<1>8. Shape(y, r, n, m, quiet)
  BY <1>2, <1>4, <1>5, <1>6, ShapeBody
<1>9. x # NoMessage /\ y.stat # "INIT"
  <2>1. x # NoMessage
    BY <1>2, EmptyWith
  <2> QED
    BY <1>2, <1>5, <2>1
<1>10. Stepped(q, j, n, m, quiet, x, y, r)
  BY <1>1, <1>7, <1>8, <1>9 DEF Stepped, u
<1> QED
  BY <1>10 DEF y, u

LEMMA StepEof ==
    ASSUME NEW n \in Nat \ {0}, NEW m \in Message, NEW quiet \in BOOLEAN, NEW isRequest \in BOOLEAN,
           NEW q \in Seq(UnitTo(n)), NEW j \in 1..Len(q), NEW p \in Parser, NEW m1 \in Message,
           NEW skip \in BOOLEAN, NEW x \in StoredTo(n) \cup {NoMessage}
    PROVE  LET r == Execute(p, q[j], m1, isRequest, skip)
               y == Noted(x, p, q[j], r)
           IN  p.state = "eof" /\ Rest(q, j, p, n, m, quiet) /\ Shape(x, p, n, m, quiet)
               => Stepped(q, j, n, m, quiet, x, y, r) /\ r.last = p.last
<1> DEFINE r == Execute(p, q[j], m1, isRequest, skip)
           y == Noted(x, p, q[j], r)
           B == BodyLength(m)
<1>1. SUFFICES ASSUME p.state = "eof", Rest(q, j, p, n, m, quiet), Shape(x, p, n, m, quiet)
               PROVE  Stepped(q, j, n, m, quiet, x, y, r) /\ r.last = p.last
  OBVIOUS
<1>2. Len(q) \in Nat /\ j \in Nat /\ j <= Len(q)
  OBVIOUS
<1>3. BytesAt(q, j, n, B)
  BY <1>1 DEF Rest
<1> HIDE DEF B
<1>4. \A i \in j..Len(q) : q[i].kind = "byte"
  <2>1. SUFFICES ASSUME NEW i \in j..Len(q) PROVE q[i].kind = "byte"
    OBVIOUS
  <2>2. q[i] = Piece("byte", n, B - (Len(q) - i))
    BY <1>3 DEF BytesAt
  <2> QED
    BY <2>2 DEF Piece
<1>5. q[j].kind = "byte" /\ Ahead(q, j + 1) = 0
  <2>1. j \in j..Len(q) /\ (j + 1 <= Len(q) => j + 1 \in j..Len(q))
    BY <1>2
  <2> QED
    BY <1>4, <2>1 DEF Ahead
<1>6. r = p
  BY <1>1, ExecuteBody
<1>7. BytesAt(q, j + 1, n, BodyLength(m))
  <2>1. \A i \in (j + 1)..Len(q) : i \in j..Len(q)
    BY <1>2
  <2> QED
    BY <1>3, <2>1 DEF BytesAt, B
<1> HIDE DEF r
<1>8. Rest(q, j + 1, r, n, m, quiet)
  BY <1>1, <1>6, <1>7, RestEof
<1>9. Stepped(q, j, n, m, quiet, x, y, r)
  <2>1. r \in Parser /\ r.state \in {"eof", "chunk_data", "chunk_end"}
        /\ p.state \in {"eof", "chunk_data"}
    BY <1>1, <1>6
  <2> QED
    BY <1>1, <1>5, <1>8, <2>1, StepPayload
<1> QED
  BY <1>6, <1>9 DEF r

\* The lines between the bytes of a chunked body: what is common to them.
LEMMA StepLine ==
    ASSUME NEW n \in Nat \ {0}, NEW m \in Message, NEW quiet \in BOOLEAN,
           NEW q \in Seq(UnitTo(n)), NEW j \in 1..Len(q), NEW p \in Parser,
           NEW x \in StoredTo(n) \cup {NoMessage}, NEW r \in Parser
    PROVE  LET y == Noted(x, p, q[j], r)
           IN  /\ p.state \in {"chunk_size", "chunk_end", "trailer"} /\ Shape(x, p, n, m, quiet)
               /\ m.framing = "chunked"
               /\ IF p.state = "trailer" THEN r.state \in Between \cup {"trailer"} ELSE r.state \in ChunkState
               /\ q[j].kind \in (IF p.state = "trailer" THEN {"trailer", "crlf"} ELSE {"size", "crlf"})
               /\ Rest(q, j + 1, r, n, m, quiet) /\ Ahead(q, j + 1) = 0
               => Stepped(q, j, n, m, quiet, x, y, r)
<1> DEFINE y == Noted(x, p, q[j], r)
           u == q[j]
<1>1. SUFFICES ASSUME p.state \in {"chunk_size", "chunk_end", "trailer"}, Shape(x, p, n, m, quiet),
                      m.framing = "chunked",
                      IF p.state = "trailer" THEN r.state \in Between \cup {"trailer"}
                                             ELSE r.state \in ChunkState,
                      u.kind \in (IF p.state = "trailer" THEN {"trailer", "crlf"} ELSE {"size", "crlf"}),
                      Rest(q, j + 1, r, n, m, quiet), Ahead(q, j + 1) = 0
               PROVE  Stepped(q, j, n, m, quiet, x, y, r)
  OBVIOUS
<1>2. /\ x.stat = "BODY" /\ Whole(x, n) /\ Kinds(x.payload, "byte") /\ Kinds(x.trailer, "trailer")
      /\ p.state # "trailer" => x.trailer = <<>>
  BY <1>1, StateNames DEF Shape
<1>3. u \in UnitTo(n) /\ u \in Unit
  <2>1. u \in UnitTo(n)
    OBVIOUS
  <2> HIDE DEF u
  <2> QED
    BY <2>1 DEF UnitTo
<1>4. r.state # "fields"
  BY <1>1, StateNames
<1>5. /\ y.stat = (IF r.state \in Between THEN "COMPLETE" ELSE x.stat)
      /\ y.head = x.head /\ y.payload = x.payload
      /\ y.trailer = IF p.state = "trailer" /\ u.kind = "trailer"
                     THEN Append(x.trailer, u) ELSE x.trailer
  BY <1>1, <1>2, <1>4, NotedChunk
<1> HIDE DEF y, u
<1>6. x.head \in Seq(Unit) /\ x.payload \in Seq(Unit) /\ x.trailer \in Seq(Unit)
  BY PartsTyped
<1>7. Whole(y, n) /\ Kinds(y.payload, "byte") /\ Kinds(y.trailer, "trailer")
  <2>1. CASE p.state = "trailer" /\ u.kind = "trailer"
    <3>1. Kinds(Append(x.trailer, u), "trailer")
      BY <1>2, <1>3, <1>6, <2>1, KindsAppend
    <3>2. Whole(y, n)
      BY <1>2, <1>5 DEF Whole
    <3> QED
      BY <1>2, <1>5, <2>1, <3>1, <3>2
  <2>2. CASE ~(p.state = "trailer" /\ u.kind = "trailer")
    <3>1. Whole(y, n)
      BY <1>2, <1>5 DEF Whole
    <3> QED
      BY <1>2, <1>5, <2>2, <3>1
  <2> QED
    BY <2>1, <2>2
<1>8. Content(Held(y)) = Content(Held(x)) \o Content(<<u>>)
  <2>1. Grows(x, y, u)
    BY <1>1, <1>5 DEF Grows
  <2> QED
    BY <1>3, <1>6, <2>1, HeldGrows
<1>9. Shape(y, r, n, m, quiet)
  <2>1. CASE r.state \in Between
    <3>1. y.stat = "COMPLETE"
      BY <1>5, <2>1
    <3> QED
      BY <1>1, <1>7, <2>1, <3>1, ShapeWhole
  <2>2. CASE r.state \notin Between
    <3>1. /\ r.state \in BodyState \cup ChunkState /\ y.stat = "BODY" /\ r.state # "identity"
          /\ r.state # "trailer" => p.state # "trailer"
      BY <1>1, <1>2, <1>5, <2>2, StateNames
    <3>2. r.state # "trailer" => y.trailer = <<>>
      BY <1>2, <1>5, <3>1
    <3> QED
      BY <1>7, <3>1, <3>2, ShapeBody
  <2> QED
    BY <2>1, <2>2
<1>10. x # NoMessage /\ y.stat # "INIT"
  <2>1. x # NoMessage
    BY <1>2, EmptyWith
  <2> QED
    BY <1>2, <1>5, <2>1
<1>11. u.kind # "begin"
  BY <1>1
<1>12. Stepped(q, j, n, m, quiet, x, y, r)
  BY <1>1, <1>8, <1>9, <1>10, <1>11 DEF Stepped, u
<1> QED
  BY <1>12 DEF y, u

LEMMA TrailerAhead ==
    ASSUME NEW q, NEW j \in Nat, Len(q) \in Nat
    PROVE  /\ TrailerAt(q, j) => j <= Len(q) /\ Ahead(q, j) = 0
           /\ TrailerAt(q, j) /\ q[j].kind = "trailer" => TrailerAt(q, j + 1)
           /\ TrailerAt(q, j) /\ q[j].kind # "trailer" => q[j] = LineEnd /\ Len(q) = j
<1>1. LineEnd.kind = "crlf"
  BY DEF LineEnd, Piece
<1>2. SUFFICES ASSUME TrailerAt(q, j)
               PROVE  /\ j <= Len(q) /\ Ahead(q, j) = 0
                      /\ q[j].kind = "trailer" => TrailerAt(q, j + 1)
                      /\ q[j].kind # "trailer" => q[j] = LineEnd /\ Len(q) = j
  OBVIOUS
<1>3. \/ Len(q) = j /\ q[j] = LineEnd
      \/ Len(q) = j + 1 /\ q[j].kind = "trailer" /\ q[j + 1] = LineEnd
  BY <1>2 DEF TrailerAt
<1>4. CASE Len(q) = j /\ q[j] = LineEnd
  BY <1>1, <1>4 DEF Ahead
<1>5. CASE Len(q) = j + 1 /\ q[j].kind = "trailer" /\ q[j + 1] = LineEnd
  <2>1. j <= Len(q)
    BY <1>5
  <2> QED
    BY <1>5, <2>1 DEF Ahead, TrailerAt
<1> QED
  BY <1>3, <1>4, <1>5

LEMMA SizedOn ==
    ASSUME NEW q, NEW j \in Nat, Len(q) \in Nat
    PROVE  Sized(q, j) => Sized(q, j + 1)
<1>1. \A k \in (j + 1)..Len(q) : k \in j..Len(q)
  OBVIOUS
<1> QED
  BY <1>1 DEF Sized

\* A byte of a chunk, or the line end behind it.
LEMMA DataAhead ==
    ASSUME NEW q, NEW j \in Nat, NEW k \in Nat, Len(q) \in Nat
    PROVE  /\ DataAt(q, j, k) => Ahead(q, j) = 0
           /\ DataAt(q, j, k) /\ k # 0 => q[j].kind = "byte" /\ DataAt(q, j + 1, k - 1)
           /\ DataAt(q, j, k) /\ k = 0 => q[j] = LineEnd /\ ChunkAt(q, j + 1)
<1>1. LineEnd.kind = "crlf"
  BY DEF LineEnd, Piece
<1>2. CASE k # 0
  <2>1. SUFFICES ASSUME DataAt(q, j, k)
                 PROVE  Ahead(q, j) = 0 /\ q[j].kind = "byte" /\ DataAt(q, j + 1, k - 1)
    BY <1>2
  <2>2. /\ j + k < Len(q) /\ \A i \in j..(j + k - 1) : q[i].kind = "byte"
        /\ q[j + k] = LineEnd /\ q[j + k + 1].kind = "size"
    BY <2>1 DEF DataAt
  <2>3. /\ j \in j..(j + k - 1) /\ k - 1 \in Nat /\ j + 1 + (k - 1) = j + k
        /\ j + 1 + (k - 1) - 1 = j + k - 1
        /\ j + 1 + (k - 1) + 1 = j + k + 1
        /\ \A i \in (j + 1)..(j + k - 1) : i \in j..(j + k - 1)
    BY <1>2
  <2>4. q[j].kind = "byte"
    BY <2>2, <2>3
  <2>5. DataAt(q, j + 1, k - 1)
    BY <2>2, <2>3 DEF DataAt
  <2> QED
    BY <2>4, <2>5 DEF Ahead
<1>3. CASE k = 0
  <2>1. SUFFICES ASSUME DataAt(q, j, k)
                 PROVE  Ahead(q, j) = 0 /\ q[j] = LineEnd /\ ChunkAt(q, j + 1)
    BY <1>3
  <2>2. /\ j + 0 < Len(q) /\ q[j + 0] = LineEnd /\ q[j + 0 + 1].kind = "size"
    BY <1>3, <2>1 DEF DataAt
  <2>3. j + 0 = j /\ j + 0 + 1 = j + 1 /\ (j + 0 < Len(q) => j + 1 <= Len(q))
    OBVIOUS
  <2>4. q[j] = LineEnd /\ ChunkAt(q, j + 1)
    BY <2>2, <2>3 DEF ChunkAt
  <2> QED
    BY <1>1, <2>4 DEF Ahead
<1> QED
  BY <1>2, <1>3

LEMMA ToSize ==
    \A p \in Parser : \A k \in Nat : \A st \in {"trailer", "chunk_data"} :
       LET r == Expecting(p, st, k)
       IN  r \in Parser /\ r.last = p.last /\ r.state = st /\ r.length = k
<1> SUFFICES ASSUME NEW p \in Parser, NEW k \in Nat, NEW st \in {"trailer", "chunk_data"}
             PROVE  LET r == Expecting(p, st, k)
                    IN  r \in Parser /\ r.last = p.last /\ r.state = st /\ r.length = k
  OBVIOUS
<1>1. st \in ParserState
  BY StateNames
<1> QED
  BY <1>1, ParserExpecting

LEMMA StepSize ==
    ASSUME NEW n \in Nat \ {0}, NEW m \in Message, NEW quiet \in BOOLEAN, NEW isRequest \in BOOLEAN,
           NEW q \in Seq(UnitTo(n)), NEW j \in 1..Len(q), NEW p \in Parser, NEW m1 \in Message,
           NEW skip \in BOOLEAN, NEW x \in StoredTo(n) \cup {NoMessage}
    PROVE  LET r == Execute(p, q[j], m1, isRequest, skip)
               y == Noted(x, p, q[j], r)
           IN  p.state = "chunk_size" /\ Rest(q, j, p, n, m, quiet) /\ Shape(x, p, n, m, quiet)
               => Stepped(q, j, n, m, quiet, x, y, r) /\ r.last = p.last
<1> DEFINE r == Execute(p, q[j], m1, isRequest, skip)
           y == Noted(x, p, q[j], r)
           u == q[j]
<1>1. SUFFICES ASSUME p.state = "chunk_size", Rest(q, j, p, n, m, quiet), Shape(x, p, n, m, quiet)
               PROVE  Stepped(q, j, n, m, quiet, x, y, r) /\ r.last = p.last
  OBVIOUS
<1>2. Len(q) \in Nat /\ j \in Nat /\ j <= Len(q) /\ Len(q) # j - 1 /\ j \in j..Len(q) /\ j + 1 \in Nat
  OBVIOUS
<1>3. u.size \in Nat
  <2>1. u \in UnitTo(n)
    OBVIOUS
  <2> HIDE DEF u
  <2> QED
    BY <2>1 DEF UnitTo, Unit
<1>4. m.framing = "chunked" /\ Sized(q, j) /\ u.kind = "size"
  <2>1. m.framing = "chunked" /\ Sized(q, j) /\ (ChunkAt(q, j) \/ (quiet /\ Len(q) = j - 1))
    BY <1>1, StateNames DEF Rest
  <2>2. ChunkAt(q, j)
    BY <1>2, <2>1
  <2> QED
    BY <2>1, <2>2 DEF ChunkAt
<1>5. IF u.size = 0 THEN TrailerAt(q, j + 1) ELSE DataAt(q, j + 1, u.size)
  BY <1>2, <1>4 DEF Sized
<1>6. r = Expecting(p, IF u.size = 0 THEN "trailer" ELSE "chunk_data", u.size)
  BY <1>1, <1>4, ExecuteChunk
<1>8. Sized(q, j + 1)
  BY <1>2, <1>4, SizedOn
<1> HIDE DEF r, u, y
<1>9. /\ r \in Parser /\ r.length = u.size /\ r.last = p.last
      /\ r.state = IF u.size = 0 THEN "trailer" ELSE "chunk_data"
  <2>1. CASE u.size = 0
    <3>1. r = Expecting(p, "trailer", u.size)
      BY <1>6, <2>1
    <3> QED
      BY <1>3, <2>1, <3>1, ToSize, ZenonT(60)
  <2>2. CASE u.size # 0
    <3>1. r = Expecting(p, "chunk_data", u.size)
      BY <1>6, <2>2
    <3> QED
      BY <1>3, <2>2, <3>1, ToSize, ZenonT(60)
  <2> QED
    BY <2>1, <2>2
<1>10. Rest(q, j + 1, r, n, m, quiet) /\ Ahead(q, j + 1) = 0
  <2>1. CASE u.size = 0
    BY <1>2, <1>4, <1>5, <1>9, <2>1, TrailerAhead, RestTrailer
  <2>2. CASE u.size # 0
    <3>1. r.length > 0 /\ DataAt(q, j + 1, r.length) /\ r.state = "chunk_data"
      BY <1>3, <1>5, <1>9, <2>2
    <3>2. Ahead(q, j + 1) = 0
      BY <1>2, <1>3, <1>5, <2>2, DataAhead
    <3> QED
      BY <1>4, <1>8, <3>1, <3>2, RestData
  <2> QED
    BY <2>1, <2>2
<1>11. r.state \in ChunkState /\ p.state # "trailer" /\ p.state \in {"chunk_size", "chunk_end", "trailer"}
  BY <1>1, <1>9, StateNames
<1>12. Stepped(q, j, n, m, quiet, x, y, r)
  BY <1>1, <1>4, <1>9, <1>10, <1>11, StepLine DEF y, u
<1> QED
  BY <1>9, <1>12 DEF y, r, u

LEMMA StepData ==
    ASSUME NEW n \in Nat \ {0}, NEW m \in Message, NEW quiet \in BOOLEAN, NEW isRequest \in BOOLEAN,
           NEW q \in Seq(UnitTo(n)), NEW j \in 1..Len(q), NEW p \in Parser, NEW m1 \in Message,
           NEW skip \in BOOLEAN, NEW x \in StoredTo(n) \cup {NoMessage}
    PROVE  LET r == Execute(p, q[j], m1, isRequest, skip)
               y == Noted(x, p, q[j], r)
           IN  p.state = "chunk_data" /\ Rest(q, j, p, n, m, quiet) /\ Shape(x, p, n, m, quiet)
               => Stepped(q, j, n, m, quiet, x, y, r) /\ r.last = p.last
<1> DEFINE r == Execute(p, q[j], m1, isRequest, skip)
           y == Noted(x, p, q[j], r)
<1>1. SUFFICES ASSUME p.state = "chunk_data", Rest(q, j, p, n, m, quiet), Shape(x, p, n, m, quiet)
               PROVE  Stepped(q, j, n, m, quiet, x, y, r) /\ r.last = p.last
  OBVIOUS
<1>2. Len(q) \in Nat /\ j \in Nat /\ j + 1 \in Nat /\ p.length \in Nat
  BY DEF Parser
<1>3. m.framing = "chunked" /\ p.length > 0 /\ DataAt(q, j, p.length) /\ Sized(q, j)
  BY <1>1, StateNames DEF Rest
<1>4. q[j].kind = "byte" /\ DataAt(q, j + 1, p.length - 1)
  BY <1>2, <1>3, DataAhead
<1>5. Sized(q, j + 1)
  BY <1>2, <1>3, SizedOn
<1>6. r = ChunkData(p)
  BY <1>1, ExecuteBody
<1> HIDE DEF r, y
<1>7. /\ r \in Parser /\ r.last = p.last /\ r.length = p.length - 1
      /\ r.state = IF p.length = 1 THEN "chunk_end" ELSE "chunk_data"
  BY <1>3, <1>6, ByteTyped
<1>8. Ahead(q, j + 1) = 0
  <2>1. p.length - 1 \in Nat
    BY <1>2, <1>3
  <2> QED
    BY <1>2, <1>4, <2>1, DataAhead
<1>9. Rest(q, j + 1, r, n, m, quiet)
  <2>1. CASE p.length = 1
    <3>1. DataAt(q, j + 1, 0)
      BY <1>4, <2>1
    <3> QED
      BY <1>3, <1>5, <1>7, <2>1, <3>1, RestEnd
  <2>2. CASE p.length # 1
    <3>1. r.length > 0 /\ DataAt(q, j + 1, r.length) /\ r.state = "chunk_data"
      BY <1>2, <1>3, <1>4, <1>7, <2>2
    <3> QED
      BY <1>3, <1>5, <3>1, RestData
  <2> QED
    BY <2>1, <2>2
<1>10. r.state \in {"eof", "chunk_data", "chunk_end"} /\ p.state \in {"eof", "chunk_data"}
  BY <1>1, <1>7
<1>11. Stepped(q, j, n, m, quiet, x, y, r)
  BY <1>1, <1>4, <1>7, <1>8, <1>9, <1>10, StepPayload DEF y
<1> QED
  BY <1>7, <1>11 DEF y, r

LEMMA StepEnd ==
    ASSUME NEW n \in Nat \ {0}, NEW m \in Message, NEW quiet \in BOOLEAN, NEW isRequest \in BOOLEAN,
           NEW q \in Seq(UnitTo(n)), NEW j \in 1..Len(q), NEW p \in Parser, NEW m1 \in Message,
           NEW skip \in BOOLEAN, NEW x \in StoredTo(n) \cup {NoMessage}
    PROVE  LET r == Execute(p, q[j], m1, isRequest, skip)
               y == Noted(x, p, q[j], r)
           IN  p.state = "chunk_end" /\ Rest(q, j, p, n, m, quiet) /\ Shape(x, p, n, m, quiet)
               => Stepped(q, j, n, m, quiet, x, y, r) /\ r.last = p.last
<1> DEFINE r == Execute(p, q[j], m1, isRequest, skip)
           y == Noted(x, p, q[j], r)
<1>1. SUFFICES ASSUME p.state = "chunk_end", Rest(q, j, p, n, m, quiet), Shape(x, p, n, m, quiet)
               PROVE  Stepped(q, j, n, m, quiet, x, y, r) /\ r.last = p.last
  OBVIOUS
<1>2. Len(q) \in Nat /\ j \in Nat /\ 0 \in Nat
  OBVIOUS
<1>3. m.framing = "chunked" /\ DataAt(q, j, 0) /\ Sized(q, j)
  BY <1>1, StateNames DEF Rest
<1>4. q[j] = LineEnd /\ ChunkAt(q, j + 1)
  BY <1>2, <1>3, DataAhead
<1>5. q[j].kind = "crlf"
  BY <1>4 DEF LineEnd, Piece
<1>6. Sized(q, j + 1)
  BY <1>2, <1>3, SizedOn
<1>7. r = To(p, "chunk_size")
  BY <1>1, <1>5, ExecuteChunk
<1> HIDE DEF r, y
<1>8. r \in Parser /\ r.last = p.last /\ r.state = "chunk_size"
  BY <1>7, ToKnown
<1>9. Ahead(q, j + 1) = 0
  BY <1>4 DEF ChunkAt, Ahead
<1>10. Rest(q, j + 1, r, n, m, quiet)
  BY <1>3, <1>4, <1>6, <1>8, RestSize
<1>11. r.state \in ChunkState /\ p.state # "trailer" /\ p.state \in {"chunk_size", "chunk_end", "trailer"}
  BY <1>1, <1>8, StateNames
<1>12. Stepped(q, j, n, m, quiet, x, y, r)
  BY <1>1, <1>3, <1>5, <1>8, <1>9, <1>10, <1>11, StepLine DEF y
<1> QED
  BY <1>8, <1>12 DEF y, r

LEMMA StepTrailer ==
    ASSUME NEW n \in Nat \ {0}, NEW m \in Message, NEW quiet \in BOOLEAN, NEW isRequest \in BOOLEAN,
           NEW q \in Seq(UnitTo(n)), NEW j \in 1..Len(q), NEW p \in Parser, NEW m1 \in Message,
           NEW skip \in BOOLEAN, NEW x \in StoredTo(n) \cup {NoMessage}
    PROVE  LET r == Execute(p, q[j], m1, isRequest, skip)
               y == Noted(x, p, q[j], r)
           IN  p.state = "trailer" /\ Rest(q, j, p, n, m, quiet) /\ Shape(x, p, n, m, quiet)
               => Stepped(q, j, n, m, quiet, x, y, r) /\ r.last = p.last
<1> DEFINE r == Execute(p, q[j], m1, isRequest, skip)
           y == Noted(x, p, q[j], r)
<1>1. SUFFICES ASSUME p.state = "trailer", Rest(q, j, p, n, m, quiet), Shape(x, p, n, m, quiet)
               PROVE  Stepped(q, j, n, m, quiet, x, y, r) /\ r.last = p.last
  OBVIOUS
<1>2. Len(q) \in Nat /\ j \in Nat /\ j + 1 \in Nat /\ (j + 1) - 1 = j
  OBVIOUS
<1>3. m.framing = "chunked" /\ TrailerAt(q, j)
  BY <1>1, StateNames DEF Rest
<1>4. CASE q[j].kind = "trailer"
  <2>1. r = p
    BY <1>1, <1>4, ExecuteChunk
  <2> HIDE DEF r, y
  <2>2. TrailerAt(q, j + 1) /\ r.state = "trailer" /\ r \in Parser
    BY <1>1, <1>2, <1>3, <1>4, <2>1, TrailerAhead
  <2>3. Ahead(q, j + 1) = 0
    BY <1>2, <2>2, TrailerAhead
  <2>4. Rest(q, j + 1, r, n, m, quiet)
    BY <1>3, <2>2, RestTrailer
  <2>5. Stepped(q, j, n, m, quiet, x, y, r)
    BY <1>1, <1>3, <1>4, <2>2, <2>3, <2>4, StepLine DEF y
  <2> QED
    BY <2>1, <2>5 DEF y, r
<1>5. CASE q[j].kind # "trailer"
  <2>1. q[j] = LineEnd /\ Len(q) = j
    BY <1>2, <1>3, <1>5, TrailerAhead
  <2>2. q[j].kind = "crlf"
    BY <2>1 DEF LineEnd, Piece
  <2>3. r = NewMessage(p)
    BY <1>1, <2>2, ExecuteChunk
  <2> HIDE DEF r, y
  <2>4. r \in Parser /\ r.last = p.last /\ r.state = IF p.last THEN "dead" ELSE "start"
    BY <2>3, ParserNew
  <2>5. r.state \in Between /\ (r.state = "dead" => r.last)
    BY <2>4, StateNames
  <2>6. Rest(q, j + 1, r, n, m, quiet)
    BY <1>2, <2>1, <2>5, RestBetween, StateNames
  <2>7. Ahead(q, j + 1) = 0
    <3>1. ~(j + 1 <= Len(q))
      BY <1>2, <2>1
    <3> QED
      BY <3>1 DEF Ahead
  <2>8. Stepped(q, j, n, m, quiet, x, y, r)
    BY <1>1, <1>3, <2>2, <2>4, <2>5, <2>6, <2>7, StepLine DEF y
  <2> QED
    BY <2>4, <2>8 DEF y, r
<1> QED
  BY <1>4, <1>5

(***************************************************************************)
(* One unit of the last message is parsed: what the parser has still to    *)
(* read and what the slot holds fit together again.                        *)
(***************************************************************************)
LEMMA StepTaken ==
    ASSUME NEW n \in Nat \ {0}, NEW m \in Message, NEW quiet \in BOOLEAN, NEW isRequest \in BOOLEAN,
           NEW q \in Seq(UnitTo(n)), NEW j \in 1..Len(q), NEW p \in Parser, NEW m1 \in Message,
           NEW skip \in BOOLEAN, NEW w \in StoredTo(n) \cup {NoMessage}
    PROVE  LET r == Execute(p, q[j], m1, isRequest, skip)
               x == Begun(w, p, r)
               y == Noted(x, p, q[j], r)
           IN  /\ Rest(q, j, p, n, m, quiet) /\ Shape(w, p, n, m, quiet)
               /\ Plays(m, quiet, isRequest) /\ ~skip /\ (q[j].of = n => m1 = m)
               /\ p.state # "error" /\ (p.state = "start" => w = NoMessage)
               => /\ x # NoMessage /\ Stepped(q, j, n, m, quiet, w, y, r)
                  /\ (p.state = "start" => r.last = m.last) /\ (p.state # "start" => r.last = p.last)
<1> DEFINE r == Execute(p, q[j], m1, isRequest, skip)
           x == Begun(w, p, r)
           y == Noted(x, p, q[j], r)
<1>1. SUFFICES ASSUME Rest(q, j, p, n, m, quiet), Shape(w, p, n, m, quiet),
                      Plays(m, quiet, isRequest), ~skip, q[j].of = n => m1 = m,
                      p.state # "error", p.state = "start" => w = NoMessage
               PROVE  /\ x # NoMessage /\ Stepped(q, j, n, m, quiet, w, y, r)
                      /\ (p.state = "start" => r.last = m.last) /\ (p.state # "start" => r.last = p.last)
  OBVIOUS
<1>2. CASE p.state = "start"
  <2> DEFINE z == Begun(NoMessage, p, r)
  <2>1. w = NoMessage
    BY <1>1, <1>2
  <2>2. /\ z # NoMessage /\ Stepped(q, j, n, m, quiet, NoMessage, Noted(z, p, q[j], r), r)
        /\ r.last = m1.last /\ q[j].of = n
    BY <1>1, <1>2, StepStart
  <2>3. x = z
    BY <2>1
  <2>4. m1 = m
    BY <1>1, <2>2
  <2> HIDE DEF r, x, z
  <2>5. /\ x # NoMessage /\ Stepped(q, j, n, m, quiet, w, y, r) /\ r.last = m.last
    BY <2>1, <2>2, <2>3, <2>4
  <2> QED
    BY <1>2, <2>5
<1>3. CASE p.state # "start"
  <2>1. x = w
    BY <1>3 DEF Begun
  <2>2. p.state # "dead"
    <3>1. Len(q) # j - 1
      OBVIOUS
    <3> QED
      BY <1>1, <3>1 DEF Rest
  <2>3. w # NoMessage
    <3>1. w.stat # "INIT"
      <4>1. p.state \in {"fields"} \cup BodyState \cup ChunkState
        BY <1>1, <1>3, <2>2, StateNames DEF Parser
      <4>2. p.state = "fields" => w.stat = "HEADER"
        BY <1>1 DEF Shape, Headed
      <4>3. p.state \in BodyState \cup ChunkState => w.stat = "BODY"
        BY <1>1 DEF Shape
      <4> QED
        BY <4>1, <4>2, <4>3
    <3> QED
      BY <3>1, PartsTyped
  <2> DEFINE v == Noted(w, p, q[j], r)
  <2>4. Stepped(q, j, n, m, quiet, w, v, r) /\ r.last = p.last
    <3>1. p.state = "fields" => Stepped(q, j, n, m, quiet, w, v, r) /\ r.last = p.last
      BY <1>1, StepFields
    <3>2. p.state = "identity" => Stepped(q, j, n, m, quiet, w, v, r) /\ r.last = p.last
      BY <1>1, StepIdentity
    <3>3. p.state = "eof" => Stepped(q, j, n, m, quiet, w, v, r) /\ r.last = p.last
      BY <1>1, StepEof
    <3>4. p.state = "chunk_size" => Stepped(q, j, n, m, quiet, w, v, r) /\ r.last = p.last
      BY <1>1, StepSize
    <3>5. p.state = "chunk_data" => Stepped(q, j, n, m, quiet, w, v, r) /\ r.last = p.last
      BY <1>1, StepData
    <3>6. p.state = "chunk_end" => Stepped(q, j, n, m, quiet, w, v, r) /\ r.last = p.last
      BY <1>1, StepEnd
    <3>7. p.state = "trailer" => Stepped(q, j, n, m, quiet, w, v, r) /\ r.last = p.last
      BY <1>1, StepTrailer
    <3>8. p.state \in {"fields", "identity", "eof", "chunk_size", "chunk_data", "chunk_end", "trailer"}
      BY <1>1, <1>3, <2>2, StateNames DEF Parser
    <3> HIDE DEF v, r
    <3> QED
      BY <3>1, <3>2, <3>3, <3>4, <3>5, <3>6, <3>7, <3>8
  <2> HIDE DEF r, x
  <2>5. v = y
    BY <2>1
  <2> HIDE DEF v, y
  <2> QED
    BY <1>3, <2>1, <2>3, <2>4, <2>5
<1> QED
  BY <1>2, <1>3

(***************************************************************************)
(* What the operators return.                                              *)
(***************************************************************************)
LEMMA ExecuteTyped ==
    ASSUME NEW p \in Parser, Live(p), NEW u \in Unit, NEW m \in Message,
           NEW isRequest \in BOOLEAN, NEW skip \in BOOLEAN
    PROVE  Execute(p, u, m, isRequest, skip) \in Parser /\ Live(Execute(p, u, m, isRequest, skip))
<1> DEFINE r == Execute(p, u, m, isRequest, skip)
<1>1. p.length \in Nat /\ p.state \in ParserState /\ u.size \in Nat /\ BodyLength(m) \in Nat
  BY LengthTyped DEF Parser, Unit
<1>2. p.state \in {"identity", "chunk_data"} => p.length > 0
  BY DEF Live
<1>3. \A v \in Parser : v.state \notin {"identity", "chunk_data"} => Live(v)
  BY DEF Live
<1>4. \A v \in Parser : v.length > 0 => Live(v)
  BY DEF Live
<1>5. /\ To(p, "error") \in Parser /\ Live(To(p, "error"))
      /\ NewMessage(p) \in Parser /\ Live(NewMessage(p))
  <2>1. /\ To(p, "error") \in Parser /\ To(p, "error").state = "error"
        /\ NewMessage(p) \in Parser /\ NewMessage(p).state \in {"start", "dead"}
    BY ToKnown, ParserNew
  <2> QED
    BY <1>3, <2>1
<1>6. CASE p.state \in Between
  <2>1. CASE p.state = "start" /\ u.kind = "begin"
    <3>1. r = [state |-> "fields", length |-> 0, last |-> m.last]
      BY <2>1, ExecuteBetween
    <3>2. m.last \in BOOLEAN /\ "fields" \in ParserState
      BY StateNames DEF Message
    <3>3. r \in Parser /\ r.state = "fields"
      BY <3>1, <3>2 DEF Parser
    <3> QED
      BY <1>3, <3>3
  <2>2. CASE u.kind = "crlf"
    <3>1. r = p
      BY <1>6, <2>2, ExecuteBetween
    <3> QED
      BY <3>1
  <2>3. CASE u.kind # "crlf" /\ ~(p.state = "start" /\ u.kind = "begin")
    <3>1. r = To(p, "error")
      <4>1. p.state = "start" \/ p.state = "dead"
        BY <1>6, StateNames
      <4> QED
        BY <2>3, <4>1, ExecuteBetween
    <3> QED
      BY <1>5, <3>1
  <2> QED
    BY <2>1, <2>2, <2>3
<1>7. CASE p.state = "fields"
  <2>1. CASE u.kind = "fields"
    <3>1. r = HeadersDone(p, m, isRequest, skip)
      BY <1>7, <2>1, ExecuteFields
    <3> HIDE DEF r
    <3>2. r \in Parser /\ HeaderOver(r, p, m, isRequest, skip)
      BY <3>1, HeadersTyped
    <3>3. \/ r.state = "error" \/ r.state = "dead" \/ r.state = "start"
          \/ r.state = "chunk_size" \/ r.state = "eof"
          \/ r.length = BodyLength(m) /\ BodyLength(m) # 0
      <4>1. (IF p.last THEN "dead" ELSE "start") \in {"dead", "start"}
        OBVIOUS
      <4> QED
        BY <3>2, <4>1, Zenon DEF HeaderOver
    <3>4. BodyLength(m) # 0 => BodyLength(m) > 0
      BY <1>1
    <3> QED
      BY <1>3, <1>4, <3>2, <3>3, <3>4 DEF r
  <2>2. CASE u.kind # "fields"
    <3>1. r = To(p, "error")
      BY <1>7, <2>2, ExecuteFields
    <3> QED
      BY <1>5, <3>1
  <2> QED
    BY <2>1, <2>2
<1>8. CASE p.state = "identity"
  <2>1. r = Identity(p)
    BY <1>8, ExecuteBody
  <2> HIDE DEF r
  <2>2. /\ r \in Parser
        /\ p.length = 1 => r.state = IF p.last THEN "dead" ELSE "start"
        /\ p.length # 1 => r.length = p.length - 1
    BY <1>2, <1>8, <2>1, ByteTyped
  <2>3. p.length # 1 => p.length - 1 > 0
    BY <1>1, <1>2, <1>8
  <2> QED
    BY <1>3, <1>4, <2>2, <2>3 DEF r
<1>9. CASE p.state = "chunk_data"
  <2>1. r = ChunkData(p)
    BY <1>9, ExecuteBody
  <2> HIDE DEF r
  <2>2. /\ r \in Parser /\ r.length = p.length - 1
        /\ r.state = IF p.length = 1 THEN "chunk_end" ELSE "chunk_data"
    BY <1>2, <1>9, <2>1, ByteTyped
  <2>3. p.length # 1 => p.length - 1 > 0
    BY <1>1, <1>2, <1>9
  <2> QED
    BY <1>3, <1>4, <2>2, <2>3 DEF r
<1>10. CASE p.state \in {"eof", "error"}
  <2>1. r = p
    BY <1>10, ExecuteBody
  <2> QED
    BY <2>1
<1>11. CASE p.state = "chunk_size"
  <2>1. CASE u.kind # "size"
    <3>1. r = To(p, "error")
      BY <1>11, <2>1, ExecuteChunk
    <3> QED
      BY <1>5, <3>1
  <2>2. CASE u.kind = "size" /\ u.size = 0
    <3>1. r = Expecting(p, "trailer", u.size)
      BY <1>11, <2>2, ExecuteChunk
    <3> HIDE DEF r
    <3>2. r \in Parser /\ r.state = "trailer"
      BY <1>1, <3>1, ToSize
    <3> QED
      BY <1>3, <3>2 DEF r
  <2>3. CASE u.kind = "size" /\ u.size # 0
    <3>1. r = Expecting(p, "chunk_data", u.size)
      BY <1>11, <2>3, ExecuteChunk
    <3> HIDE DEF r
    <3>2. r \in Parser /\ r.length = u.size
      BY <1>1, <3>1, ToSize
    <3>3. u.size > 0
      BY <1>1, <2>3
    <3> QED
      BY <1>4, <3>2, <3>3 DEF r
  <2> QED
    BY <2>1, <2>2, <2>3
<1>12. CASE p.state = "chunk_end"
  <2>1. r = To(p, "chunk_size") \/ r = To(p, "error")
    BY <1>12, ExecuteChunk
  <2> HIDE DEF r
  <2>2. r \in Parser /\ r.state \in {"chunk_size", "error"}
    BY <2>1, ToKnown
  <2> QED
    BY <1>3, <2>2 DEF r
<1>13. CASE p.state = "trailer"
  <2>1. r = p \/ r = NewMessage(p) \/ r = To(p, "error")
    <3>1. u.kind = "trailer" \/ u.kind = "crlf" \/ u.kind \notin {"trailer", "crlf"}
      OBVIOUS
    <3> QED
      BY <1>13, <3>1, ExecuteChunk
  <2> QED
    BY <1>5, <2>1
<1> QED
  BY <1>1, <1>6, <1>7, <1>8, <1>9, <1>10, <1>11, <1>12, <1>13, StateNames

\* A message whose units are in X.
Of(X) == [stat : {"HEADER", "BODY", "COMPLETE"}, head : Seq(X), payload : Seq(X), trailer : Seq(X)]

LEMMA NotedTyped ==
    ASSUME NEW X, NEW x \in Of(X), NEW u \in X, NEW p, NEW r
    PROVE  Noted(x, p, u, r) \in Of(X)
<1>1. /\ x.stat \in {"HEADER", "BODY", "COMPLETE"}
      /\ x.head \in Seq(X) /\ x.payload \in Seq(X) /\ x.trailer \in Seq(X)
  BY DEF Of
<1>2. Append(x.head, u) \in Seq(X) /\ Append(x.payload, u) \in Seq(X) /\ Append(x.trailer, u) \in Seq(X)
  BY <1>1
<1> DEFINE y == Noted(x, p, u, r)
<1>3. y = [stat |-> y.stat, head |-> y.head, payload |-> y.payload, trailer |-> y.trailer]
  BY DEF Noted
<1>4. y.stat \in {"HEADER", "BODY", "COMPLETE"}
  BY <1>1 DEF Noted
<1>5. y.head \in Seq(X) /\ y.payload \in Seq(X) /\ y.trailer \in Seq(X)
  BY <1>1, <1>2 DEF Noted
<1> HIDE DEF y
<1>6. y \in Of(X)
  BY <1>3, <1>4, <1>5 DEF Of
<1> QED
  BY <1>6 DEF y

LEMMA BegunTyped ==
    ASSUME NEW X, NEW w \in Of(X) \cup {NoMessage}, NEW p, NEW r
    PROVE  Begun(w, p, r) \in Of(X) \cup {NoMessage}
<1>1. Empty \in Of(X)
  <2>1. Empty = [stat |-> "HEADER", head |-> <<>>, payload |-> <<>>, trailer |-> <<>>]
    BY DEF Empty, NoMessage
  <2>2. <<>> \in Seq(X)
    OBVIOUS
  <2> QED
    BY <2>1, <2>2 DEF Of
<1> QED
  BY <1>1 DEF Begun

LEMMA OfAre ==
    Stored = Of(Unit) /\ \A n : StoredTo(n) = Of(UnitTo(n))
  BY DEF Stored, StoredTo, Of

LEMMA StoredAre ==
    ASSUME NEW n \in Nat, NEW m \in Nat, n <= m
    PROVE  StoredTo(n) \subseteq StoredTo(m) /\ StoredTo(n) \subseteq Stored
<1>1. SUFFICES ASSUME NEW x \in StoredTo(n) PROVE x \in StoredTo(m) /\ x \in Stored
  OBVIOUS
<1>2. /\ x = [stat |-> x.stat, head |-> x.head, payload |-> x.payload, trailer |-> x.trailer]
      /\ x.stat \in {"HEADER", "BODY", "COMPLETE"}
      /\ x.head \in Seq(UnitTo(n)) /\ x.payload \in Seq(UnitTo(n)) /\ x.trailer \in Seq(UnitTo(n))
  BY DEF StoredTo
<1>3. x.head \in Seq(UnitTo(m)) /\ x.payload \in Seq(UnitTo(m)) /\ x.trailer \in Seq(UnitTo(m))
  BY <1>2, UnitsWiden
<1>4. x.head \in Seq(Unit) /\ x.payload \in Seq(Unit) /\ x.trailer \in Seq(Unit)
  BY <1>2, UnitsAre
<1> QED
  BY <1>2, <1>3, <1>4 DEF StoredTo, Stored

LEMMA RenderedTyped ==
    ASSUME NEW X, NEW x \in Of(X), LineEnd \in X
    PROVE  Rendered(x) \in Seq(X)
<1>1. x.head \in Seq(X) /\ x.payload \in Seq(X) /\ x.trailer \in Seq(X)
  BY DEF Of
<1> DEFINE a == x.head
           b == IF x.payload = <<>> THEN <<>> ELSE Append(x.payload, LineEnd)
           c == IF x.trailer = <<>> THEN <<>> ELSE Append(x.trailer, LineEnd)
<1>2. a \in Seq(X) /\ b \in Seq(X) /\ c \in Seq(X)
  BY <1>1
<1>3. Rendered(x) = a \o b \o c
  BY DEF Rendered
<1> HIDE DEF a, b, c
<1>4. a \o b \o c \in Seq(X)
  BY <1>2
<1> QED
  BY <1>3, <1>4

LEMMA Sides ==
    /\ Side = {"up", "down"} /\ Other("up") = "down" /\ Other("down") = "up"
    /\ \A s \in Side : Other(s) \in Side /\ Other(s) # s /\ Other(Other(s)) = s
    /\ \A s, t \in Side : t = s \/ t = Other(s)
  BY DEF Side, Other

LEMMA MessagesAre == Requests \subseteq Message /\ Responses \subseteq Message
  BY WireAssumption

LEMMA SaidMessages ==
    ASSUME TypeOK, NEW s \in Side
    PROVE  said[s] \in Seq(Message) /\ Len(said[s]) \in Nat
<1>1. said["up"] \in Seq(Requests) /\ said["down"] \in Seq(Responses)
  BY DEF TypeOK
<1>2. \A q : (q \in Seq(Requests) \/ q \in Seq(Responses)) => q \in Seq(Message)
  BY MessagesAre
<1>3. s = "up" \/ s = "down"
  BY Sides
<1> QED
  BY <1>1, <1>2, <1>3

\* A unit of a side belongs to a message its peer has sent.
LEMMA MessageTyped ==
    ASSUME TypeInv, NEW s \in Side, NEW u \in UnitTo(Len(said[s])), Len(said[s]) # 0
    PROVE  /\ MessageOf(s, u) \in Message
           /\ u.of = Len(said[s]) => MessageOf(s, u) = Latest(s)
<1> DEFINE q == said[s]
<1>1. q \in Seq(Message) /\ Len(q) \in Nat /\ Len(q) # 0
  BY SaidMessages DEF TypeInv
<1>2. u.of \in Nat /\ u.of <= Len(q)
  BY <1>1, UnitsTyped
<1> HIDE DEF q
<1>3. (IF u.of = 0 THEN 1 ELSE u.of) \in 1..Len(q)
  BY <1>1, <1>2
<1>4. q[IF u.of = 0 THEN 1 ELSE u.of] \in Message
  BY <1>1, <1>3
<1>5. u.of = Len(q) => q[IF u.of = 0 THEN 1 ELSE u.of] = q[Len(q)]
  BY <1>1
<1> QED
  BY <1>4, <1>5 DEF q, MessageOf, Latest

LEMMA Typed ==
    ASSUME TypeInv, NEW s \in Side
    PROVE  /\ Len(said[s]) \in Nat
           /\ sent[s] \in Seq(UnitTo(Len(said[s]))) /\ sent[s] \in Seq(Unit)
           /\ out[Other(s)] \in Seq(UnitTo(Len(said[s]))) /\ out[s] \in Seq(Unit)
           /\ slot[s] \in StoredTo(Len(said[s])) \cup {NoMessage}
           /\ Len(said[s]) = 0 => sent[s] = <<>> /\ out[Other(s)] = <<>> /\ slot[s] = NoMessage
           /\ parsed[s] \in Nat /\ parsed[s] <= Len(sent[s]) /\ Len(sent[s]) \in Nat
           /\ parser[s] \in Parser /\ Live(parser[s])
           /\ delivered[s] \in Nat /\ delivered[s] <= Len(out[s]) /\ Len(out[s]) \in Nat
           /\ heard[s].parser \in Parser /\ Live(heard[s].parser)
           /\ heard[s].slot \in Stored \cup {NoMessage} /\ heard[s].got \in Seq(Stored)
<1>1. SideTyped(s) /\ TypeOK
  BY DEF TypeInv
<1>2. /\ sent[s] \in Seq(Unit) /\ out[s] \in Seq(Unit) /\ parsed[s] \in Nat
      /\ parsed[s] <= Len(sent[s])
      /\ parser[s] \in Parser /\ delivered[s] \in Nat
  BY <1>1 DEF TypeOK
<1>3. heard[s] \in [parser : Parser, slot : Stored \cup {NoMessage}, got : Seq(Stored)]
  BY <1>1 DEF TypeOK
<1>4. Len(said[s]) \in Nat
  BY <1>1, SaidMessages
<1>5. Len(sent[s]) \in Nat /\ Len(out[s]) \in Nat
  BY <1>2
<1> QED
  BY <1>1, <1>2, <1>3, <1>4, <1>5 DEF SideTyped

\* What a side's part is typed by, as an operator of its values.
PartTyped(n, a, b, w, p, h, d, l) ==
    /\ a \in Seq(UnitTo(n)) /\ b \in Seq(UnitTo(n)) /\ w \in StoredTo(n) \cup {NoMessage}
    /\ n = 0 => a = <<>> /\ b = <<>> /\ w = NoMessage
    /\ Live(p) /\ Live(h.parser) /\ d <= l

LEMMA PartIs ==
    \A s : SideTyped(s) <=> PartTyped(Len(said[s]), sent[s], out[Other(s)], slot[s], parser[s],
                                      heard[s], delivered[s], Len(out[s]))
  BY DEF SideTyped, PartTyped

\* A message is said: the numbers may be larger now.
LEMMA PartLater ==
    ASSUME NEW n \in Nat, NEW a, NEW b, NEW w, NEW p, NEW h, NEW d, NEW l,
           PartTyped(n, a, b, w, p, h, d, l),
           NEW c \in Seq(UnitTo(n + 1))
    PROVE  PartTyped(n + 1, c, b, w, p, h, d, l)
<1>1. n + 1 \in Nat /\ n <= n + 1 /\ n + 1 # 0
  OBVIOUS
<1>2. b \in Seq(UnitTo(n + 1))
  BY <1>1, UnitsWiden DEF PartTyped
<1>3. w \in StoredTo(n + 1) \cup {NoMessage}
  BY <1>1, StoredAre DEF PartTyped
<1> QED
  BY <1>1, <1>2, <1>3 DEF PartTyped

\* What the peer of s says next.
Hushed(s, n, m) == s = "down" /\ (said["up"][n].bare \/ m.bare)

LEMMA SayIs ==
    ASSUME TypeInv, NEW s \in Side, NEW m \in Message, Say(s, m)
    PROVE  LET n == Len(said[s]) + 1
           IN  /\ n \in Nat \ {0} /\ Hushed(s, n, m) \in BOOLEAN /\ handler = "idle"
               /\ said'[s] = Append(said[s], m) /\ Len(said'[s]) = n /\ said'[s][n] = m
               /\ \A i \in 1..Len(said[s]) : said'[s][i] = said[s][i]
               /\ said'[Other(s)] = said[Other(s)]
               /\ sent'[s] = Said(sent[s], m, n, Hushed(s, n, m))
               /\ sent'[Other(s)] = sent[Other(s)]
               /\ sent[s] \in Seq(UnitTo(n))
               /\ sent'[s] \in Seq(UnitTo(n))
               /\ \E r \in Seq(UnitTo(n)) : sent'[s] = sent[s] \o r
               /\ BeginAt(sent'[s], Len(sent[s]) + 1, n, m, Hushed(s, n, m))
               /\ sent' \in [Side -> Seq(Unit)]
<1> DEFINE n == Len(said[s]) + 1
           h == Hushed(s, n, m)
           e == Said(sent[s], m, n, h)
<1>1. Len(said[s]) \in Nat /\ said[s] \in Seq(Message) /\ sent[s] \in Seq(UnitTo(Len(said[s])))
  BY SaidMessages, Typed DEF TypeInv
<1>2. n \in Nat \ {0} /\ Len(said[s]) <= n
  BY <1>1
<1>3. h \in BOOLEAN
  BY DEF Hushed
<1>4. sent[s] \in Seq(UnitTo(n))
  BY <1>1, <1>2, UnitsWiden
<1>5. handler = "idle" /\ said' = [said EXCEPT ![s] = Append(@, m)]
  BY DEF Say
<1>6. DOMAIN said = Side /\ sent \in [Side -> Seq(Unit)]
  BY DEF TypeInv, TypeOK
<1>7. /\ said'[s] = Append(said[s], m)
      /\ said'[Other(s)] = said[Other(s)]
  BY <1>5, <1>6, Sides
<1>8. /\ Len(said'[s]) = n /\ said'[s][n] = m
      /\ \A i \in 1..Len(said[s]) : said'[s][i] = said[s][i]
  BY <1>1, <1>7, AppendProperties
<1>9. sent' = [sent EXCEPT ![s] = e]
  <2>1. sent' = [sent EXCEPT ![s] =
               @ \o <<Piece("begin", n, 0), Piece("fields", n, 0)>>
                 \o (IF h THEN <<>> ELSE BodyUnits(m, n))]
    BY DEF Say, Hushed
  <2> HIDE DEF n, h
  <2> QED
    BY <2>1 DEF Said, BodySent
<1> HIDE DEF n, h
<1>10. /\ e \in Seq(UnitTo(n)) /\ \E r \in Seq(UnitTo(n)) : e = sent[s] \o r
       /\ BeginAt(e, Len(sent[s]) + 1, n, m, h)
  BY <1>2, <1>3, <1>4, SaidTyped
<1>11. e \in Seq(Unit)
  BY <1>2, <1>10, UnitsAre
<1>12. sent'[s] = e /\ sent'[Other(s)] = sent[Other(s)] /\ sent' \in [Side -> Seq(Unit)]
  <2> HIDE DEF e
  <2> QED
    BY <1>6, <1>9, <1>11, Sides
<1> HIDE DEF e
<1>13. /\ n \in Nat \ {0} /\ h \in BOOLEAN /\ handler = "idle"
       /\ said'[s] = Append(said[s], m) /\ Len(said'[s]) = n /\ said'[s][n] = m
       /\ \A i \in 1..Len(said[s]) : said'[s][i] = said[s][i]
       /\ said'[Other(s)] = said[Other(s)]
       /\ sent'[s] = e
       /\ sent'[Other(s)] = sent[Other(s)]
       /\ sent[s] \in Seq(UnitTo(n))
       /\ sent'[s] \in Seq(UnitTo(n))
       /\ \E r \in Seq(UnitTo(n)) : sent'[s] = sent[s] \o r
       /\ BeginAt(sent'[s], Len(sent[s]) + 1, n, m, h)
       /\ sent' \in [Side -> Seq(Unit)]
  BY <1>2, <1>3, <1>4, <1>5, <1>7, <1>8, <1>10, <1>12
<1> QED
  BY <1>13 DEF n, h, e

\* What each action leaves alone.
LEMMA SayKeeps ==
    ASSUME NEW s, NEW m, Say(s, m)
    PROVE  /\ parsed' = parsed /\ parser' = parser /\ slot' = slot /\ client' = client
           /\ out' = out /\ delivered' = delivered /\ heard' = heard /\ handler' = handler
           /\ todo' = todo /\ handler = "idle"
  BY DEF Say, outVars, takenVars

\* What the peer of s may say.
Sayable(s, m) == IF s = "up" THEN m \in Requests ELSE m \in Responses

LEMMA TypeSay ==
    ASSUME TypeInv, NEW s \in Side, NEW m \in Message, Sayable(s, m), Say(s, m)
    PROVE  TypeInv'
<1> DEFINE n == Len(said[s]) + 1
<1>1. /\ Len(said[s]) \in Nat /\ said'[s] = Append(said[s], m) /\ Len(said'[s]) = Len(said[s]) + 1
      /\ said'[Other(s)] = said[Other(s)] /\ sent'[Other(s)] = sent[Other(s)]
      /\ sent'[s] \in Seq(UnitTo(Len(said[s]) + 1)) /\ sent' \in [Side -> Seq(Unit)]
      /\ \E r \in Seq(UnitTo(Len(said[s]) + 1)) : sent'[s] = sent[s] \o r
      /\ sent[s] \in Seq(UnitTo(Len(said[s]) + 1))
  BY SayIs, Typed
<1>2. /\ parsed' = parsed /\ parser' = parser /\ slot' = slot /\ client' = client
      /\ out' = out /\ delivered' = delivered /\ heard' = heard /\ handler' = handler
      /\ todo' = todo
  BY SayKeeps
<1>3. TypeOK /\ \A t \in Side : SideTyped(t)
  BY DEF TypeInv
<1>4. Len(sent[s]) <= Len(sent'[s])
  <2>1. PICK r \in Seq(UnitTo(n)) : sent'[s] = sent[s] \o r
    BY <1>1
  <2>2. Len(sent[s] \o r) = Len(sent[s]) + Len(r)
    BY <1>1, Joined
  <2>3. Len(sent[s]) \in Nat /\ Len(r) \in Nat
    BY <1>1
  <2> QED
    BY <2>1, <2>2, <2>3
<1>5. TypeOK'
  <2>1. /\ said' \in [Side -> Seq(Requests \cup Responses)]
        /\ said'["up"] \in Seq(Requests) /\ said'["down"] \in Seq(Responses)
    <3>1. /\ said \in [Side -> Seq(Requests \cup Responses)]
          /\ said["up"] \in Seq(Requests) /\ said["down"] \in Seq(Responses)
      BY <1>3 DEF TypeOK
    <3>2. said' = [said EXCEPT ![s] = Append(said[s], m)]
      BY DEF Say
    <3>3. CASE s = "up"
      <4>1. m \in Requests
        BY <3>3 DEF Sayable
      <4>2. Append(said["up"], m) \in Seq(Requests) /\ Append(said["up"], m) \in Seq(Requests \cup Responses)
        BY <3>1, <4>1, Sides
      <4> QED
        BY <3>1, <3>2, <3>3, <4>2, Sides
    <3>4. CASE s = "down"
      <4>1. m \in Responses
        BY <3>4 DEF Sayable
      <4>2. Append(said["down"], m) \in Seq(Responses) /\ Append(said["down"], m) \in Seq(Requests \cup Responses)
        BY <3>1, <4>1, Sides
      <4> QED
        BY <3>1, <3>2, <3>4, <4>2, Sides
    <3> QED
      BY <3>3, <3>4, Sides
  <2>2. \A t \in Side : parsed'[t] <= Len(sent'[t])
    <3>1. SUFFICES ASSUME NEW t \in Side PROVE parsed[t] <= Len(sent'[t])
      BY <1>2
    <3>2. parsed[t] <= Len(sent[t]) /\ parsed[t] \in Nat /\ Len(sent[t]) \in Nat
      BY Typed
    <3>3. CASE t = s
      <4>1. Len(sent'[s]) \in Nat
        BY <1>1
      <4> QED
        BY <1>4, <3>2, <3>3, <4>1
    <3>4. CASE t = Other(s)
      BY <1>1, <3>2, <3>4
    <3> QED
      BY <3>3, <3>4, Sides
  <2>3. /\ parsed' \in [Side -> Nat] /\ parser' \in [Side -> Parser]
        /\ slot' \in [Side -> Stored \cup {NoMessage}]
        /\ client' \in {"none", "connecting", "connected"} /\ out' \in [Side -> Seq(Unit)]
        /\ delivered' \in [Side -> Nat]
        /\ heard' \in [Side -> [parser : Parser, slot : Stored \cup {NoMessage}, got : Seq(Stored)]]
        /\ handler' \in Side \cup {"idle", "closed", "crashed"} /\ todo' \in Nat
    BY <1>2, <1>3 DEF TypeOK
  <2> QED
    BY <1>1, <2>1, <2>2, <2>3 DEF TypeOK
<1>6. ASSUME NEW t \in Side PROVE SideTyped(t)'
  <2>1. PartTyped(Len(said[t]), sent[t], out[Other(t)], slot[t], parser[t], heard[t], delivered[t],
                  Len(out[t]))
    BY <1>3, PartIs
  <2>2. PartTyped(Len(said'[t]), sent'[t], out[Other(t)], slot[t], parser[t], heard[t], delivered[t],
                  Len(out[t]))
    <3>1. CASE t = s
      <4> DEFINE k == Len(said[s])
                 c == sent'[s]
      <4>1. /\ k \in Nat /\ c \in Seq(UnitTo(k + 1))
            /\ PartTyped(k, sent[s], out[Other(s)], slot[s], parser[s], heard[s], delivered[s],
                         Len(out[s]))
        BY <1>1, <2>1, <3>1
      <4> HIDE DEF k, c
      <4>2. PartTyped(k + 1, c, out[Other(s)], slot[s], parser[s], heard[s], delivered[s],
                      Len(out[s]))
        BY <4>1, PartLater
      <4>3. Len(said'[s]) = k + 1
        BY <1>1 DEF k
      <4> QED
        BY <3>1, <4>2, <4>3 DEF c
    <3>2. CASE t = Other(s)
      BY <1>1, <2>1, <3>2
    <3> QED
      BY <3>1, <3>2, Sides
  <2>3. PartTyped(Len(said'[t]), sent'[t], out'[Other(t)], slot'[t], parser'[t], heard'[t], delivered'[t],
                  Len(out'[t]))
    BY <1>2, <2>2
  <2> QED
    BY <2>3 DEF SideTyped, PartTyped, UnitTo, StoredTo, Live
<1>7. Within'
  <2>1. handler' = "idle" /\ "idle" \notin Side
    BY SayKeeps DEF Side
  <2> QED
    BY <2>1 DEF Within
<1> QED
  BY <1>5, <1>6, <1>7 DEF TypeInv

(***************************************************************************)
(* The steps of the proxy.                                                 *)
(***************************************************************************)
LEMMA TypeReadCb ==
    ASSUME TypeInv, NEW s \in Side, ReadCb(s)
    PROVE  TypeInv'
<1>1. /\ said' = said /\ sent' = sent /\ parsed' = parsed /\ parser' = parser /\ slot' = slot
      /\ client' = client /\ out' = out /\ delivered' = delivered /\ heard' = heard
      /\ handler' = s
  BY DEF ReadCb, peerVars, outVars, takenVars
<1>2. todo' \in Nat
  BY DEF ReadCb
<1>3. TypeOK /\ \A t \in Side : SideTyped(t)
  BY DEF TypeInv
<1>4. TypeOK'
  BY <1>1, <1>2, <1>3 DEF TypeOK
<1>5. \A t \in Side : SideTyped(t)'
  BY <1>1, <1>3 DEF SideTyped, Live, UnitTo
<1>6. Within'
  <2>1. todo' <= Len(sent[s]) - parsed[s]
    BY <1>2 DEF ReadCb, Units
  <2>2. Len(sent[s]) \in Nat /\ parsed[s] \in Nat
    BY Typed
  <2>3. parsed[s] + todo' <= Len(sent[s])
    BY <1>2, <2>1, <2>2
  <2> QED
    BY <1>1, <2>3 DEF Within
<1> QED
  BY <1>4, <1>5, <1>6 DEF TypeInv

LEMMA TypeCloses ==
    ASSUME TypeInv, OriginCloses
    PROVE  TypeInv'
<1>1. /\ said' = said /\ sent' = sent /\ parsed' = parsed /\ parser' = parser /\ slot' = slot
      /\ client' = client /\ out' = out /\ delivered' = delivered /\ heard' = heard
      /\ handler' = "closed" /\ todo' = todo
  BY DEF OriginCloses, peerVars, outVars, takenVars
<1>2. TypeOK /\ \A t \in Side : SideTyped(t)
  BY DEF TypeInv
<1>3. TypeOK'
  BY <1>1, <1>2 DEF TypeOK
<1>4. \A t \in Side : SideTyped(t)'
  BY <1>1, <1>2 DEF SideTyped, Live, UnitTo
<1>5. Within'
  BY <1>1 DEF Within, Side
<1> QED
  BY <1>3, <1>4, <1>5 DEF TypeInv

\* The unit a callback parses next.
LEMMA NextUnit ==
    ASSUME TypeInv, NEW s \in Side, parsed[s] < Len(sent[s])
    PROVE  /\ Len(said[s]) \in Nat \ {0} /\ parsed[s] + 1 \in 1..Len(sent[s])
           /\ sent[s][parsed[s] + 1] \in UnitTo(Len(said[s]))
           /\ sent[s][parsed[s] + 1] \in Unit
<1>1. /\ Len(said[s]) \in Nat /\ sent[s] \in Seq(UnitTo(Len(said[s])))
      /\ Len(said[s]) = 0 => sent[s] = <<>>
      /\ parsed[s] \in Nat /\ Len(sent[s]) \in Nat
  BY Typed
<1>2. parsed[s] + 1 \in 1..Len(sent[s]) /\ Len(sent[s]) # 0
  BY <1>1
<1>3. Len(said[s]) # 0
  BY <1>1, <1>2
<1> DEFINE n == Len(said[s])
           q == sent[s]
           j == parsed[s] + 1
<1>4. q \in Seq(UnitTo(n)) /\ j \in 1..Len(q) /\ n \in Nat
  BY <1>1, <1>2
<1> HIDE DEF n, q, j
<1>5. q[j] \in UnitTo(n)
  BY <1>4
<1>6. q[j] \in Unit
  BY <1>4, <1>5, UnitsTyped
<1> QED
  BY <1>1, <1>2, <1>3, <1>5, <1>6 DEF n, q, j

\* What Parse does, with its local names.
Read(s) == Execute(parser[s], sent[s][parsed[s] + 1], MessageOf(s, sent[s][parsed[s] + 1]),
                   s = "up", FALSE)
Made(s) == Begun(slot[s], parser[s], Read(s))

LEMMA ParseIs ==
    ASSUME NEW s, Parse(s)
    PROVE  /\ handler = s /\ todo > 0 /\ parser[s].state # "error"
           /\ Made(s) = NoMessage =>
                /\ parser' = [parser EXCEPT ![s] =
                     IF Read(s).state \in Between /\ parser[s].state \in Between
                     THEN Read(s) ELSE To(Read(s), "error")]
                /\ slot' = slot
           /\ Made(s) # NoMessage =>
                /\ parser' = [parser EXCEPT ![s] = Read(s)]
                /\ slot' = [slot EXCEPT ![s] = Noted(Made(s), parser[s], sent[s][parsed[s] + 1], Read(s))]
           /\ parsed' = [parsed EXCEPT ![s] = parsed[s] + 1]
           /\ todo' = todo - 1
           /\ said' = said /\ sent' = sent /\ client' = client /\ out' = out
           /\ delivered' = delivered /\ heard' = heard /\ handler' = handler
  BY DEF Parse, Read, Made, peerVars, outVars, takenVars

LEMMA ReadTyped ==
    ASSUME TypeInv, NEW s \in Side, parsed[s] < Len(sent[s])
    PROVE  /\ Read(s) \in Parser /\ Live(Read(s))
           /\ Made(s) \in StoredTo(Len(said[s])) \cup {NoMessage}
<1> DEFINE n == Len(said[s])
           u == sent[s][parsed[s] + 1]
           m == MessageOf(s, u)
           isRequest == s = "up"
           skip == FALSE
<1>1. n \in Nat /\ n # 0 /\ u \in UnitTo(n) /\ u \in Unit
  BY NextUnit
<1>2. m \in Message
  BY <1>1, MessageTyped
<1>3. parser[s] \in Parser /\ Live(parser[s]) /\ slot[s] \in StoredTo(n) \cup {NoMessage}
  BY Typed
<1>4. isRequest \in BOOLEAN /\ skip \in BOOLEAN
  OBVIOUS
<1>5. Read(s) = Execute(parser[s], u, m, isRequest, skip)
  BY DEF Read
<1> HIDE DEF u, m, isRequest, skip, n
<1>6. Read(s) \in Parser /\ Live(Read(s))
  BY <1>1, <1>2, <1>3, <1>4, <1>5, ExecuteTyped
<1>7. Made(s) \in StoredTo(n) \cup {NoMessage}
  <2>1. StoredTo(n) = Of(UnitTo(n))
    BY OfAre
  <2> QED
    BY <1>3, <2>1, BegunTyped DEF Made
<1> QED
  BY <1>6, <1>7 DEF n

LEMMA TypeParse ==
    ASSUME TypeInv, NEW s \in Side, Parse(s)
    PROVE  TypeInv'
<1> DEFINE n == Len(said[s])
           u == sent[s][parsed[s] + 1]
           r == Read(s)
           x == Made(s)
<1>1. TypeOK /\ \A t \in Side : SideTyped(t)
  BY DEF TypeInv
<1>2. /\ said' = said /\ sent' = sent /\ client' = client /\ out' = out
      /\ delivered' = delivered /\ heard' = heard /\ handler' = handler /\ todo' = todo - 1 /\ todo > 0
      /\ parsed' = [parsed EXCEPT ![s] = parsed[s] + 1]
  BY ParseIs
<1>12. handler = s /\ parsed[s] + todo <= Len(sent[s]) /\ parsed[s] \in Nat /\ todo \in Nat
       /\ Len(sent[s]) \in Nat
  BY <1>1, ParseIs, Typed DEF TypeInv, Within, TypeOK
<1>13. parsed[s] < Len(sent[s])
  BY <1>2, <1>12
<1>3. r \in Parser /\ Live(r) /\ x \in StoredTo(n) \cup {NoMessage}
  BY <1>13, ReadTyped
<1>4. n \in Nat /\ n # 0 /\ u \in UnitTo(n)
  BY <1>13, NextUnit
<1>5. /\ \E a \in Parser : Live(a) /\ parser' = [parser EXCEPT ![s] = a]
      /\ \E b \in StoredTo(n) \cup {NoMessage} : slot' = [slot EXCEPT ![s] = b]
  <2>1. parser \in [Side -> Parser] /\ slot \in [Side -> Stored \cup {NoMessage}]
    BY <1>1 DEF TypeOK
  <2>2. CASE x = NoMessage
    <3>1. /\ parser' = [parser EXCEPT ![s] = IF r.state \in Between /\ parser[s].state \in Between
                                             THEN r ELSE To(r, "error")]
          /\ slot' = slot
      BY <2>2, ParseIs
    <3>2. To(r, "error") \in Parser /\ Live(To(r, "error"))
      <4>1. To(r, "error") \in Parser /\ To(r, "error").state = "error"
        BY <1>3, ToKnown
      <4> QED
        BY <4>1 DEF Live
    <3>3. slot' = [slot EXCEPT ![s] = slot[s]] /\ slot[s] \in StoredTo(n) \cup {NoMessage}
      BY <2>1, <3>1, Typed
    <3> HIDE DEF r
    <3> QED
      BY <1>3, <3>1, <3>2, <3>3
  <2>3. CASE x # NoMessage
    <3>1. /\ parser' = [parser EXCEPT ![s] = r]
          /\ slot' = [slot EXCEPT ![s] = Noted(x, parser[s], u, r)]
      BY <2>3, ParseIs
    <3>2. Noted(x, parser[s], u, r) \in StoredTo(n)
      <4>1. StoredTo(n) = Of(UnitTo(n))
        BY OfAre
      <4> HIDE DEF x, u, r
      <4>2. x \in Of(UnitTo(n))
        BY <1>3, <2>3, <4>1
      <4> QED
        BY <1>4, <4>1, <4>2, NotedTyped
    <3> HIDE DEF x, u, r
    <3> QED
      BY <1>3, <3>1, <3>2
  <2> QED
    BY <2>2, <2>3
<1>6. PICK a \in Parser : Live(a) /\ parser' = [parser EXCEPT ![s] = a]
  BY <1>5
<1>7. PICK b \in StoredTo(n) \cup {NoMessage} : slot' = [slot EXCEPT ![s] = b]
  BY <1>5
<1>8. b \in Stored \cup {NoMessage}
  <2>1. StoredTo(n) \subseteq Stored
    BY <1>4, StoredAre
  <2> QED
    BY <2>1
<1>9. TypeOK'
  <2>1. /\ parser' \in [Side -> Parser] /\ slot' \in [Side -> Stored \cup {NoMessage}]
    BY <1>1, <1>6, <1>7, <1>8 DEF TypeOK
  <2>2. parsed' \in [Side -> Nat] /\ \A t \in Side : parsed'[t] <= Len(sent'[t])
    <3>1. parsed \in [Side -> Nat] /\ \A t \in Side : parsed[t] <= Len(sent[t])
      BY <1>1 DEF TypeOK
    <3>2. parsed'[s] = parsed[s] + 1 /\ parsed[s] + 1 \in Nat /\ parsed[s] + 1 <= Len(sent[s])
      BY <1>2, <1>12, <1>13, <3>1
    <3> QED
      BY <1>2, <3>1, <3>2
  <2>3. todo' \in Nat
    BY <1>1, <1>2 DEF TypeOK
  <2> QED
    BY <1>1, <1>2, <2>1, <2>2, <2>3 DEF TypeOK
<1>10. ASSUME NEW t \in Side PROVE SideTyped(t)'
  <2>1. /\ parser \in [Side -> Parser] /\ slot \in [Side -> Stored \cup {NoMessage}]
    BY <1>1 DEF TypeOK
  <2>2. CASE t = s
    <3>1. parser'[t] = a /\ slot'[t] = b
      BY <1>6, <1>7, <2>1, <2>2
    <3>2. Len(said[t]) # 0 /\ SideTyped(t) /\ n = Len(said[t])
      BY <1>1, <1>4, <2>2
    <3> HIDE DEF n
    <3> QED
      BY <1>2, <1>6, <3>1, <3>2 DEF SideTyped, UnitTo, StoredTo, Live
  <2>3. CASE t # s
    <3>1. parser'[t] = parser[t] /\ slot'[t] = slot[t] /\ SideTyped(t)
      BY <1>1, <1>6, <1>7, <2>1, <2>3
    <3> QED
      BY <1>2, <3>1 DEF SideTyped, UnitTo, StoredTo, Live
  <2> QED
    BY <2>2, <2>3
<1>11. Within'
  <2>1. parsed'[s] = parsed[s] + 1
    BY <1>1, <1>2 DEF TypeOK
  <2>2. (parsed[s] + 1) + (todo - 1) <= Len(sent[s])
    BY <1>12
  <2> QED
    BY <1>2, <1>12, <2>1, <2>2 DEF Within
<1> QED
  BY <1>9, <1>10, <1>11 DEF TypeInv

\* DoFlush: what it writes, if anything.
LEMMA FlushIs ==
    ASSUME NEW s, NEW c, Flush(s, c)
    PROVE  \/ /\ slot[s].stat = "COMPLETE" /\ c = "connected"
              /\ out' = [out EXCEPT ![Other(s)] = out[Other(s)] \o Rendered(slot[s])]
              /\ slot' = [slot EXCEPT ![s] = NoMessage]
           \/ ~(slot[s].stat = "COMPLETE" /\ c = "connected") /\ out' = out /\ slot' = slot
  BY DEF Flush

\* A flush of session s by a callback after which the connection is in state c.
Flushes(s, c) ==
    /\ Flush(s, c) /\ client' \in {"none", "connecting", "connected"}
    /\ said' = said /\ sent' = sent /\ parsed' = parsed /\ parser' = parser
    /\ delivered' = delivered /\ heard' = heard
    /\ handler' \in {"idle", "crashed"} /\ todo' \in Nat

LEMMA ReadDoneIs ==
    ASSUME TypeInv, NEW s \in Side, ReadDone(s)
    PROVE  /\ handler = s /\ Flushes(s, client') /\ todo' = 0
           /\ todo = 0 \/ parser[s].state = "error"
           /\ handler' = IF s = "down" /\ slot[s] = NoMessage THEN "crashed" ELSE "idle"
<1>1. /\ handler = s /\ Flush(s, client') /\ todo' = 0
      /\ todo = 0 \/ parser[s].state = "error"
      /\ handler' = IF s = "down" /\ slot[s] = NoMessage THEN "crashed" ELSE "idle"
      /\ said' = said /\ sent' = sent /\ parsed' = parsed /\ parser' = parser
      /\ delivered' = delivered /\ heard' = heard
  BY DEF ReadDone, peerVars, takenVars
<1>2. client' \in {"none", "connecting", "connected"}
  <2>1. client \in {"none", "connecting", "connected"}
    BY DEF TypeInv, TypeOK
  <2> QED
    BY <2>1 DEF ReadDone
<1>3. todo' \in Nat
  BY <1>1
<1> QED
  BY <1>1, <1>2, <1>3 DEF Flushes

LEMMA ConnectedIs ==
    ASSUME TypeInv, Connected
    PROVE  handler = "idle" /\ handler' = "idle" /\ Flushes("up", "connected") /\ todo' = todo
<1>1. /\ handler = "idle" /\ Flush("up", "connected") /\ client' = "connected" /\ todo' = todo
      /\ handler' = handler
      /\ said' = said /\ sent' = sent /\ parsed' = parsed /\ parser' = parser
      /\ delivered' = delivered /\ heard' = heard
  BY DEF Connected, peerVars, takenVars
<1>2. todo \in Nat
  BY DEF TypeInv, TypeOK
<1> QED
  BY <1>1, <1>2 DEF Flushes

LEMMA TypeFlushes ==
    ASSUME TypeInv, NEW s \in Side, NEW c, Flushes(s, c)
    PROVE  TypeInv'
<1> DEFINE n == Len(said[s])
           t == Other(s)
<1>1. TypeOK /\ \A a \in Side : SideTyped(a)
  BY DEF TypeInv
<1>2. /\ Flush(s, c) /\ client' \in {"none", "connecting", "connected"}
      /\ said' = said /\ sent' = sent /\ parsed' = parsed /\ parser' = parser
      /\ delivered' = delivered /\ heard' = heard
      /\ handler' \in {"idle", "crashed"} /\ todo' \in Nat
  BY DEF Flushes
<1>3. Within'
  BY <1>2 DEF Within, Side
<1>4. CASE out' = out /\ slot' = slot
  <2>1. TypeOK'
    BY <1>1, <1>2, <1>4 DEF TypeOK
  <2>2. \A a \in Side : SideTyped(a)'
    BY <1>1, <1>2, <1>4 DEF SideTyped, Live, UnitTo
  <2> QED
    BY <1>3, <2>1, <2>2 DEF TypeInv
<1>5. CASE /\ slot[s].stat = "COMPLETE"
           /\ out' = [out EXCEPT ![t] = out[t] \o Rendered(slot[s])]
           /\ slot' = [slot EXCEPT ![s] = NoMessage]
  <2>1. slot[s] \in StoredTo(n) /\ n \in Nat /\ n # 0 /\ out[t] \in Seq(UnitTo(n))
    <3>1. slot[s] # NoMessage
      BY <1>5 DEF NoMessage
    <3> QED
      BY <3>1, Typed
  <2> DEFINE e == Rendered(slot[s])
             o == out[t]
  <2>2. e \in Seq(UnitTo(n))
    <3>1. LineEnd \in UnitTo(n) /\ StoredTo(n) = Of(UnitTo(n))
      BY <2>1, UnitsTyped, OfAre
    <3> QED
      BY <2>1, <3>1, RenderedTyped
  <2> HIDE DEF e, n
  <2>3. o \o e \in Seq(UnitTo(n)) /\ Len(o \o e) = Len(o) + Len(e)
    <3>1. o \in Seq(UnitTo(n))
      BY <2>1
    <3> QED
      BY <2>2, <3>1, Joined
  <2>4. o \o e \in Seq(Unit) /\ Len(o) <= Len(o \o e) /\ Len(o \o e) \in Nat
    <3>1. Len(o) \in Nat /\ Len(e) \in Nat
      BY <2>1, <2>2
    <3> QED
      BY <2>1, <2>3, <3>1, UnitsAre
  <2>5. /\ out'[t] = o \o e /\ out'[s] = out[s] /\ slot'[s] = NoMessage /\ slot'[t] = slot[t]
        /\ out' \in [Side -> Seq(Unit)] /\ slot' \in [Side -> Stored \cup {NoMessage}]
    <3>1. out \in [Side -> Seq(Unit)] /\ slot \in [Side -> Stored \cup {NoMessage}]
      BY <1>1 DEF TypeOK
    <3>2. out' = [out EXCEPT ![t] = o \o e]
      BY <1>5 DEF e
    <3>3. t \in Side /\ t # s
      BY Sides
    <3> DEFINE w == o \o e
    <3>4. out' = [out EXCEPT ![t] = w] /\ w \in Seq(Unit)
      BY <2>4, <3>2
    <3> HIDE DEF w, t
    <3>5. out'[t] = w /\ out'[s] = out[s] /\ out' \in [Side -> Seq(Unit)]
      BY <3>1, <3>3, <3>4
    <3>6. /\ slot'[s] = NoMessage /\ slot'[t] = slot[t]
          /\ slot' \in [Side -> Stored \cup {NoMessage}]
      BY <1>5, <3>1, <3>3
    <3> QED
      BY <3>5, <3>6 DEF w
  <2>6. TypeOK'
    BY <1>1, <1>2, <2>5 DEF TypeOK
  <2>7. ASSUME NEW a \in Side PROVE SideTyped(a)'
    <3>1. PartTyped(Len(said[a]), sent[a], out[Other(a)], slot[a], parser[a], heard[a], delivered[a],
                    Len(out[a]))
      BY <1>1, PartIs
    <3>2. PartTyped(Len(said[a]), sent[a], out'[Other(a)], slot'[a], parser[a], heard[a], delivered[a],
                    Len(out'[a]))
      <4>1. CASE a = s
        BY <2>1, <2>3, <2>5, <3>1, <4>1 DEF PartTyped, n
      <4>2. CASE a = t
        <5>1. out'[Other(a)] = out[Other(a)] /\ slot'[a] = slot[a] /\ Len(out[a]) <= Len(out'[a])
              /\ Len(out'[a]) \in Nat
          BY <2>4, <2>5, <4>2, Sides
        <5>2. delivered[a] \in Nat /\ Len(out[a]) \in Nat
          BY Typed
        <5> HIDE DEF t, o, e
        <5> QED
          BY <3>1, <5>1, <5>2 DEF PartTyped
      <4> QED
        BY <4>1, <4>2, Sides
    <3> QED
      BY <1>2, <3>2 DEF SideTyped, PartTyped, UnitTo, StoredTo, Live
  <2> QED
    BY <1>3, <2>6, <2>7 DEF TypeInv
<1> QED
  BY <1>2, <1>4, <1>5, FlushIs

(***************************************************************************)
(* The far peer hears a unit.                                              *)
(***************************************************************************)
HeardType == [parser : Parser, slot : Stored \cup {NoMessage}, got : Seq(Stored)]

\* What Hear computes, with its local names.
Skips(s, u) == s = "up" /\ u.of \in DOMAIN said["down"] /\ Silent("down", u.of)
HeardParser(s, h, u) == Execute(h.parser, u, MessageOf(Other(s), u), s = "down", Skips(s, u))
HeardSlot(s, h, u) ==
    LET x == Begun(h.slot, h.parser, HeardParser(s, h, u))
    IN  IF x = NoMessage THEN x ELSE Noted(x, h.parser, u, HeardParser(s, h, u))

LEMMA HearIs ==
    \A s, h, u :
       /\ Hear(s, h, u).parser = HeardParser(s, h, u)
       /\ HeardSlot(s, h, u).stat = "COMPLETE" =>
            /\ Hear(s, h, u) = [parser |-> HeardParser(s, h, u), slot |-> NoMessage,
                                got |-> Append(h.got, HeardSlot(s, h, u))]
       /\ HeardSlot(s, h, u).stat # "COMPLETE" =>
            /\ Hear(s, h, u) = [parser |-> HeardParser(s, h, u), slot |-> HeardSlot(s, h, u),
                                got |-> h.got]
  BY DEF Hear, HeardParser, HeardSlot, Skips

LEMMA SkipsTyped ==
    /\ \A s, u : Skips(s, u) \in BOOLEAN
    /\ \A s, n : Silent(s, n) \in BOOLEAN
<1>1. \A s, u : Skips(s, u) \in BOOLEAN
  BY Zenon DEF Skips
<1>2. \A s, n : Silent(s, n) \in BOOLEAN
  BY Zenon DEF Silent
<1> QED
  BY <1>1, <1>2

LEMMA HearTyped ==
    ASSUME TypeInv, NEW s \in Side, NEW u \in UnitTo(Len(said[Other(s)])), Len(said[Other(s)]) # 0,
           NEW h \in HeardType, Live(h.parser)
    PROVE  Hear(s, h, u) \in HeardType /\ Live(Hear(s, h, u).parser)
<1> DEFINE t == Other(s)
           m == MessageOf(t, u)
           isRequest == s = "down"
           skip == Skips(s, u)
           q == HeardParser(s, h, u)
           x == Begun(h.slot, h.parser, q)
           y == HeardSlot(s, h, u)
<1>1. t \in Side /\ m \in Message /\ u \in Unit
  <2>1. t \in Side
    BY Sides
  <2>2. Len(said[t]) \in Nat
    BY <2>1, Typed
  <2> QED
    BY <2>1, <2>2, MessageTyped, UnitsTyped
<1>2. isRequest \in BOOLEAN /\ skip \in BOOLEAN
  BY SkipsTyped
<1>3. h.parser \in Parser /\ h.slot \in Stored \cup {NoMessage} /\ h.got \in Seq(Stored)
  BY DEF HeardType
<1>4. q = Execute(h.parser, u, m, isRequest, skip)
  BY DEF HeardParser
<1> HIDE DEF m, isRequest, skip, q
<1>5. q \in Parser /\ Live(q)
  BY <1>1, <1>2, <1>3, <1>4, ExecuteTyped
<1>6. Stored = Of(Unit)
  BY OfAre
<1>7. x \in Stored \cup {NoMessage}
  BY <1>3, <1>6, BegunTyped
<1>8. y \in Stored \cup {NoMessage}
  <2>1. y = IF x = NoMessage THEN x ELSE Noted(x, h.parser, u, q)
    BY DEF HeardSlot, q
  <2> HIDE DEF x, y
  <2>2. CASE x = NoMessage
    BY <2>1, <2>2
  <2>3. CASE x # NoMessage
    <3>1. x \in Of(Unit)
      BY <1>6, <1>7, <2>3
    <3>2. Noted(x, h.parser, u, q) \in Of(Unit)
      BY <1>1, <3>1, NotedTyped
    <3> QED
      BY <1>6, <2>1, <2>3, <3>2
  <2> QED
    BY <2>2, <2>3
<1>9. y.stat = "COMPLETE" => y \in Stored
  <2> HIDE DEF y
  <2> QED
    BY <1>8 DEF NoMessage
<1>10. NoMessage \in Stored \cup {NoMessage}
  OBVIOUS
<1> HIDE DEF y
<1>11. CASE y.stat = "COMPLETE"
  <2>1. Hear(s, h, u) = [parser |-> q, slot |-> NoMessage, got |-> Append(h.got, y)]
    BY <1>11, HearIs DEF q, y
  <2>2. Append(h.got, y) \in Seq(Stored)
    BY <1>3, <1>9, <1>11
  <2> QED
    BY <1>5, <1>10, <2>1, <2>2 DEF HeardType
<1>12. CASE y.stat # "COMPLETE"
  <2>1. Hear(s, h, u) = [parser |-> q, slot |-> y, got |-> h.got]
    BY <1>12, HearIs DEF q, y
  <2> QED
    BY <1>3, <1>5, <1>8, <2>1 DEF HeardType
<1> QED
  BY <1>11, <1>12

LEMMA DeliverIs ==
    ASSUME TypeInv, NEW s \in Side, Deliver(s)
    PROVE  /\ handler = "idle" /\ delivered[s] < Len(out[s])
           /\ delivered'[s] = delivered[s] + 1 /\ delivered'[Other(s)] = delivered[Other(s)]
           /\ heard'[s] = Hear(s, heard[s], out[s][delivered[s] + 1])
           /\ heard'[Other(s)] = heard[Other(s)]
           /\ delivered' = [delivered EXCEPT ![s] = delivered[s] + 1]
           /\ heard' = [heard EXCEPT ![s] = Hear(s, heard[s], out[s][delivered[s] + 1])]
           /\ said' = said /\ sent' = sent /\ parsed' = parsed /\ parser' = parser
           /\ slot' = slot /\ client' = client /\ out' = out /\ handler' = handler /\ todo' = todo
<1>1. delivered \in [Side -> Nat] /\ heard \in [Side -> HeardType]
  BY DEF TypeInv, TypeOK, HeardType
<1>2. /\ handler = "idle" /\ delivered[s] < Len(out[s])
      /\ delivered' = [delivered EXCEPT ![s] = delivered[s] + 1]
      /\ heard' = [heard EXCEPT ![s] = Hear(s, heard[s], out[s][delivered'[s]])]
      /\ said' = said /\ sent' = sent /\ parsed' = parsed /\ parser' = parser
      /\ slot' = slot /\ client' = client /\ out' = out /\ handler' = handler /\ todo' = todo
  BY DEF Deliver, peerVars
<1>3. delivered'[s] = delivered[s] + 1
  BY <1>1, <1>2
<1> QED
  BY <1>1, <1>2, <1>3, Sides

LEMMA TypeDeliver ==
    ASSUME TypeInv, NEW s \in Side, Deliver(s)
    PROVE  TypeInv'
<1> DEFINE u == out[s][delivered[s] + 1]
           v == Hear(s, heard[s], u)
           n == Len(said[Other(s)])
<1>1. TypeOK /\ \A a \in Side : SideTyped(a)
  BY DEF TypeInv
<1>2. /\ handler = "idle" /\ delivered[s] < Len(out[s])
      /\ delivered'[s] = delivered[s] + 1 /\ delivered'[Other(s)] = delivered[Other(s)]
      /\ heard'[s] = v
      /\ heard'[Other(s)] = heard[Other(s)]
      /\ delivered' = [delivered EXCEPT ![s] = delivered[s] + 1]
      /\ heard' = [heard EXCEPT ![s] = v]
      /\ said' = said /\ sent' = sent /\ parsed' = parsed /\ parser' = parser
      /\ slot' = slot /\ client' = client /\ out' = out /\ handler' = handler /\ todo' = todo
  BY DeliverIs
<1>3. delivered[s] \in Nat /\ Len(out[s]) \in Nat /\ delivered[s] + 1 \in 1..Len(out[s]) /\ Len(out[s]) # 0
  BY <1>2, Typed
<1>4. n \in Nat /\ out[s] \in Seq(UnitTo(n)) /\ n # 0
  <2>1. Other(s) \in Side /\ Other(Other(s)) = s
    BY Sides
  <2>2. n \in Nat /\ out[Other(Other(s))] \in Seq(UnitTo(n)) /\ (n = 0 => out[Other(Other(s))] = <<>>)
    BY <2>1, Typed
  <2> QED
    BY <1>3, <2>1, <2>2
<1>5. u \in UnitTo(n)
  BY <1>3, <1>4
<1>6. heard[s] \in HeardType /\ Live(heard[s].parser)
  <2>1. heard[s] \in HeardType
    BY <1>1 DEF TypeOK, HeardType
  <2> QED
    BY <2>1, Typed
<1> HIDE DEF u
<1>7. v \in HeardType /\ Live(v.parser)
  BY <1>4, <1>5, <1>6, HearTyped
<1> HIDE DEF v, n
<1>8. TypeOK'
  <2>1. delivered' \in [Side -> Nat] /\ heard' \in [Side -> HeardType]
    <3>1. delivered \in [Side -> Nat] /\ heard \in [Side -> HeardType]
      BY <1>1 DEF TypeOK, HeardType
    <3> QED
      BY <1>2, <1>3, <1>7, <3>1
  <2> QED
    BY <1>1, <1>2, <2>1 DEF TypeOK, HeardType
<1>9. ASSUME NEW a \in Side PROVE SideTyped(a)'
  <2>1. PartTyped(Len(said[a]), sent[a], out[Other(a)], slot[a], parser[a], heard[a], delivered[a],
                  Len(out[a]))
    BY <1>1, PartIs
  <2>2. Live(heard'[a].parser) /\ delivered'[a] <= Len(out[a])
    <3>1. CASE a = s
      BY <1>2, <1>3, <1>7, <3>1
    <3>2. CASE a = Other(s)
      BY <1>2, <2>1, <3>2 DEF PartTyped
    <3> QED
      BY <3>1, <3>2, Sides
  <2>3. PartTyped(Len(said[a]), sent[a], out[Other(a)], slot[a], parser[a], heard'[a], delivered'[a],
                  Len(out[a]))
    BY <2>1, <2>2 DEF PartTyped
  <2> QED
    BY <1>2, <2>3 DEF SideTyped, PartTyped, UnitTo, StoredTo, Live
<1>10. Within'
  BY <1>2 DEF Within, Side
<1> QED
  BY <1>8, <1>9, <1>10 DEF TypeInv

LEMMA TypeInit == Init => TypeInv
<1> SUFFICES ASSUME Init PROVE TypeInv
  OBVIOUS
<1>1. Fresh \in Parser /\ Live(Fresh)
  BY StateNames DEF Fresh, Parser, Live
<1>2. Deaf \in HeardType /\ Deaf.parser = Fresh
  BY <1>1 DEF Deaf, HeardType
<1>3. TypeOK
  <2>1. /\ said \in [Side -> Seq(Requests \cup Responses)]
        /\ said["up"] \in Seq(Requests) /\ said["down"] \in Seq(Responses)
    BY Sides DEF Init
  <2>2. sent \in [Side -> Seq(Unit)] /\ out \in [Side -> Seq(Unit)]
    BY DEF Init
  <2>3. parsed \in [Side -> Nat] /\ delivered \in [Side -> Nat] /\ \A s \in Side : parsed[s] <= Len(sent[s])
    BY DEF Init
  <2>4. parser \in [Side -> Parser] /\ slot \in [Side -> Stored \cup {NoMessage}]
        /\ heard \in [Side -> HeardType]
    BY <1>1, <1>2 DEF Init
  <2>5. client = "none" /\ handler = "idle" /\ todo = 0
    BY DEF Init
  <2> QED
    BY <2>1, <2>2, <2>3, <2>4, <2>5 DEF TypeOK, HeardType
<1>4. ASSUME NEW s \in Side PROVE SideTyped(s)
  <2>1. /\ said[s] = <<>> /\ sent[s] = <<>> /\ out[Other(s)] = <<>> /\ slot[s] = NoMessage
        /\ parser[s] = Fresh /\ heard[s] = Deaf /\ delivered[s] = 0 /\ out[s] = <<>>
    BY Sides DEF Init
  <2>2. <<>> \in Seq(UnitTo(Len(said[s]))) /\ delivered[s] <= Len(out[s])
    BY <2>1
  <2> QED
    BY <1>1, <1>2, <2>1, <2>2 DEF SideTyped
<1>5. Within
  BY DEF Init, Within, Side
<1> QED
  BY <1>3, <1>4, <1>5 DEF TypeInv

\* Every step of the connection.
LEMMA Steps1 ==
    ASSUME [Next]_vars
    PROVE  \/ \E m \in Requests : Request /\ Say("up", m)
           \/ \E m \in Responses : Respond /\ Say("down", m)
           \/ OriginCloses \/ Connected
           \/ \E s \in Side : ReadCb(s) \/ Parse(s) \/ ReadDone(s) \/ Deliver(s)
           \/ UNCHANGED vars
<1>1. Request => \E m \in Requests : Request /\ Say("up", m)
  BY DEF Request
<1>2. Respond => \E m \in Responses : Respond /\ Say("down", m)
  BY DEF Respond
<1> QED
  BY <1>1, <1>2 DEF Next, Callback

LEMMA TypeStep ==
    ASSUME TypeInv, [Next]_vars
    PROVE  TypeInv'
<1>1. CASE \E m \in Requests : Request /\ Say("up", m)
  <2>1. PICK m \in Requests : Say("up", m)
    BY <1>1
  <2>2. m \in Message /\ Sayable("up", m) /\ "up" \in Side
    BY MessagesAre, Sides DEF Sayable
  <2> QED
    BY <2>1, <2>2, TypeSay
<1>2. CASE \E m \in Responses : Respond /\ Say("down", m)
  <2>1. PICK m \in Responses : Say("down", m)
    BY <1>2
  <2>2. m \in Message /\ Sayable("down", m) /\ "down" \in Side
    BY MessagesAre, Sides DEF Sayable
  <2> QED
    BY <2>1, <2>2, TypeSay
<1>3. CASE Connected
  BY <1>3, ConnectedIs, TypeFlushes, Sides
<1>4. ASSUME NEW s \in Side, ReadDone(s) PROVE TypeInv'
  BY <1>4, ReadDoneIs, TypeFlushes
<1>5. CASE UNCHANGED vars
  <2>1. /\ said' = said /\ sent' = sent /\ parsed' = parsed /\ parser' = parser /\ slot' = slot
        /\ client' = client /\ out' = out /\ delivered' = delivered /\ heard' = heard
        /\ handler' = handler /\ todo' = todo
    BY <1>5 DEF vars
  <2>2. TypeOK /\ (\A t \in Side : SideTyped(t)) /\ Within
    BY DEF TypeInv
  <2>3. TypeOK'
    BY <2>1, <2>2 DEF TypeOK
  <2>4. \A t \in Side : SideTyped(t)'
    BY <2>1, <2>2 DEF SideTyped, Live, UnitTo
  <2>5. Within'
    BY <2>1, <2>2 DEF Within
  <2> QED
    BY <2>3, <2>4, <2>5 DEF TypeInv
<1> QED
  BY <1>1, <1>2, <1>3, <1>4, <1>5, Steps1, TypeReadCb, TypeParse, TypeCloses, TypeDeliver

\* The state of the connection is typed.
THEOREM TypeCorrect == Spec => []TypeOK
<1>1. Init => TypeInv
  BY TypeInit
<1>2. TypeInv /\ [Next]_vars => TypeInv'
  BY TypeStep
<1>3. TypeInv => TypeOK
  BY DEF TypeInv
<1> QED
  BY <1>1, <1>2, <1>3, PTL DEF Spec

(***************************************************************************)
(* What is known of one side, as an operator of its values.                *)
(***************************************************************************)
\* n is the number of the last message, m that message; q has been sent and k
\* of it parsed; o has been written to the other peer.
SidePart(n, m, quiet, q, k, p, x, o) ==
    /\ Count(o) + Holds(x) + Ahead(q, k + 1) = n
    /\ Rest(q, k + 1, p, n, m, quiet) /\ Shape(x, p, n, m, quiet)
    /\ Content(o) \o Content(Held(x)) = Content(SubSeq(q, 1, k))

SideKept(s) == Turn(s) /\ RestOf(s) /\ ShapeOf(s) /\ Balance(s)

LEMMA SideKeptIs ==
    ASSUME NEW s
    PROVE  SideKept(s) <=> SidePart(Len(said[s]), Latest(s), Quiet(s), sent[s], parsed[s], parser[s],
                                    slot[s], out[Other(s)])
  BY DEF SideKept, SidePart, Turn, Flushed, RestOf, ShapeOf, Balance

LEMMA SideKeptThen ==
    ASSUME NEW s, NEW m, NEW quiet, m = Latest(s)', quiet = Quiet(s)',
           SidePart(Len(said'[s]), m, quiet, sent'[s], parsed'[s], parser'[s],
                    slot'[s], out'[Other(s)])
    PROVE  SideKept(s)'
  BY DEF SideKept, SidePart, Turn, Flushed, RestOf, ShapeOf, Balance

\* Nothing of a side changes.
LEMMA SideStays ==
    ASSUME NEW s, SideKept(s), said'[s] = said[s], sent'[s] = sent[s], parsed'[s] = parsed[s],
           parser'[s] = parser[s], slot'[s] = slot[s], out'[Other(s)] = out[Other(s)],
           Quiet(s)' = Quiet(s)
    PROVE  SideKept(s)'
<1>1. SidePart(Len(said[s]), Latest(s), Quiet(s), sent[s], parsed[s], parser[s],
               slot[s], out[Other(s)])
  BY SideKeptIs
<1>2. Latest(s)' = Latest(s)
  BY DEF Latest
<1>3. SidePart(Len(said'[s]), Latest(s)', Quiet(s)', sent'[s], parsed'[s], parser'[s],
               slot'[s], out'[Other(s)])
  BY <1>1, <1>2
<1> QED
  BY <1>3, SideKeptThen

LEMMA HoldsTyped == \A x : Holds(x) \in {0, 1} /\ (Holds(x) = 0 <=> x = NoMessage)
  BY DEF Holds

LEMMA AheadTyped == \A q, j : Ahead(q, j) \in {0, 1}
  BY DEF Ahead

LEMMA Numbers ==
    ASSUME TypeInv, NEW s \in Side
    PROVE  /\ Flushed(s) \in Nat /\ Len(said[s]) \in Nat
           /\ Holds(slot[s]) \in {0, 1} /\ Ahead(sent[s], parsed[s] + 1) \in {0, 1}
           /\ Holds(slot[s]) = 0 <=> slot[s] = NoMessage
<1>1. Other(s) \in Side
  BY Sides
<1>2. out[Other(s)] \in Seq(Unit) /\ Len(said[s]) \in Nat
  BY <1>1, Typed
<1> QED
  BY <1>2, CountTyped, HoldsTyped, AheadTyped DEF Flushed

\* What is held and what is written of it: the turns of the two peers.
LEMMA Chain ==
    ASSUME TypeInv, Turns
    PROVE  /\ Flushed("down") <= Len(said["down"]) /\ Len(said["down"]) <= Flushed("up")
           /\ Flushed("up") <= Len(said["up"]) /\ Len(said["up"]) <= Flushed("down") + 1
           /\ \A s \in Side : Flushed(s) + 1 >= Len(said[s])
<1>1. /\ Turn("up") /\ Turn("down")
      /\ Len(said["down"]) <= Flushed("up") /\ Len(said["up"]) <= Flushed("down") + 1
  BY Sides DEF Turns
<1>2. /\ Flushed("up") \in Nat /\ Len(said["up"]) \in Nat
      /\ Holds(slot["up"]) \in {0, 1} /\ Ahead(sent["up"], parsed["up"] + 1) \in {0, 1}
  BY Numbers, Sides
<1>3. /\ Flushed("down") \in Nat /\ Len(said["down"]) \in Nat
      /\ Holds(slot["down"]) \in {0, 1} /\ Ahead(sent["down"], parsed["down"] + 1) \in {0, 1}
  BY Numbers, Sides
<1>4. /\ Flushed("up") + Holds(slot["up"]) + Ahead(sent["up"], parsed["up"] + 1) = Len(said["up"])
      /\ Flushed("down") + Holds(slot["down"]) + Ahead(sent["down"], parsed["down"] + 1)
           = Len(said["down"])
  BY <1>1 DEF Turn
<1>5. Flushed("down") <= Len(said["down"]) /\ Flushed("up") <= Len(said["up"])
  BY <1>2, <1>3, <1>4
<1>6. Flushed("up") + 1 >= Len(said["up"]) /\ Flushed("down") + 1 >= Len(said["down"])
  BY <1>1, <1>2, <1>3, <1>5
<1> QED
  BY <1>1, <1>5, <1>6, Sides

\* All that has been said is written: the session waits for the next message.
LEMMA Waiting ==
    ASSUME TypeInv, NEW s \in Side, SideKept(s), LastOf(s), Open(s), Flushed(s) = Len(said[s])
    PROVE  /\ slot[s] = NoMessage /\ parser[s].state = "start" /\ ~parser[s].last
           /\ parsed[s] = Len(sent[s])
<1>1. slot[s] = NoMessage /\ Ahead(sent[s], parsed[s] + 1) = 0
  <2>1. Flushed(s) + Holds(slot[s]) + Ahead(sent[s], parsed[s] + 1) = Len(said[s])
    BY DEF SideKept, Turn
  <2>2. /\ Flushed(s) \in Nat /\ Len(said[s]) \in Nat
        /\ Holds(slot[s]) \in {0, 1} /\ Ahead(sent[s], parsed[s] + 1) \in {0, 1}
        /\ Holds(slot[s]) = 0 <=> slot[s] = NoMessage
    BY Numbers
  <2> QED
    BY <2>1, <2>2
<1>2. RestOf(s) /\ ShapeOf(s)
  BY DEF SideKept
<1>3. parser[s].state \in Between
  <2>1. NoMessage.stat = "INIT"
    BY EmptyWith
  <2>2. parser[s].state # "fields" /\ parser[s].state # "error"
    <3>1. \A h : Headed(h).stat = "HEADER"
      BY DEF Headed
    <3> QED
      BY <1>1, <1>2, <2>1, <3>1 DEF ShapeOf, Shape
  <2>3. parser[s].state \notin BodyState \cup ChunkState
    BY <1>1, <1>2, <2>1 DEF ShapeOf, Shape
  <2>4. parser[s].state \in ParserState
    <3>1. parser[s] \in Parser
      BY Typed
    <3> QED
      BY <3>1 DEF Parser
  <2> QED
    BY <2>2, <2>3, <2>4, StateNames
<1>4. ~parser[s].last
  <2>1. parser[s].last => ~Open(s)
    BY DEF LastOf
  <2> QED
    BY <2>1
<1>5. parser[s].state = "start"
  <2>1. parser[s].state # "dead"
    BY <1>2, <1>4 DEF RestOf, Rest
  <2> QED
    BY <1>3, <2>1, StateNames
<1>6. parsed[s] = Len(sent[s])
  <2> DEFINE q == sent[s]
             j == parsed[s] + 1
  <2>1. Len(q) = j - 1 \/ BeginAt(q, j, Len(said[s]), Latest(s), Quiet(s))
    BY <1>2, <1>5 DEF RestOf, Rest
  <2>2. ASSUME BeginAt(q, j, Len(said[s]), Latest(s), Quiet(s)) PROVE FALSE
    <3>1. j <= Len(q) /\ q[j] = BeginOf(Len(said[s]))
      BY <2>2 DEF BeginAt
    <3>2. q[j].kind = "begin"
      BY <3>1 DEF BeginOf, Piece
    <3>3. Ahead(q, j) = 1
      BY <3>1, <3>2 DEF Ahead
    <3> QED
      BY <1>1, <3>3
  <2>3. Len(q) = j - 1 /\ parsed[s] \in Nat /\ Len(q) \in Nat
    BY <2>1, <2>2, Typed
  <2> QED
    BY <2>3
<1> QED
  BY <1>1, <1>4, <1>5, <1>6

\* A side that waits and is told another message.
LEMMA WaitingSays ==
    ASSUME NEW n \in Nat, NEW q \in Seq(UnitTo(n + 1)), NEW r \in Seq(UnitTo(n + 1)),
           NEW p, NEW o, NEW m, NEW m1, NEW quiet \in BOOLEAN, NEW quiet1 \in BOOLEAN
    PROVE  /\ SidePart(n, m, quiet, q, Len(q), p, NoMessage, o) /\ p.state = "start"
           /\ Count(o) = n
           /\ BeginAt(q \o r, Len(q) + 1, n + 1, m1, quiet1)
           => SidePart(n + 1, m1, quiet1, q \o r, Len(q), p, NoMessage, o)
<1>1. SUFFICES ASSUME SidePart(n, m, quiet, q, Len(q), p, NoMessage, o), p.state = "start",
                      Count(o) = n, BeginAt(q \o r, Len(q) + 1, n + 1, m1, quiet1)
               PROVE  SidePart(n + 1, m1, quiet1, q \o r, Len(q), p, NoMessage, o)
  OBVIOUS
<1>2. Ahead(q \o r, Len(q) + 1) = 1
  BY <1>1 DEF BeginAt, BeginOf, Piece, Ahead
<1>3. Count(o) + Holds(NoMessage) + Ahead(q \o r, Len(q) + 1) = n + 1
  BY <1>1, <1>2 DEF Holds
<1>4. Rest(q \o r, Len(q) + 1, p, n + 1, m1, quiet1)
  BY <1>1, RestBetween
<1>5. Shape(NoMessage, p, n + 1, m1, quiet1)
  BY <1>1, ShapeNone, StateNames
<1>6. SubSeq(q \o r, 1, Len(q)) = SubSeq(q, 1, Len(q))
  <2>1. Len(q) \in 0..Len(q)
    OBVIOUS
  <2> QED
    BY <2>1, PartOfConcat
<1> QED
  BY <1>1, <1>3, <1>4, <1>5, <1>6 DEF SidePart

\* A side that waits, whatever is made of its last message.
LEMMA WaitingStays ==
    ASSUME NEW n \in Nat, NEW X, NEW q \in Seq(X), NEW p, NEW o, NEW m,
           NEW quiet \in BOOLEAN, NEW quiet1 \in BOOLEAN
    PROVE  SidePart(n, m, quiet, q, Len(q), p, NoMessage, o) /\ p.state = "start"
           => SidePart(n, m, quiet1, q, Len(q), p, NoMessage, o)
<1>1. SUFFICES ASSUME SidePart(n, m, quiet, q, Len(q), p, NoMessage, o), p.state = "start"
               PROVE  SidePart(n, m, quiet1, q, Len(q), p, NoMessage, o)
  OBVIOUS
<1>2. Len(q) = (Len(q) + 1) - 1
  OBVIOUS
<1>3. Rest(q, Len(q) + 1, p, n, m, quiet1)
  BY <1>1, <1>2, RestBetween
<1>4. Shape(NoMessage, p, n, m, quiet1)
  BY <1>1, ShapeNone, StateNames
<1> QED
  BY <1>1, <1>3, <1>4 DEF SidePart

\* The rest of the invariant, apart from the sides one by one.
LEMMA WireIs ==
    WireInv <=> /\ \A s \in Side : SideKept(s) /\ LastOf(s) /\ Taken(s)
                /\ Len(said["down"]) <= Flushed("up")
                /\ Len(said["up"]) <= Flushed("down") + 1
                /\ Reading /\ handler # "crashed"
  BY DEF WireInv, Turns, SideKept

LEMMA WireThen ==
    ASSUME \A s \in Side : SideKept(s)' /\ LastOf(s)' /\ Taken(s)',
           (Len(said["down"]) <= Flushed("up"))', (Len(said["up"]) <= Flushed("down") + 1)',
           Reading', handler' # "crashed"
    PROVE  WireInv'
  BY DEF WireInv, Turns, SideKept

LEMMA KeptSay ==
    ASSUME TypeInv, NEW s \in Side, NEW m \in Message, Say(s, m), SideKept(s), LastOf(s), Open(s),
           Flushed(s) = Len(said[s])
    PROVE  SideKept(s)' /\ LastOf(s)'
<1> DEFINE n == Len(said[s])
           h == Hushed(s, n + 1, m)
<1>1. /\ slot[s] = NoMessage /\ parser[s].state = "start" /\ ~parser[s].last
      /\ parsed[s] = Len(sent[s])
  BY Waiting
<1>2. /\ n \in Nat /\ h \in BOOLEAN /\ Len(said'[s]) = n + 1 /\ said'[s][n + 1] = m
      /\ said'[Other(s)] = said[Other(s)]
      /\ sent[s] \in Seq(UnitTo(n + 1))
      /\ \E r \in Seq(UnitTo(n + 1)) : sent'[s] = sent[s] \o r
      /\ BeginAt(sent'[s], Len(sent[s]) + 1, n + 1, m, h)
  BY SayIs, Typed
<1>3. parsed' = parsed /\ parser' = parser /\ slot' = slot /\ out' = out
  BY SayKeeps
<1>4. Quiet(s)' = h
  <2>1. CASE s = "up"
    <3>1. h = FALSE
      BY <2>1 DEF Hushed
    <3>2. Silent("up", Len(said["up"]))' = FALSE
      BY DEF Silent
    <3> HIDE DEF h
    <3> QED
      BY <2>1, <3>1, <3>2 DEF Quiet
  <2>2. CASE s = "down"
    <3>1. said'["up"] = said["up"] /\ said'["down"][n + 1] = m /\ Len(said'["down"]) = n + 1
      BY <1>2, <2>2, Sides
    <3>2. Silent("down", Len(said["down"]))' = (said["up"][n + 1].bare \/ m.bare)
      <4>1. Silent("down", Len(said["down"]))'
              = (said'["up"][Len(said'["down"])].bare \/ said'["down"][Len(said'["down"])].bare)
        BY DEF Silent
      <4> HIDE DEF n
      <4> QED
        BY <3>1, <4>1
    <3>3. h = (said["up"][n + 1].bare \/ m.bare)
      BY <2>2 DEF Hushed
    <3> QED
      BY <2>2, <3>2, <3>3 DEF Quiet
  <2> QED
    BY <2>1, <2>2, Sides
<1>5. Latest(s)' = m
  BY <1>2 DEF Latest
<1>6. Quiet(s) \in BOOLEAN
  BY SkipsTyped DEF Quiet
<1>7. SidePart(n, Latest(s), Quiet(s), sent[s], Len(sent[s]), parser[s], NoMessage, out[Other(s)])
  BY <1>1, SideKeptIs
<1>8. Count(out[Other(s)]) = n
  BY DEF Flushed
<1> HIDE DEF n, h
<1>9. PICK r \in Seq(UnitTo(n + 1)) : sent'[s] = sent[s] \o r
  BY <1>2
<1> DEFINE q == sent[s]
           p == parser[s]
           o == out[Other(s)]
           m0 == Latest(s)
           k == Quiet(s)
<1>10. /\ SidePart(n, m0, k, q, Len(q), p, NoMessage, o) /\ p.state = "start"
       /\ Count(o) = n /\ BeginAt(q \o r, Len(q) + 1, n + 1, m, h)
       /\ q \in Seq(UnitTo(n + 1)) /\ k \in BOOLEAN
  BY <1>1, <1>2, <1>6, <1>7, <1>8, <1>9
<1> HIDE DEF q, p, o, m0, k
<1>11. SidePart(n + 1, m, h, q \o r, Len(q), p, NoMessage, o)
  BY <1>2, <1>10, WaitingSays
<1>12. SidePart(Len(said'[s]), m, h, sent'[s], parsed'[s], parser'[s], slot'[s], out'[Other(s)])
  BY <1>1, <1>2, <1>3, <1>9, <1>11 DEF q, p, o
<1>13. SideKept(s)'
  BY <1>4, <1>5, <1>12, SideKeptThen
<1>14. LastOf(s)'
  BY <1>1, <1>3, StateNames DEF LastOf
<1> QED
  BY <1>13, <1>14

LEMMA TakenBy ==
    ASSUME TypeInv, NEW s \in Side, Taken(s)
    PROVE  Len(heard[s].got) <= Flushed(Other(s))
<1>1. out[s] \in Seq(Unit) /\ delivered[s] \in 0..Len(out[s]) /\ heard[s].got \in Seq(Stored)
  BY Typed
<1>2. Len(heard[s].got) \in Nat /\ Holds(heard[s].slot) \in {0, 1}
  BY <1>1, HoldsTyped
<1>3. Len(heard[s].got) + Holds(heard[s].slot) <= Count(SubSeq(out[s], 1, delivered[s]))
  BY DEF Taken
<1>4. Count(SubSeq(out[s], 1, delivered[s])) <= Count(out[s])
  BY <1>1, CountPart
<1>5. Count(out[s]) \in Nat /\ Count(SubSeq(out[s], 1, delivered[s])) \in Nat
  <2>1. SubSeq(out[s], 1, delivered[s]) \in Seq(Unit)
    BY <1>1, Halves
  <2> QED
    BY <1>1, <2>1, CountTyped
<1>6. Flushed(Other(s)) = Count(out[s])
  BY Sides DEF Flushed
<1> DEFINE a == Count(SubSeq(out[s], 1, delivered[s]))
           b == Count(out[s])
           c == Len(heard[s].got)
           d == Holds(heard[s].slot)
<1>7. a \in Nat /\ b \in Nat /\ c \in Nat /\ d \in {0, 1} /\ c + d <= a /\ a <= b
  BY <1>2, <1>3, <1>4, <1>5
<1> HIDE DEF a, b, c, d
<1>8. c <= b
  BY <1>7
<1> QED
  BY <1>6, <1>8 DEF b, c

LEMMA TakenStays ==
    ASSUME NEW s, Taken(s), heard' = heard, out' = out, delivered' = delivered
    PROVE  Taken(s)'
  BY DEF Taken

LEMMA WireRequest ==
    ASSUME TypeInv, WireInv, NEW m \in Requests, Request, Say("up", m)
    PROVE  WireInv'
<1>1. /\ \A s \in Side : SideKept(s) /\ LastOf(s) /\ Taken(s)
      /\ Turns
  BY WireIs DEF WireInv
<1>2. m \in Message /\ "up" \in Side /\ "down" \in Side /\ Other("up") = "down" /\ Other("down") = "up"
  BY MessagesAre, Sides
<1>3. Open("up") /\ Open("down") /\ Len(heard["up"].got) = Len(said["up"])
  BY DEF Request
<1>4. /\ Flushed("up") = Len(said["up"]) /\ Flushed("down") = Len(said["down"])
      /\ Len(said["up"]) = Len(said["down"])
  <2>1. Len(heard["up"].got) <= Flushed("down")
    BY <1>1, <1>2, TakenBy
  <2>2. /\ Flushed("down") <= Len(said["down"]) /\ Len(said["down"]) <= Flushed("up")
        /\ Flushed("up") <= Len(said["up"])
    BY <1>1, Chain
  <2>3. /\ Flushed("up") \in Nat /\ Len(said["up"]) \in Nat
        /\ Flushed("down") \in Nat /\ Len(said["down"]) \in Nat
    BY <1>2, Numbers
  <2> QED
    BY <1>3, <2>1, <2>2, <2>3
<1>5. SideKept("up")' /\ LastOf("up")'
  BY <1>1, <1>2, <1>3, <1>4, KeptSay
<1>6. /\ slot["down"] = NoMessage /\ parser["down"].state = "start" /\ ~parser["down"].last
      /\ parsed["down"] = Len(sent["down"])
  BY <1>1, <1>2, <1>3, <1>4, Waiting
<1>7. /\ parsed' = parsed /\ parser' = parser /\ slot' = slot /\ out' = out /\ heard' = heard
      /\ delivered' = delivered /\ handler' = "idle"
  BY SayKeeps
<1>8. /\ Len(said["up"]) \in Nat /\ Len(said'["up"]) = Len(said["up"]) + 1
      /\ said'["down"] = said["down"] /\ sent'["down"] = sent["down"]
  BY <1>2, SayIs, Typed
<1>9. SideKept("down")'
  <2> DEFINE q == sent["down"]
             p == parser["down"]
             o == out["up"]
             n == Len(said["down"])
             k == Quiet("down")
             l == Quiet("down")'
             v == Latest("down")
  <2>1. Latest("down")' = v
    BY <1>8 DEF Latest
  <2>2. k \in BOOLEAN /\ l \in BOOLEAN
    BY DEF Quiet, Silent
  <2>3. SidePart(n, v, k, q, Len(q), p, NoMessage, o) /\ p.state = "start"
    BY <1>1, <1>2, <1>6, SideKeptIs
  <2>4. n \in Nat /\ q \in Seq(Unit)
    BY <1>2, Typed
  <2> HIDE DEF q, p, o, n, k, l, v
  <2>5. SidePart(n, v, l, q, Len(q), p, NoMessage, o)
    BY <2>2, <2>3, <2>4, WaitingStays
  <2>6. SidePart(Len(said'["down"]), v, l, sent'["down"], parsed'["down"], parser'["down"],
                 slot'["down"], out'[Other("down")])
    BY <1>2, <1>6, <1>7, <1>8, <2>5 DEF q, p, o, n
  <2>7. v = Latest("down")' /\ l = Quiet("down")'
    BY <2>1 DEF l
  <2> QED
    BY <2>6, <2>7, SideKeptThen
<1>10. LastOf("down")'
  BY <1>6, <1>7, StateNames DEF LastOf
<1>11. \A s \in Side : Taken(s)'
  BY <1>1, <1>7, TakenStays
<1>12. (Len(said["down"]) <= Flushed("up"))' /\ (Len(said["up"]) <= Flushed("down") + 1)'
  <2>1. Flushed("up")' = Flushed("up") /\ Flushed("down")' = Flushed("down")
    BY <1>7 DEF Flushed
  <2>2. Flushed("down") + 1 = Len(said["up"]) + 1 /\ Len(said["down"]) <= Flushed("up")
    BY <1>4, <1>8
  <2> QED
    BY <1>8, <2>1, <2>2
<1>13. Reading' /\ handler' # "crashed"
  BY <1>7 DEF Reading, Side
<1>14. \A s \in Side : SideKept(s)' /\ LastOf(s)' /\ Taken(s)'
  BY <1>5, <1>9, <1>10, <1>11, Sides
<1> QED
  BY <1>12, <1>13, <1>14, WireThen

LEMMA WireRespond ==
    ASSUME TypeInv, WireInv, NEW m \in Responses, Respond, Say("down", m)
    PROVE  WireInv'
<1>1. /\ \A s \in Side : SideKept(s) /\ LastOf(s) /\ Taken(s)
      /\ Turns
  BY WireIs DEF WireInv
<1>2. m \in Message /\ "up" \in Side /\ "down" \in Side /\ Other("up") = "down" /\ Other("down") = "up"
  BY MessagesAre, Sides
<1>3. Open("down") /\ Len(said["down"]) < Len(heard["down"].got)
  BY DEF Respond
<1>4. /\ Flushed("down") = Len(said["down"]) /\ Len(said["down"]) + 1 <= Flushed("up")
      /\ Flushed("up") \in Nat /\ Len(said["down"]) \in Nat
  <2>1. Len(heard["down"].got) <= Flushed("up")
    BY <1>1, <1>2, TakenBy
  <2>2. /\ Flushed("down") <= Len(said["down"]) /\ Len(said["up"]) <= Flushed("down") + 1
        /\ Flushed("up") <= Len(said["up"])
    BY <1>1, Chain
  <2>3. /\ Flushed("up") \in Nat /\ Len(said["up"]) \in Nat
        /\ Flushed("down") \in Nat /\ Len(said["down"]) \in Nat
    BY <1>2, Numbers
  <2>4. Len(heard["down"].got) \in Nat
    <3>1. heard["down"].got \in Seq(Stored)
      BY <1>2, Typed
    <3> QED
      BY <3>1
  <2> QED
    BY <1>3, <2>1, <2>2, <2>3, <2>4
<1>5. SideKept("down")' /\ LastOf("down")'
  BY <1>1, <1>2, <1>3, <1>4, KeptSay
<1>6. /\ parsed' = parsed /\ parser' = parser /\ slot' = slot /\ out' = out /\ heard' = heard
      /\ delivered' = delivered /\ handler' = "idle"
  BY SayKeeps
<1>7. /\ Len(said'["down"]) = Len(said["down"]) + 1
      /\ said'["up"] = said["up"] /\ sent'["up"] = sent["up"]
  BY <1>2, SayIs
<1>8. SideKept("up")'
  <2>1. Quiet("up") = FALSE /\ Quiet("up")' = FALSE
    BY DEF Quiet, Silent
  <2> QED
    BY <1>1, <1>2, <1>6, <1>7, <2>1, SideStays
<1>9. LastOf("up")'
  <2>1. LastOf("up")
    BY <1>1, <1>2
  <2> QED
    BY <1>6, <1>7, <2>1 DEF LastOf, Open
<1>10. \A s \in Side : Taken(s)'
  BY <1>1, <1>6, TakenStays
<1>11. (Len(said["down"]) <= Flushed("up"))' /\ (Len(said["up"]) <= Flushed("down") + 1)'
  <2>1. Flushed("up")' = Flushed("up") /\ Flushed("down")' = Flushed("down")
    BY <1>6 DEF Flushed
  <2>2. Len(said["up"]) <= Flushed("down") + 1
    BY <1>1 DEF Turns
  <2> QED
    BY <1>4, <1>7, <2>1, <2>2
<1>12. Reading' /\ handler' # "crashed"
  BY <1>6 DEF Reading, Side
<1>13. \A s \in Side : SideKept(s)' /\ LastOf(s)' /\ Taken(s)'
  BY <1>5, <1>8, <1>9, <1>10, Sides
<1> QED
  BY <1>11, <1>12, <1>13, WireThen

\* The unit at j comes next, and no other message is on its way.
Fits(n, q, k, j, w, o) ==
    /\ n \in Nat \ {0} /\ q \in Seq(UnitTo(n)) /\ w \in StoredTo(n) \cup {NoMessage}
    /\ o \in Seq(Unit) /\ k \in Nat /\ j = k + 1 /\ k < Len(q) /\ n <= Count(o) + 1

\* A message begins only when the slot is free.
LEMMA PartFree ==
    \A n, m, quiet, q, k, j, p, w, o :
       Fits(n, q, k, j, w, o) /\ SidePart(n, m, quiet, q, k, p, w, o)
       => (p.state = "start" => w = NoMessage)
<1>1. SUFFICES ASSUME NEW n, NEW m, NEW quiet, NEW q, NEW k, NEW j, NEW p, NEW w, NEW o,
                      Fits(n, q, k, j, w, o), SidePart(n, m, quiet, q, k, p, w, o),
                      p.state = "start"
               PROVE  w = NoMessage
  OBVIOUS
<1>2. /\ n \in Nat \ {0} /\ q \in Seq(UnitTo(n)) /\ o \in Seq(Unit)
      /\ k \in Nat /\ k < Len(q) /\ n <= Count(o) + 1
  BY <1>1 DEF Fits
<1>3. /\ Count(o) + Holds(w) + Ahead(q, k + 1) = n /\ Rest(q, k + 1, p, n, m, quiet)
  BY <1>1 DEF SidePart
<1>4. Count(o) \in Nat /\ Holds(w) \in {0, 1} /\ (Holds(w) = 0 <=> w = NoMessage)
  BY <1>2, CountTyped, HoldsTyped
<1>5. Len(q) # (k + 1) - 1
  BY <1>2
<1>6. BeginAt(q, k + 1, n, m, quiet)
  BY <1>1, <1>3, <1>5 DEF Rest
<1>7. Ahead(q, k + 1) = 1
  BY <1>6 DEF BeginAt, BeginOf, Piece, Ahead
<1>8. Holds(w) = 0
  BY <1>2, <1>3, <1>4, <1>7
<1> QED
  BY <1>4, <1>8

\* One unit is parsed: the part of the side it belongs to.
LEMMA PartSteps ==
    \A n, m, quiet, q, k, j, p, w, o, r, y :
       /\ Fits(n, q, k, j, w, o) /\ SidePart(n, m, quiet, q, k, p, w, o)
       /\ Stepped(q, j, n, m, quiet, w, y, r)
       => y # NoMessage /\ SidePart(n, m, quiet, q, j, r, y, o)
<1>1. SUFFICES ASSUME NEW n, NEW m, NEW quiet, NEW q, NEW k, NEW j, NEW p, NEW w, NEW o, NEW r,
                      NEW y, Fits(n, q, k, j, w, o), SidePart(n, m, quiet, q, k, p, w, o),
                      Stepped(q, j, n, m, quiet, w, y, r)
               PROVE  y # NoMessage /\ SidePart(n, m, quiet, q, j, r, y, o)
  OBVIOUS
<1> DEFINE u == q[j]
<1>2. /\ n \in Nat \ {0} /\ q \in Seq(UnitTo(n)) /\ o \in Seq(Unit)
      /\ w \in StoredTo(n) \cup {NoMessage}
      /\ k \in Nat /\ j = k + 1 /\ k < Len(q) /\ n <= Count(o) + 1
  BY <1>1 DEF Fits
<1>3. j \in 1..Len(q) /\ Len(q) \in Nat /\ u \in UnitTo(n) /\ u \in Unit
  <2>1. j \in 1..Len(q) /\ Len(q) \in Nat
    BY <1>2
  <2>2. u \in UnitTo(n)
    BY <1>2, <2>1
  <2> HIDE DEF u
  <2> QED
    BY <1>2, <2>1, <2>2, UnitsTyped
<1>4. /\ Count(o) + Holds(w) + Ahead(q, k + 1) = n
      /\ Content(o) \o Content(Held(w)) = Content(SubSeq(q, 1, k))
  BY <1>1 DEF SidePart
<1>5. Count(o) \in Nat /\ Holds(w) \in {0, 1} /\ (Holds(w) = 0 <=> w = NoMessage)
  BY <1>2, CountTyped, HoldsTyped
<1>6. /\ Rest(q, j + 1, r, n, m, quiet) /\ Shape(y, r, n, m, quiet)
      /\ y.stat # "INIT" /\ Ahead(q, j + 1) = 0
      /\ w = NoMessage <=> u.kind = "begin"
      /\ Content(Held(y)) = Content(Held(w)) \o Content(<<u>>)
  BY <1>1 DEF Stepped
<1>7. y # NoMessage /\ Holds(y) = 1
  BY <1>6, EmptyWith DEF Holds
<1>8. Count(o) + Holds(y) + Ahead(q, j + 1) = n
  <2>1. Ahead(q, k + 1) = IF u.kind = "begin" THEN 1 ELSE 0
    BY <1>2, <1>3 DEF Ahead
  <2> HIDE DEF u
  <2>2. Count(o) + 1 = n
    BY <1>2, <1>4, <1>5, <1>6, <2>1
  <2> QED
    BY <1>2, <1>5, <1>6, <1>7, <2>2
<1>9. Content(o) \o Content(Held(y)) = Content(SubSeq(q, 1, j))
  <2> DEFINE a == Content(o)
             b == Content(Held(w))
             c == Content(<<u>>)
             h == SubSeq(q, 1, k)
  <2>1. Held(w) \in Seq(Unit)
    <3>1. w.head \in Seq(Unit) /\ w.payload \in Seq(Unit) /\ w.trailer \in Seq(Unit)
      BY <1>2, PartsTyped
    <3> QED
      BY <3>1, HeldContent
  <2>2. q \in Seq(Unit)
    BY <1>2, UnitsAre
  <2>3. h \in Seq(Unit)
    <3>1. k \in 0..Len(q)
      BY <1>2, <1>3
    <3> QED
      BY <2>2, <3>1, Halves
  <2>4. <<u>> \in Seq(Unit)
    BY <1>3
  <2> HIDE DEF u, h
  <2>5. a \in Seq(Unit) /\ b \in Seq(Unit) /\ c \in Seq(Unit)
    BY <1>2, <2>1, <2>4, ContentTyped
  <2>6. SubSeq(q, 1, j) = Append(h, u)
    BY <1>2, <2>2, OneMore DEF h, u
  <2>7. Content(Append(h, u)) = Content(h) \o c
    BY <1>3, <2>3, ContentAppend
  <2>8. a \o b = Content(h)
    BY <1>4 DEF h
  <2>9. Content(Held(y)) = b \o c
    BY <1>6
  <2> HIDE DEF a, b, c
  <2>10. (a \o b) \o c = a \o (b \o c)
    BY <2>5, UnitsAssociate
  <2>11. a \o Content(Held(y)) = Content(SubSeq(q, 1, j))
    BY <2>6, <2>7, <2>8, <2>9, <2>10
  <2> QED
    BY <2>11 DEF a
<1> QED
  BY <1>6, <1>7, <1>8, <1>9 DEF SidePart

LEMMA PlaysWell ==
    ASSUME TypeInv, NEW s \in Side, Len(said[s]) # 0
    PROVE  Latest(s) \in Message /\ Plays(Latest(s), Quiet(s), s = "up") /\ Quiet(s) \in BOOLEAN
           /\ (Latest(s).last => ~Open(s))
<1> DEFINE q == said[s]
<1>1. q \in Seq(Message) /\ Len(q) \in Nat /\ Len(q) # 0
  BY SaidMessages DEF TypeInv
<1>2. Len(q) \in DOMAIN q /\ q[Len(q)] \in Message
  <2> HIDE DEF q
  <2> QED
    BY <1>1
<1>3. Latest(s) \in Message
  BY <1>2 DEF Latest
<1>4. Quiet(s) \in BOOLEAN
  BY SkipsTyped DEF Quiet
<1>5. Latest(s).last => ~Open(s)
  BY <1>2 DEF Latest, Open
<1>6. s = "up" => ~Quiet(s)
  BY DEF Quiet, Silent
<1>7. s = "up" /\ Latest(s).framing = "none" => BodyLength(Latest(s)) = 0
  <2>1. SUFFICES ASSUME s = "up", Latest(s).framing = "none" PROVE BodyLength(Latest(s)) = 0
    OBVIOUS
  <2>2. said["up"] \in Seq(Requests)
    BY DEF TypeInv, TypeOK
  <2>3. Latest(s) \in Requests
    BY <1>2, <2>1, <2>2 DEF Latest
  <2>4. Latest(s).chunks = <<>>
    BY <2>1, <2>3, WireAssumption
  <2> QED
    BY <2>4, NoLength DEF BodyLength
<1>8. s # "up" /\ Latest(s).bare => Quiet(s)
  <2>1. SUFFICES ASSUME s # "up", Latest(s).bare PROVE Quiet(s)
    OBVIOUS
  <2>2. s = "down"
    BY <2>1, Sides
  <2> QED
    BY <2>1, <2>2 DEF Quiet, Silent, Latest
<1>9. Plays(Latest(s), Quiet(s), s = "up")
  BY <1>6, <1>7, <1>8 DEF Plays
<1> QED
  BY <1>3, <1>4, <1>5, <1>9

\* What Parse does to the side that is read.
LEMMA KeptParse ==
    ASSUME TypeInv, WireInv, NEW s \in Side, Parse(s)
    PROVE  /\ SideKept(s)' /\ LastOf(s)' /\ slot'[s] # NoMessage
           /\ parser' = [parser EXCEPT ![s] = Read(s)]
           /\ slot' = [slot EXCEPT ![s] = Noted(Made(s), parser[s], sent[s][parsed[s] + 1], Read(s))]
           /\ parsed' = [parsed EXCEPT ![s] = parsed[s] + 1]
<1> DEFINE n == Len(said[s])
           m == Latest(s)
           quiet == Quiet(s)
           isRequest == s = "up"
           skip == FALSE
           q == sent[s]
           k == parsed[s]
           j == k + 1
           u == q[j]
           p == parser[s]
           w == slot[s]
           o == out[Other(s)]
           m1 == MessageOf(s, u)
           r == Execute(p, u, m1, isRequest, skip)
           x == Begun(w, p, r)
           y == Noted(x, p, u, r)
<1>1. handler = s /\ todo > 0 /\ p.state # "error" /\ said' = said /\ sent' = sent /\ out' = out
      /\ parsed' = [parsed EXCEPT ![s] = k + 1]
  BY ParseIs
<1>2. k < Len(q) /\ k \in Nat
  <2>1. parsed[s] + todo <= Len(sent[s]) /\ todo \in Nat
    BY <1>1 DEF TypeInv, Within, TypeOK
  <2>2. parsed[s] \in Nat /\ Len(sent[s]) \in Nat
    BY Typed
  <2> QED
    BY <1>1, <2>1, <2>2
<1>3. n \in Nat \ {0} /\ u \in UnitTo(n)
  BY <1>2, NextUnit
<1>4. m1 \in Message /\ (u.of = n => m1 = m)
  BY <1>3, MessageTyped
<1>5. m \in Message /\ Plays(m, quiet, isRequest) /\ quiet \in BOOLEAN /\ (m.last => ~Open(s))
  BY <1>3, PlaysWell
<1>6. /\ q \in Seq(UnitTo(n)) /\ p \in Parser /\ w \in StoredTo(n) \cup {NoMessage} /\ o \in Seq(Unit)
  BY Typed, Sides
<1>7. SideKept(s) /\ LastOf(s) /\ Turns
  BY WireIs DEF WireInv
<1>8. SidePart(n, m, quiet, q, k, p, w, o)
  BY <1>7, SideKeptIs
<1>9. n <= Count(o) + 1
  <2>1. Flushed(s) + 1 >= Len(said[s]) /\ Flushed(s) \in Nat
    BY <1>7, Chain, Numbers
  <2>2. Flushed(s) = Count(o)
    BY DEF Flushed
  <2> HIDE DEF n, o
  <2> QED
    BY <1>3, <2>1, <2>2 DEF n
<1>10. isRequest \in BOOLEAN /\ skip \in BOOLEAN /\ ~skip
  OBVIOUS
<1>11. Read(s) = r /\ Made(s) = x
  BY DEF Read, Made
<1>12. LastOf(s) /\ (p.last => ~Open(s))
  BY <1>7 DEF LastOf
<1>13. j = k + 1 /\ (k \in Nat => j \in Nat)
  OBVIOUS
<1> HIDE DEF n, m, quiet, isRequest, skip, q, k, j, p, w, o, m1
<1>14. /\ x # NoMessage /\ y # NoMessage /\ SidePart(n, m, quiet, q, j, r, y, o)
       /\ (p.state = "start" => r.last = m.last) /\ (p.state # "start" => r.last = p.last)
  <2>1. Fits(n, q, k, j, w, o)
    BY <1>2, <1>3, <1>6, <1>9, <1>13 DEF Fits
  <2>2. p.state = "start" => w = NoMessage
    BY <1>8, <2>1, PartFree
  <2>3. /\ Rest(q, j, p, n, m, quiet) /\ Shape(w, p, n, m, quiet)
    BY <1>8, <1>13 DEF SidePart
  <2>4. j \in 1..Len(q)
    BY <1>2, <1>6, <1>13
  <2>5. /\ Rest(q, j, p, n, m, quiet) /\ Shape(w, p, n, m, quiet)
        /\ Plays(m, quiet, isRequest) /\ ~skip /\ (q[j].of = n => m1 = m)
        /\ p.state # "error" /\ (p.state = "start" => w = NoMessage)
    BY <1>1, <1>4, <1>5, <1>10, <2>2, <2>3
  <2>6. /\ n \in Nat \ {0} /\ m \in Message /\ quiet \in BOOLEAN /\ isRequest \in BOOLEAN
        /\ q \in Seq(UnitTo(n)) /\ p \in Parser /\ m1 \in Message
        /\ skip \in BOOLEAN /\ w \in StoredTo(n) \cup {NoMessage}
    BY <1>3, <1>4, <1>5, <1>6, <1>10
  <2>7. /\ x # NoMessage /\ Stepped(q, j, n, m, quiet, w, y, r)
        /\ (p.state = "start" => r.last = m.last) /\ (p.state # "start" => r.last = p.last)
    BY <2>4, <2>5, <2>6, StepTaken
  <2> HIDE DEF x, y, r, u
  <2>8. y # NoMessage /\ SidePart(n, m, quiet, q, j, r, y, o)
    BY <1>8, <2>1, <2>7, PartSteps
  <2> QED
    BY <2>7, <2>8
<1>15. u = sent[s][parsed[s] + 1]
  BY DEF q, k, j
<1> HIDE DEF r, x, y, u
<1>16. Made(s) # NoMessage
  BY <1>11, <1>14
<1>17. /\ parser' = [parser EXCEPT ![s] = Read(s)]
       /\ slot' = [slot EXCEPT ![s] = Noted(Made(s), parser[s], sent[s][parsed[s] + 1], Read(s))]
  BY <1>16, ParseIs
<1>18. Noted(Made(s), parser[s], sent[s][parsed[s] + 1], Read(s)) = y
  BY <1>11, <1>15 DEF y, p
<1>19. DOMAIN parser = Side /\ DOMAIN slot = Side /\ DOMAIN parsed = Side
  BY DEF TypeInv, TypeOK
<1>20. parser'[s] = r /\ slot'[s] = y /\ parsed'[s] = j
  BY <1>1, <1>13, <1>11, <1>17, <1>18, <1>19
<1>21. Latest(s)' = m /\ Quiet(s)' = quiet
  BY <1>1 DEF Latest, Quiet, Silent, m, quiet
<1>22. SidePart(Len(said'[s]), m, quiet, sent'[s], parsed'[s], parser'[s], slot'[s], out'[Other(s)])
  BY <1>1, <1>14, <1>20 DEF n, q, o
<1>23. SideKept(s)'
  BY <1>21, <1>22, SideKeptThen
<1>24. LastOf(s)'
  <2>1. Open(s)' <=> Open(s)
    BY <1>1 DEF Open
  <2>2. r.last => ~Open(s)
    BY <1>5, <1>12, <1>14
  <2>3. said[s] # <<>>
    BY <1>3 DEF n
  <2> QED
    BY <1>1, <1>20, <2>1, <2>2, <2>3 DEF LastOf
<1>25. slot'[s] # NoMessage
  BY <1>14, <1>20
<1> QED
  BY <1>1, <1>17, <1>23, <1>24, <1>25 DEF k

\* Nothing that the other side's part is made of changes.
LEMMA OtherStays ==
    ASSUME TypeInv, WireInv, NEW s \in Side, said' = said, sent' = sent,
           parsed'[s] = parsed[s], parser'[s] = parser[s], slot'[s] = slot[s],
           out'[Other(s)] = out[Other(s)]
    PROVE  SideKept(s)' /\ LastOf(s)'
<1>1. SideKept(s) /\ LastOf(s)
  BY WireIs
<1>2. Quiet(s)' = Quiet(s)
  BY DEF Quiet, Silent
<1>3. SideKept(s)'
  BY <1>1, <1>2, SideStays
<1>4. LastOf(s)'
  BY <1>1 DEF LastOf, Open
<1> QED
  BY <1>3, <1>4

LEMMA WireParse ==
    ASSUME TypeInv, WireInv, NEW s \in Side, Parse(s)
    PROVE  WireInv'
<1>1. /\ SideKept(s)' /\ LastOf(s)' /\ slot'[s] # NoMessage
      /\ parser' = [parser EXCEPT ![s] = Read(s)]
      /\ slot' = [slot EXCEPT ![s] = Noted(Made(s), parser[s], sent[s][parsed[s] + 1], Read(s))]
      /\ parsed' = [parsed EXCEPT ![s] = parsed[s] + 1]
  BY KeptParse
<1>2. /\ handler = s /\ said' = said /\ sent' = sent /\ out' = out
      /\ delivered' = delivered /\ heard' = heard /\ handler' = handler
  BY ParseIs
<1>3. Other(s) \in Side /\ Other(s) # s
  BY Sides
<1>4. /\ parser'[Other(s)] = parser[Other(s)] /\ slot'[Other(s)] = slot[Other(s)]
      /\ parsed'[Other(s)] = parsed[Other(s)]
  <2>1. DOMAIN parser = Side /\ DOMAIN slot = Side /\ DOMAIN parsed = Side
    BY DEF TypeInv, TypeOK
  <2> QED
    BY <1>1, <1>3, <2>1
<1>5. SideKept(Other(s))' /\ LastOf(Other(s))'
  BY <1>2, <1>3, <1>4, OtherStays
<1>6. \A t \in Side : Taken(t)'
  BY <1>2, TakenStays, WireIs
<1>7. (Len(said["down"]) <= Flushed("up"))' /\ (Len(said["up"]) <= Flushed("down") + 1)'
  BY <1>2, WireIs DEF Flushed
<1>8. Reading' /\ handler' # "crashed"
  BY <1>1, <1>2, WireIs DEF Reading
<1>9. \A t \in Side : SideKept(t)' /\ LastOf(t)' /\ Taken(t)'
  BY <1>1, <1>5, <1>6, Sides
<1> QED
  BY <1>7, <1>8, <1>9, WireThen

(***************************************************************************)
(* What send() writes of a whole message: one message, and all it carries. *)
(***************************************************************************)
\* A part of a message and the line end that is put behind it.
Ended(q) == IF q = <<>> THEN <<>> ELSE Append(q, LineEnd)

LEMMA EndedUnits ==
    ASSUME NEW q \in Seq(Unit), NEW k, Kinds(q, k), k # "begin"
    PROVE  Ended(q) \in Seq(Unit) /\ Content(Ended(q)) = Content(q) /\ Count(Ended(q)) = 0
<1>1. LineEnd \in Unit /\ LineEnd.kind = "crlf"
  <2>1. LineEnd \in UnitTo(0)
    BY UnitsTyped
  <2> QED
    BY <2>1 DEF UnitTo, LineEnd, Piece
<1>2. Count(q) = 0
  BY CountNone DEF Kinds
<1>3. CASE q = <<>>
  BY <1>2, <1>3 DEF Ended
<1>4. CASE q # <<>>
  <2>1. Ended(q) = Append(q, LineEnd)
    BY <1>4 DEF Ended
  <2>2. Content(<<LineEnd>>) = <<>>
    BY <1>1, ContentFraming
  <2>3. Content(q) \in Seq(Unit)
    BY ContentTyped
  <2>4. Content(Append(q, LineEnd)) = Content(q) \o <<>>
    BY <1>1, <2>2, ContentAppend
  <2>5. Content(q) \o <<>> = Content(q)
    BY <2>3
  <2>6. Count(Append(q, LineEnd)) = 0
    BY <1>1, <1>2, CountAppend
  <2>7. Append(q, LineEnd) \in Seq(Unit)
    BY <1>1
  <2> QED
    BY <2>1, <2>4, <2>5, <2>6, <2>7
<1> QED
  BY <1>3, <1>4

LEMMA RenderedWhole ==
    ASSUME NEW n \in Nat, NEW x \in StoredTo(n), Whole(x, n),
           Kinds(x.payload, "byte"), Kinds(x.trailer, "trailer")
    PROVE  /\ Rendered(x) \in Seq(Unit) /\ Count(Rendered(x)) = 1
           /\ Content(Rendered(x)) = Content(Held(x))
<1> DEFINE a == x.head
           b == x.payload
           c == x.trailer
           d == Ended(x.payload)
           e == Ended(x.trailer)
<1>1. a \in Seq(Unit) /\ b \in Seq(Unit) /\ c \in Seq(Unit)
  BY PartsTyped
<1>2. d \in Seq(Unit) /\ Content(d) = Content(b) /\ Count(d) = 0
  BY <1>1, EndedUnits
<1>3. e \in Seq(Unit) /\ Content(e) = Content(c) /\ Count(e) = 0
  BY <1>1, EndedUnits
<1>4. Rendered(x) = (a \o d) \o e /\ Held(x) = (a \o b) \o c
  BY DEF Rendered, Held, Ended
<1>5. Count(a) = 1
  <2> DEFINE f == BeginOf(n)
             g == FieldsOf(n)
  <2>1. f \in Unit /\ g \in Unit /\ f.kind = "begin" /\ g.kind = "fields"
    <3>1. f \in UnitTo(n) /\ g \in UnitTo(n)
      BY UnitsTyped DEF UnitKind, BeginOf, FieldsOf
    <3>2. f \in Unit /\ g \in Unit
      <4> HIDE DEF f, g
      <4> QED
        BY <3>1, UnitsTyped
    <3> QED
      BY <3>2 DEF BeginOf, FieldsOf, Piece
  <2>2. a = <<f, g>>
    BY DEF Whole
  <2> HIDE DEF f, g, a
  <2>3. a = Append(<<f>>, g) /\ <<f>> \in Seq(Unit)
    BY <2>1, <2>2, TwoParts
  <2>4. Count(Append(<<f>>, g)) = Count(<<f>>) + 0
    BY <2>1, <2>3, CountAppend
  <2>5. Count(<<f>>) = 1
    BY <2>1, CountUnit
  <2> QED
    BY <2>3, <2>4, <2>5
<1> HIDE DEF a, b, c, d, e
<1>6. a \o d \in Seq(Unit) /\ (a \o d) \o e \in Seq(Unit) /\ a \o b \in Seq(Unit)
  BY <1>1, <1>2, <1>3
<1>7. Count((a \o d) \o e) = 1
  <2>1. Count(a \o d) = Count(a) + Count(d)
    BY <1>1, <1>2, CountConcat
  <2>2. Count((a \o d) \o e) = Count(a \o d) + Count(e)
    BY <1>3, <1>6, CountConcat
  <2> QED
    BY <1>2, <1>3, <1>5, <2>1, <2>2
<1>8. Content((a \o d) \o e) = Content((a \o b) \o c)
  <2>1. Content((a \o d) \o e) = Content(a \o d) \o Content(e)
    BY <1>3, <1>6, ContentConcat
  <2>2. Content((a \o b) \o c) = Content(a \o b) \o Content(c)
    BY <1>1, <1>6, ContentConcat
  <2>3. Content(a \o d) = Content(a) \o Content(d)
    BY <1>1, <1>2, ContentConcat
  <2>4. Content(a \o b) = Content(a) \o Content(b)
    BY <1>1, ContentConcat
  <2> QED
    BY <1>2, <1>3, <2>1, <2>2, <2>3, <2>4
<1> QED
  BY <1>4, <1>6, <1>7, <1>8

\* A whole message is written and leaves the slot.
LEMMA PartFlushed ==
    ASSUME NEW n \in Nat, NEW m, NEW quiet, NEW q, NEW k, NEW p \in Parser,
           NEW x \in StoredTo(n) \cup {NoMessage}, NEW o \in Seq(Unit)
    PROVE  SidePart(n, m, quiet, q, k, p, x, o) /\ x.stat = "COMPLETE"
           => /\ SidePart(n, m, quiet, q, k, p, NoMessage, o \o Rendered(x))
              /\ Rendered(x) \in Seq(Unit) /\ Count(o \o Rendered(x)) = Count(o) + 1
              /\ p.state \in Between
<1>1. SUFFICES ASSUME SidePart(n, m, quiet, q, k, p, x, o), x.stat = "COMPLETE"
               PROVE  /\ SidePart(n, m, quiet, q, k, p, NoMessage, o \o Rendered(x))
                      /\ Rendered(x) \in Seq(Unit) /\ Count(o \o Rendered(x)) = Count(o) + 1
                      /\ p.state \in Between
  OBVIOUS
<1>2. /\ Count(o) + Holds(x) + Ahead(q, k + 1) = n
      /\ Rest(q, k + 1, p, n, m, quiet) /\ Shape(x, p, n, m, quiet)
      /\ Content(o) \o Content(Held(x)) = Content(SubSeq(q, 1, k))
  BY <1>1 DEF SidePart
<1>3. x # NoMessage /\ x \in StoredTo(n)
  BY <1>1, EmptyWith
<1>4. p.state \in Between
  <2>1. p.state # "fields" /\ p.state # "error"
    BY <1>1, <1>2 DEF Shape, Headed
  <2>2. p.state \notin BodyState \cup ChunkState
    BY <1>1, <1>2 DEF Shape
  <2> QED
    BY <2>1, <2>2, StateNames DEF Parser
<1>5. Whole(x, n) /\ Kinds(x.payload, "byte") /\ Kinds(x.trailer, "trailer")
  BY <1>2, <1>3, <1>4 DEF Shape
<1> DEFINE e == Rendered(x)
<1>6. e \in Seq(Unit) /\ Count(e) = 1 /\ Content(e) = Content(Held(x))
  BY <1>3, <1>5, RenderedWhole
<1> HIDE DEF e
<1>7. o \o e \in Seq(Unit) /\ Count(o \o e) = Count(o) + 1 /\ Count(o) \in Nat
      /\ Content(o \o e) = Content(o) \o Content(e)
  BY <1>6, CountConcat, CountTyped, ContentConcat
<1>8. Count(o \o e) + Holds(NoMessage) + Ahead(q, k + 1) = n
  <2>1. Holds(x) = 1 /\ Holds(NoMessage) = 0 /\ Ahead(q, k + 1) \in {0, 1}
    BY <1>3, AheadTyped DEF Holds
  <2> QED
    BY <1>2, <1>7, <2>1
<1>9. Content(o \o e) \o Content(Held(NoMessage)) = Content(SubSeq(q, 1, k))
  <2>1. Content(Held(NoMessage)) = <<>>
    <3>1. Held(NoMessage) = <<>>
      BY DEF Held, NoMessage
    <3> QED
      BY <3>1, ContentEmpty
  <2>2. Content(o \o e) \in Seq(Unit)
    BY <1>7, ContentTyped
  <2>3. Content(o \o e) \o <<>> = Content(o \o e)
    BY <2>2
  <2> QED
    BY <1>2, <1>6, <1>7, <2>1, <2>3
<1>10. Shape(NoMessage, p, n, m, quiet)
  BY <1>4, ShapeNone
<1>11. SidePart(n, m, quiet, q, k, p, NoMessage, o \o e)
  BY <1>2, <1>8, <1>9, <1>10 DEF SidePart
<1> QED
  BY <1>4, <1>6, <1>7, <1>11 DEF e

LEMMA TakenLater ==
    ASSUME TypeInv, NEW s \in Side, Taken(s), NEW e \in Seq(Unit), out'[s] = out[s] \o e,
           heard' = heard, delivered' = delivered
    PROVE  Taken(s)'
<1>1. out[s] \in Seq(Unit) /\ delivered[s] \in 0..Len(out[s])
  BY Typed
<1>2. SubSeq(out[s] \o e, 1, delivered[s]) = SubSeq(out[s], 1, delivered[s])
  BY <1>1, PartOfConcat
<1> QED
  BY <1>2 DEF Taken

LEMMA WireFlushes ==
    ASSUME TypeInv, WireInv, NEW s \in Side, NEW c, Flushes(s, c), handler' = "idle"
    PROVE  WireInv'
<1> DEFINE t == Other(s)
<1>1. /\ Flush(s, c) /\ said' = said /\ sent' = sent /\ parsed' = parsed /\ parser' = parser
      /\ delivered' = delivered /\ heard' = heard
  BY DEF Flushes
<1>2. t \in Side /\ t # s /\ Other(t) = s
  BY Sides
<1>3. Reading' /\ handler' # "crashed"
  BY DEF Reading, Side
<1>4. \A a \in Side : Taken(a)
  BY WireIs
<1>5. CASE out' = out /\ slot' = slot
  <2>1. \A a \in Side : SideKept(a)' /\ LastOf(a)'
    BY <1>1, <1>5, OtherStays
  <2>2. \A a \in Side : Taken(a)'
    BY <1>1, <1>4, <1>5, TakenStays
  <2>3. (Len(said["down"]) <= Flushed("up"))' /\ (Len(said["up"]) <= Flushed("down") + 1)'
    BY <1>1, <1>5, WireIs DEF Flushed
  <2> QED
    BY <1>3, <2>1, <2>2, <2>3, WireThen
<1>6. CASE /\ slot[s].stat = "COMPLETE"
           /\ out' = [out EXCEPT ![t] = out[t] \o Rendered(slot[s])]
           /\ slot' = [slot EXCEPT ![s] = NoMessage]
  <2> DEFINE n == Len(said[s])
             m == Latest(s)
             quiet == Quiet(s)
             q == sent[s]
             k == parsed[s]
             p == parser[s]
             x == slot[s]
             o == out[t]
             e == Rendered(x)
  <2>1. n \in Nat /\ p \in Parser /\ x \in StoredTo(n) \cup {NoMessage} /\ o \in Seq(Unit)
    BY <1>2, Typed
  <2>2. SidePart(n, m, quiet, q, k, p, x, o)
    BY SideKeptIs, WireIs
  <2>3. x.stat = "COMPLETE"
    BY <1>6
  <2>4. DOMAIN out = Side /\ DOMAIN slot = Side
    BY DEF TypeInv, TypeOK
  <2>5. out'[t] = o \o e /\ out'[s] = out[s] /\ slot'[s] = NoMessage /\ slot'[t] = slot[t]
    <3> HIDE DEF t
    <3> QED
      BY <1>2, <1>6, <2>4
  <2>6. Latest(s)' = m /\ Quiet(s)' = quiet
    BY <1>1 DEF Latest, Quiet, Silent
  <2>7. n = Len(said'[s]) /\ q = sent'[s] /\ k = parsed'[s] /\ p = parser'[s]
    BY <1>1
  <2>8. o = out[Other(s)] /\ out'[t] = out'[Other(s)]
    OBVIOUS
  <2> HIDE DEF n, m, quiet, q, k, p, x, o, t
  <2>9. /\ SidePart(n, m, quiet, q, k, p, NoMessage, o \o e)
        /\ e \in Seq(Unit) /\ Count(o \o e) = Count(o) + 1
    BY <2>1, <2>2, <2>3, PartFlushed
  <2> HIDE DEF e
  <2>10. SidePart(Len(said'[s]), m, quiet, sent'[s], parsed'[s], parser'[s], slot'[s],
                  out'[Other(s)])
    BY <2>5, <2>7, <2>8, <2>9
  <2>11. SideKept(s)'
    BY <2>6, <2>10, SideKeptThen
  <2>12. LastOf(s)'
    BY <1>1, WireIs DEF LastOf, Open
  <2>13. SideKept(t)' /\ LastOf(t)'
    BY <1>1, <1>2, <2>5, OtherStays
  <2>14. Taken(t)'
    BY <1>1, <1>2, <1>4, <2>5, <2>9, TakenLater DEF o
  <2>15. Taken(s)'
    BY <1>1, <1>4, <2>5 DEF Taken
  <2>16. (Len(said["down"]) <= Flushed("up"))' /\ (Len(said["up"]) <= Flushed("down") + 1)'
    <3>1. Flushed(s)' = Flushed(s) + 1 /\ Flushed(t)' = Flushed(t)
      <4>1. Flushed(s)' = Count(o \o e) /\ Flushed(s) = Count(o)
        BY <2>5, <2>8 DEF Flushed
      <4>2. Flushed(t)' = Flushed(t)
        BY <1>2, <2>5 DEF Flushed
      <4> QED
        BY <2>9, <4>1, <4>2
    <3>2. Flushed("up")' >= Flushed("up") /\ Flushed("down")' >= Flushed("down")
          /\ Flushed("up")' \in Nat /\ Flushed("down")' \in Nat
      <4>1. \A a \in Side : Flushed(a) \in Nat
        BY Numbers
      <4>2. \A a \in Side : Flushed(a)' >= Flushed(a) /\ Flushed(a)' \in Nat
        <5>1. SUFFICES ASSUME NEW a \in Side PROVE Flushed(a)' >= Flushed(a) /\ Flushed(a)' \in Nat
          OBVIOUS
        <5>2. CASE a = s
          BY <3>1, <4>1, <5>2
        <5>3. CASE a = t
          BY <3>1, <4>1, <5>3
        <5> QED
          BY <5>2, <5>3, Sides DEF t
      <4>3. "up" \in Side /\ "down" \in Side
        BY Sides
      <4> QED
        BY <4>2, <4>3
    <3>3. /\ Len(said["down"]) <= Flushed("up") /\ Len(said["up"]) <= Flushed("down") + 1
          /\ Len(said["down"]) \in Nat /\ Len(said["up"]) \in Nat
          /\ Flushed("up") \in Nat /\ Flushed("down") \in Nat
      BY WireIs, Numbers, Sides
    <3>4. Len(said["down"])' = Len(said["down"]) /\ Len(said["up"])' = Len(said["up"])
      BY <1>1
    <3> QED
      BY <3>2, <3>3, <3>4
  <2>17. \A a \in Side : SideKept(a)' /\ LastOf(a)' /\ Taken(a)'
    BY <2>11, <2>12, <2>13, <2>14, <2>15, Sides DEF t
  <2> QED
    BY <1>3, <2>16, <2>17, WireThen
<1> QED
  BY <1>1, <1>5, <1>6, FlushIs

LEMMA WireReadDone ==
    ASSUME TypeInv, WireInv, NEW s \in Side, ReadDone(s)
    PROVE  WireInv'
<1>1. /\ handler = s /\ Flushes(s, client')
      /\ todo = 0 \/ parser[s].state = "error"
      /\ handler' = IF s = "down" /\ slot[s] = NoMessage THEN "crashed" ELSE "idle"
  BY ReadDoneIs
<1>2. slot[s] # NoMessage
  <2>1. CASE todo = 0
    BY <1>1, <2>1, WireIs DEF Reading
  <2>2. CASE parser[s].state = "error"
    <3>1. slot[s].stat = "HEADER"
      <4>1. ShapeOf(s)
        BY WireIs DEF SideKept
      <4>2. slot[s] = Headed(<<BeginOf(Len(said[s])), FieldsOf(Len(said[s]))>>)
        BY <2>2, <4>1 DEF ShapeOf, Shape
      <4>3. \A h : Headed(h).stat = "HEADER"
        BY DEF Headed
      <4> QED
        BY <4>2, <4>3
    <3> QED
      BY <3>1, EmptyWith
  <2> QED
    BY <1>1, <2>1, <2>2
<1> QED
  BY <1>1, <1>2, WireFlushes

LEMMA WireConnected ==
    ASSUME TypeInv, WireInv, Connected
    PROVE  WireInv'
  BY ConnectedIs, WireFlushes, Sides

LEMMA WireReadCb ==
    ASSUME TypeInv, WireInv, NEW s \in Side, ReadCb(s)
    PROVE  WireInv'
<1>1. /\ said' = said /\ sent' = sent /\ parsed' = parsed /\ parser' = parser /\ slot' = slot
      /\ out' = out /\ delivered' = delivered /\ heard' = heard /\ handler' = s
      /\ \E k \in 1..Units(s) : todo' = k
  BY DEF ReadCb, peerVars, outVars, takenVars
<1>2. todo' # 0
  <2>1. Units(s) \in Int
    BY Typed DEF Units
  <2> QED
    BY <1>1, <2>1
<1>3. \A a \in Side : SideKept(a)' /\ LastOf(a)'
  BY <1>1, OtherStays
<1>4. \A a \in Side : Taken(a)'
  BY <1>1, TakenStays, WireIs
<1>5. (Len(said["down"]) <= Flushed("up"))' /\ (Len(said["up"]) <= Flushed("down") + 1)'
  BY <1>1, WireIs DEF Flushed
<1>6. Reading' /\ handler' # "crashed"
  BY <1>1, <1>2 DEF Reading, Side
<1> QED
  BY <1>3, <1>4, <1>5, <1>6, WireThen

\* Steps that leave what has been said, parsed and written, and run no callback.
LEMMA WireSame ==
    ASSUME TypeInv, WireInv, said' = said, sent' = sent, parsed' = parsed, parser' = parser,
           slot' = slot, out' = out, \A a \in Side : Taken(a)', Reading', handler' # "crashed"
    PROVE  WireInv'
<1>1. \A a \in Side : SideKept(a)' /\ LastOf(a)'
  BY OtherStays
<1>2. (Len(said["down"]) <= Flushed("up"))' /\ (Len(said["up"]) <= Flushed("down") + 1)'
  BY WireIs DEF Flushed
<1> QED
  BY <1>1, <1>2, WireThen

LEMMA WireCloses ==
    ASSUME TypeInv, WireInv, OriginCloses
    PROVE  WireInv'
<1>1. /\ said' = said /\ sent' = sent /\ parsed' = parsed /\ parser' = parser /\ slot' = slot
      /\ out' = out /\ delivered' = delivered /\ heard' = heard /\ handler' = "closed"
  BY DEF OriginCloses, peerVars, outVars, takenVars
<1>2. \A a \in Side : Taken(a)'
  BY <1>1, TakenStays, WireIs
<1>3. Reading' /\ handler' # "crashed"
  BY <1>1 DEF Reading, Side
<1> QED
  BY <1>1, <1>2, <1>3, WireSame

\* A peer receives no more messages than have been begun.
LEMMA HearGrows ==
    ASSUME NEW s, NEW h, NEW u, h.got \in Seq(Stored),
           HeardSlot(s, h, u).stat = "COMPLETE" => HeardSlot(s, h, u) \in Stored
    PROVE  Len(Hear(s, h, u).got) + Holds(Hear(s, h, u).slot)
             <= Len(h.got) + Holds(h.slot) + (IF u.kind = "begin" THEN 1 ELSE 0)
<1> DEFINE q == HeardParser(s, h, u)
           x == Begun(h.slot, h.parser, q)
           y == HeardSlot(s, h, u)
           b == IF u.kind = "begin" THEN 1 ELSE 0
<1>1. Holds(x) <= Holds(h.slot) + b
  <2>1. CASE h.parser.state = "start" /\ q.state = "fields" /\ h.slot = NoMessage
    <3>1. u.kind = "begin"
      <4>1. q = IF u.kind = "crlf" THEN h.parser
                ELSE IF u.kind = "begin"
                     THEN [state |-> "fields", length |-> 0, last |-> MessageOf(Other(s), u).last]
                     ELSE To(h.parser, "error")
        BY <2>1 DEF HeardParser, Execute
      <4>2. To(h.parser, "error").state # "fields"
        BY <2>1 DEF To
      <4> HIDE DEF q
      <4> QED
        BY <2>1, <4>1, <4>2
    <3>2. b = 1
      BY <3>1
    <3> HIDE DEF x, b
    <3> QED
      BY <3>2, HoldsTyped
  <2>2. CASE ~(h.parser.state = "start" /\ q.state = "fields" /\ h.slot = NoMessage)
    <3>1. x = h.slot
      BY <2>2 DEF Begun
    <3>2. b \in {0, 1} /\ Holds(h.slot) \in {0, 1}
      BY HoldsTyped
    <3> HIDE DEF x, b
    <3> QED
      BY <3>1, <3>2
  <2> QED
    BY <2>1, <2>2
<1>2. Holds(y) <= Holds(x) /\ (y.stat = "COMPLETE" => Holds(x) = 1)
  <2>1. y = IF x = NoMessage THEN x ELSE Noted(x, h.parser, u, q)
    BY DEF HeardSlot
  <2>2. NoMessage.stat = "INIT"
    BY EmptyWith
  <2> HIDE DEF x, y, q
  <2> QED
    BY <2>1, <2>2, HoldsTyped
<1>3. Len(h.got) \in Nat /\ Holds(h.slot) \in {0, 1} /\ Holds(x) \in {0, 1} /\ Holds(y) \in {0, 1}
      /\ b \in {0, 1} /\ Holds(NoMessage) = 0
  BY HoldsTyped
<1>4. CASE y.stat = "COMPLETE"
  <2>1. Hear(s, h, u).slot = NoMessage /\ Hear(s, h, u).got = Append(h.got, y)
    BY <1>4, HearIs
  <2>2. Len(Append(h.got, y)) = Len(h.got) + 1
    BY <1>4
  <2>3. Len(Hear(s, h, u).got) + Holds(Hear(s, h, u).slot) <= Len(h.got) + Holds(h.slot) + b
    <3> HIDE DEF x, y, b
    <3> QED
      BY <1>1, <1>2, <1>3, <1>4, <2>1, <2>2
  <2> QED
    BY <2>3
<1>5. CASE y.stat # "COMPLETE"
  <2>1. Hear(s, h, u).slot = y /\ Hear(s, h, u).got = h.got
    BY <1>5, HearIs
  <2>2. Len(Hear(s, h, u).got) + Holds(Hear(s, h, u).slot) <= Len(h.got) + Holds(h.slot) + b
    <3> HIDE DEF x, y, b
    <3> QED
      BY <1>1, <1>2, <1>3, <2>1
  <2> QED
    BY <2>2
<1> QED
  BY <1>4, <1>5

LEMMA WireDeliver ==
    ASSUME TypeInv, WireInv, NEW s \in Side, Deliver(s)
    PROVE  WireInv'
<1> DEFINE d == delivered[s]
           h == heard[s]
           u == out[s][d + 1]
           b == IF u.kind = "begin" THEN 1 ELSE 0
           v == Hear(s, h, u)
<1>1. /\ handler = "idle" /\ d < Len(out[s])
      /\ delivered'[s] = d + 1 /\ delivered'[Other(s)] = delivered[Other(s)]
      /\ heard'[s] = v
      /\ heard'[Other(s)] = heard[Other(s)]
      /\ said' = said /\ sent' = sent /\ parsed' = parsed /\ parser' = parser
      /\ slot' = slot /\ out' = out /\ handler' = handler
  BY DeliverIs
<1>2. Taken(s)'
  <2>1. d \in Nat /\ out[s] \in Seq(Unit) /\ h.got \in Seq(Stored)
    BY Typed
  <2>2. d + 1 \in 1..Len(out[s]) /\ u \in Unit
    BY <1>1, <2>1
  <2>3. SubSeq(out[s], 1, d + 1) = Append(SubSeq(out[s], 1, d), u)
    BY <1>1, <2>1, OneMore
  <2>4. SubSeq(out[s], 1, d) \in Seq(Unit)
    <3>1. d \in 0..Len(out[s])
      BY <1>1, <2>1
    <3> QED
      BY <2>1, <3>1, Halves
  <2>5. Count(SubSeq(out[s], 1, d + 1)) = Count(SubSeq(out[s], 1, d)) + b
    BY <2>2, <2>3, <2>4, CountAppend
  <2>6. HeardSlot(s, h, u).stat = "COMPLETE" => HeardSlot(s, h, u) \in Stored
    <3>1. TypeInv'
      BY TypeDeliver
    <3>2. heard'[s].got \in Seq(Stored)
      <4>1. TypeOK'
        BY <3>1 DEF TypeInv
      <4> QED
        BY <4>1 DEF TypeOK
    <3> DEFINE y == HeardSlot(s, h, u)
    <3>3. ASSUME y.stat = "COMPLETE" PROVE y \in Stored
      <4>1. v.got = Append(h.got, y)
        BY <3>3, HearIs
      <4> HIDE DEF v, y, h
      <4>2. Append(h.got, y) \in Seq(Stored) /\ Len(h.got) \in Nat
        BY <1>1, <2>1, <3>2, <4>1
      <4>3. Append(h.got, y)[Len(h.got) + 1] = y /\ Len(Append(h.got, y)) = Len(h.got) + 1
        BY <2>1, AppendProperties
      <4>4. Len(h.got) + 1 \in 1..Len(Append(h.got, y))
        BY <4>2, <4>3
      <4>5. Append(h.got, y)[Len(h.got) + 1] \in Stored
        BY <4>2, <4>4
      <4> QED
        BY <4>3, <4>5
    <3> QED
      BY <3>3
  <2>7. Len(v.got) + Holds(v.slot) <= Len(h.got) + Holds(h.slot) + b
    BY <2>1, <2>6, HearGrows
  <2>8. Len(h.got) + Holds(h.slot) <= Count(SubSeq(out[s], 1, d))
    BY WireIs DEF Taken
  <2> DEFINE c == Count(SubSeq(out[s], 1, d))
             e == Count(SubSeq(out[s], 1, d + 1))
             i == Len(v.got) + Holds(v.slot)
             j == Len(h.got) + Holds(h.slot)
  <2>9. c \in Nat /\ b \in {0, 1} /\ j \in Nat
    <3>1. Holds(h.slot) \in {0, 1} /\ Len(h.got) \in Nat
      BY <2>1, HoldsTyped
    <3>2. c \in Nat
      BY <2>4, CountTyped
    <3> HIDE DEF c
    <3> QED
      BY <3>1, <3>2
  <2>10. i \in Nat
    <3>1. TypeInv'
      BY TypeDeliver
    <3>2. TypeOK'
      BY <3>1 DEF TypeInv
    <3>3. heard'[s].got \in Seq(Stored)
      BY <3>2 DEF TypeOK
    <3>4. Len(v.got) \in Nat
      <4> HIDE DEF v
      <4> QED
        BY <1>1, <3>3
    <3>5. Holds(v.slot) \in {0, 1}
      BY HoldsTyped
    <3> QED
      BY <3>4, <3>5
  <2>11. i <= j + b /\ j <= c /\ e = c + b
    BY <2>5, <2>7, <2>8
  <2>12. i <= e
    <3> HIDE DEF i, j, b, c, e
    <3> QED
      BY <2>9, <2>10, <2>11
  <2>13. Taken(s)' <=> Len(heard'[s].got) + Holds(heard'[s].slot)
                       <= Count(SubSeq(out'[s], 1, delivered'[s]))
    BY DEF Taken
  <2> HIDE DEF v, d
  <2> QED
    BY <1>1, <2>12, <2>13
<1>3. Taken(Other(s))'
  <2>1. Taken(Other(s))
    BY Sides, WireIs
  <2> QED
    BY <1>1, <2>1 DEF Taken
<1>4. \A a \in Side : Taken(a)'
  BY <1>2, <1>3, Sides
<1>5. Reading' /\ handler' # "crashed"
  BY <1>1 DEF Reading, Side
<1> QED
  BY <1>1, <1>4, <1>5, WireSame

LEMMA WireInit == Init => WireInv
<1> SUFFICES ASSUME Init PROVE WireInv
  OBVIOUS
<1>1. ASSUME NEW s \in Side PROVE SideKept(s) /\ LastOf(s) /\ Taken(s) /\ Flushed(s) = 0 /\ said[s] = <<>>
  <2>1. /\ said[s] = <<>> /\ sent[s] = <<>> /\ out[Other(s)] = <<>> /\ slot[s] = NoMessage
        /\ parsed[s] = 0
        /\ parser[s] = Fresh /\ heard[s] = Deaf /\ delivered[s] = 0 /\ out[s] = <<>>
    BY Sides DEF Init
  <2>2. Count(<<>>) = 0
    <3>1. <<>> \in Seq(Unit) /\ \A i \in DOMAIN <<>> : <<>>[i] \notin Starts
      OBVIOUS
    <3>2. Only(<<>>, Starts) = <<>>
      BY <3>1, OnlyNothing
    <3> QED
      BY <3>2 DEF Count
  <2>3. SubSeq(<<>>, 1, 0) = <<>>
    OBVIOUS
  <2>4. Len(<<>>) = 0
    OBVIOUS
  <2>5. Fresh.state = "start" /\ ~Fresh.last
    BY DEF Fresh
  <2>6. Deaf.got = <<>> /\ Deaf.slot = NoMessage
    BY DEF Deaf
  <2>7. Holds(NoMessage) = 0
    BY DEF Holds
  <2>8. Taken(s)
    <3>1. heard[s].got = <<>> /\ heard[s].slot = NoMessage
      BY <2>1, <2>6
    <3>2. Len(heard[s].got) + Holds(heard[s].slot) = 0
      BY <2>4, <2>7, <3>1
    <3>3. SubSeq(out[s], 1, delivered[s]) = <<>>
      BY <2>1, <2>3
    <3>4. Count(SubSeq(out[s], 1, delivered[s])) = 0
      BY <2>2, <3>3
    <3> QED
      BY <3>2, <3>4 DEF Taken
  <2>9. LastOf(s)
    BY <2>1, <2>5 DEF LastOf, Between
  <2>10. Flushed(s) = 0
    BY <2>1, <2>2 DEF Flushed
  <2>11. SidePart(0, Latest(s), Quiet(s), <<>>, 0, Fresh, NoMessage, <<>>)
    <3>1. Ahead(<<>>, 0 + 1) = 0
      BY DEF Ahead
    <3>2. Rest(<<>>, 0 + 1, Fresh, 0, Latest(s), Quiet(s))
      <4>1. Len(<<>>) = (0 + 1) - 1
        OBVIOUS
      <4> QED
        BY <2>5, <4>1, RestBetween
    <3>3. Shape(NoMessage, Fresh, 0, Latest(s), Quiet(s))
      BY <2>5, ShapeNone, StateNames
    <3>4. Held(NoMessage) = <<>>
      BY DEF Held, NoMessage
    <3>5. Content(<<>>) \o Content(<<>>) = Content(<<>>)
      <4>1. <<>> \o <<>> = <<>>
        OBVIOUS
      <4> QED
        BY <4>1, ContentEmpty
    <3>6. Count(<<>>) + Holds(NoMessage) + Ahead(<<>>, 0 + 1) = 0
      BY <2>2, <2>7, <3>1
    <3>7. Content(<<>>) \o Content(Held(NoMessage)) = Content(SubSeq(<<>>, 1, 0))
      BY <2>3, <3>4, <3>5
    <3> QED
      BY <3>2, <3>3, <3>6, <3>7 DEF SidePart
  <2>12. SideKept(s)
    BY <2>1, <2>4, <2>11, SideKeptIs
  <2> QED
    BY <2>1, <2>8, <2>9, <2>10, <2>12
<1>2. Reading /\ handler # "crashed"
  BY DEF Init, Reading, Side
<1>3. Len(said["down"]) <= Flushed("up") /\ Len(said["up"]) <= Flushed("down") + 1
  BY <1>1, Sides
<1> QED
  BY <1>1, <1>2, <1>3, WireIs

LEMMA WireStep ==
    ASSUME TypeInv, WireInv, [Next]_vars
    PROVE  WireInv'
<1>1. CASE UNCHANGED vars
  <2>1. /\ said' = said /\ sent' = sent /\ parsed' = parsed /\ parser' = parser /\ slot' = slot
        /\ client' = client /\ out' = out /\ delivered' = delivered /\ heard' = heard
        /\ handler' = handler /\ todo' = todo
    BY <1>1 DEF vars
  <2>2. \A a \in Side : Taken(a)'
    BY <2>1, TakenStays, WireIs
  <2>3. Reading' /\ handler' # "crashed"
    BY <2>1, WireIs DEF Reading
  <2> QED
    BY <2>1, <2>2, <2>3, WireSame
<1> QED
  BY <1>1, Steps1, WireRequest, WireRespond, WireCloses, WireConnected, WireReadCb, WireParse,
     WireReadDone, WireDeliver

LEMMA WireCorrect == Spec => [](TypeInv /\ WireInv)
<1>1. Init => TypeInv /\ WireInv
  BY TypeInit, WireInit
<1>2. TypeInv /\ WireInv /\ [Next]_vars => (TypeInv /\ WireInv)'
  BY TypeStep, WireStep
<1> QED
  BY <1>1, <1>2, PTL DEF Spec

\* The slot follows the parser.
LEMMA SlotFollows ==
    ASSUME TypeInv, WireInv
    PROVE  SlotFollowsParser
<1>1. ASSUME NEW s \in Side
      PROVE  /\ parser[s].state = "fields" => slot[s].stat = "HEADER"
             /\ parser[s].state \in BodyState \cup {"chunk_size", "chunk_end", "trailer"}
                  => slot[s].stat = "BODY"
             /\ parser[s].state \in Between => slot[s].stat \in {"INIT", "COMPLETE"}
  <2>1. ShapeOf(s)
    BY WireIs DEF SideKept
  <2>2. \A h : Headed(h).stat = "HEADER"
    BY DEF Headed
  <2>3. NoMessage.stat = "INIT"
    BY EmptyWith
  <2>4. parser[s].state = "fields" => slot[s].stat = "HEADER"
    BY <2>1, <2>2 DEF ShapeOf, Shape
  <2>5. parser[s].state \in BodyState \cup ChunkState => slot[s].stat = "BODY"
    BY <2>1 DEF ShapeOf, Shape
  <2>6. parser[s].state \in Between => slot[s].stat \in {"INIT", "COMPLETE"}
    BY <2>1, <2>3 DEF ShapeOf, Shape
  <2> QED
    BY <2>4, <2>5, <2>6, StateNames
<1> QED
  BY <1>1, WireIs DEF SlotFollowsParser

\* What a message carries is kept.
LEMMA Kept ==
    ASSUME TypeInv, WireInv
    PROVE  ContentKept
<1>1. ASSUME NEW s \in Side PROVE IsPrefix(Content(out[Other(s)]), Content(sent[s]))
  <2> DEFINE k == parsed[s]
             q == sent[s]
             o == out[Other(s)]
             a == SubSeq(q, 1, k)
             b == SubSeq(q, k + 1, Len(q))
             x == slot[s]
  <2>1. Content(o) \o Content(Held(x)) = Content(a)
    <3>1. Balance(s)
      BY WireIs DEF SideKept
    <3> QED
      BY <3>1 DEF Balance
  <2>2. q \in Seq(Unit) /\ o \in Seq(Unit) /\ k \in 0..Len(q) /\ Len(said[s]) \in Nat
        /\ x \in StoredTo(Len(said[s])) \cup {NoMessage}
    BY Typed, Sides
  <2>3. a \in Seq(Unit) /\ b \in Seq(Unit) /\ q = a \o b
    BY <2>2, Halves
  <2>4. Held(x) \in Seq(Unit)
    BY <2>2, PartsTyped, HeldContent
  <2> HIDE DEF a, b, q, o, k, x
  <2>5. Content(q) = Content(a) \o Content(b)
    BY <2>3, ContentConcat
  <2> DEFINE e == Content(o)
             f == Content(Held(x))
             g == Content(b)
  <2>6. e \in Seq(Unit) /\ f \in Seq(Unit) /\ g \in Seq(Unit)
    BY <2>2, <2>3, <2>4, ContentTyped
  <2>7. Content(q) = (e \o f) \o g
    BY <2>1, <2>5
  <2> HIDE DEF e, f, g
  <2>8. Content(q) = e \o (f \o g) /\ f \o g \in Seq(Unit)
    BY <2>6, <2>7, UnitsAssociate
  <2>9. IsPrefix(e, e \o (f \o g))
    BY <2>6, <2>8, PrefixConcat
  <2> QED
    BY <2>8, <2>9 DEF e, o, q
<1> QED
  BY <1>1 DEF ContentKept

\* The slot of a session follows its parser, and no read callback finds a null
\* pointer.
THEOREM SlotFollowsParserCorrect == Spec => []SlotFollowsParser
  BY WireCorrect, SlotFollows, PTL

\* What one peer has been written is the content of what the other has sent.
THEOREM ContentKeptCorrect == Spec => []ContentKept
  BY WireCorrect, Kept, PTL

(***************************************************************************)
(* What the far peer makes of a unit.                                      *)
(***************************************************************************)
LEMMA MessageIs ==
    ASSUME TypeInv, NEW s \in Side, NEW n \in 1..Len(said[s]), NEW u, u.of = n
    PROVE  /\ said[s][n] \in Message /\ MessageOf(s, u) = said[s][n] /\ n \in DOMAIN said[s]
           /\ Skips(Other(s), u) = Silent(s, n)
           /\ s = "up" => Silent(s, n) = FALSE
                          /\ (said[s][n].framing = "none" => BodyLength(said[s][n]) = 0)
           /\ s = "down" => (said[s][n].bare => Silent(s, n))
<1>1. TypeOK
  BY DEF TypeInv
<1>2. said[s] \in Seq(Message) /\ Len(said[s]) \in Nat
  BY <1>1, SaidMessages
<1>3. said[s][n] \in Message /\ n \in DOMAIN said[s] /\ n # 0
  BY <1>2
<1>4. MessageOf(s, u) = said[s][n]
  BY <1>3 DEF MessageOf
<1>5. CASE s = "up"
  <2>1. Silent(s, n) = FALSE /\ Skips(Other(s), u) = FALSE
    <3>1. Other(s) = "down"
      BY <1>5, Sides
    <3>2. Skips("down", u) = FALSE
      BY DEF Skips
    <3>3. Silent("up", n) = FALSE
      BY DEF Silent
    <3> QED
      BY <1>5, <3>1, <3>2, <3>3
  <2>2. said[s][n].framing = "none" => BodyLength(said[s][n]) = 0
    <3>1. said["up"] \in Seq(Requests) /\ n \in 1..Len(said["up"])
      BY <1>1, <1>5 DEF TypeOK
    <3>2. said["up"][n] \in Requests
      BY <3>1
    <3>3. said["up"][n].framing = "none" => said["up"][n].chunks = <<>>
      BY <3>2, WireAssumption
    <3> QED
      BY <1>5, <3>3, NoLength DEF BodyLength
  <2> QED
    BY <1>3, <1>4, <1>5, <2>1, <2>2
<1>6. CASE s = "down"
  <2>1. Skips("up", u) = Silent("down", n)
    <3>1. n \in DOMAIN said["down"]
      BY <1>3, <1>6
    <3>2. Silent("down", n) \in BOOLEAN /\ Skips("up", u) \in BOOLEAN
      BY SkipsTyped
    <3>3. Skips("up", u) <=> Silent("down", n)
      BY <3>1 DEF Skips
    <3> QED
      BY <3>2, <3>3
  <2>2. said["down"][n].bare => Silent("down", n)
    BY DEF Silent
  <2>3. Other(s) = "up"
    BY <1>6, Sides
  <2> QED
    BY <1>3, <1>4, <1>6, <2>1, <2>2, <2>3
<1> QED
  BY <1>5, <1>6, Sides

\* A line end between messages.
LEMMA HearIdle ==
    ASSUME NEW t, NEW h, NEW u, h.parser.state \in Between, h.slot = NoMessage, u.kind = "crlf"
    PROVE  Hear(t, h, u) = [parser |-> h.parser, slot |-> NoMessage, got |-> h.got]
<1>1. HeardParser(t, h, u) = h.parser
  BY ExecuteBetween DEF HeardParser
<1>2. Begun(h.slot, h.parser, HeardParser(t, h, u)) = NoMessage
  BY <1>1, StateNames DEF Begun
<1>3. HeardSlot(t, h, u) = NoMessage
  BY <1>2 DEF HeardSlot
<1>4. HeardSlot(t, h, u).stat # "COMPLETE"
  BY <1>3, EmptyWith
<1> QED
  BY <1>1, <1>3, <1>4, HearIs

\* The first unit of a message.
LEMMA HearBegin ==
    ASSUME TypeInv, NEW s \in Side, NEW n \in 1..Len(said[s]), NEW h,
           h.parser.state = "start", h.slot = NoMessage
    PROVE  Hear(Other(s), h, BeginOf(n))
             = [parser |-> [state |-> "fields", length |-> 0, last |-> said[s][n].last],
                slot |-> Headed(<<BeginOf(n)>>), got |-> h.got]
<1> DEFINE t == Other(s)
           u == BeginOf(n)
           r == HeardParser(t, h, u)
           y == HeardSlot(t, h, u)
<1>1. u.kind = "begin" /\ u.of = n
  BY DEF BeginOf, Piece
<1> HIDE DEF u
<1>2. MessageOf(s, u) = said[s][n] /\ Other(t) = s
  <2>1. MessageOf(s, u) = said[s][n]
    BY <1>1, MessageIs
  <2> QED
    BY <2>1, Sides
<1>3. r = [state |-> "fields", length |-> 0, last |-> said[s][n].last]
  BY <1>1, <1>2, ExecuteBetween DEF HeardParser
<1>4. r.state = "fields"
  BY <1>3
<1> HIDE DEF r
<1>5. Begun(h.slot, h.parser, r) = Empty
  BY <1>4 DEF Begun
<1>6. y = Noted(Empty, h.parser, u, r)
  BY <1>5, EmptyWith DEF HeardSlot, r
<1>7. y.stat = "HEADER" /\ y.head = Append(<<>>, u) /\ y.payload = <<>> /\ y.trailer = <<>>
  BY <1>4, <1>6, NotedHeader, EmptyWith
<1>8. y = Headed(<<u>>)
  <2>1. Append(<<>>, u) = <<u>>
    OBVIOUS
  <2>2. y = Headed(y.head)
    <3> HIDE DEF y
    <3> QED
      BY <1>6, <1>7, NotedHeaded
  <2> QED
    BY <1>7, <2>1, <2>2
<1>9. Hear(t, h, u) = [parser |-> r, slot |-> y, got |-> h.got]
  BY <1>7, HearIs DEF r
<1> QED
  BY <1>3, <1>8, <1>9 DEF u

\* A whole message of n with the first k bytes of its body.
Finished(n, k) == [stat |-> "COMPLETE", head |-> <<BeginOf(n), FieldsOf(n)>>,
                   payload |-> Bytes(n, 0, k), trailer |-> <<>>]

LEMMA NotedIs ==
    \A x, p, u, r : LET y == Noted(x, p, u, r)
                    IN  y = [stat |-> y.stat, head |-> y.head, payload |-> y.payload,
                             trailer |-> y.trailer]
  BY DEF Noted

\* The rest of its header.
LEMMA HearFields ==
    ASSUME TypeInv, NEW s \in Side, NEW n \in 1..Len(said[s]), NEW h, NEW r,
           h.parser.state = "fields", h.slot = Headed(<<BeginOf(n)>>),
           r = HeadersDone(h.parser, said[s][n], s = "up", Silent(s, n)), r.state # "error"
    PROVE  Hear(Other(s), h, FieldsOf(n))
             = IF r.state \in Between
               THEN [parser |-> r, slot |-> NoMessage, got |-> Append(h.got, Finished(n, 0))]
               ELSE [parser |-> r, slot |-> Bodied(n, 0), got |-> h.got]
<1> DEFINE t == Other(s)
           u == FieldsOf(n)
           x == h.slot
           y == HeardSlot(t, h, u)
<1>1. u.kind = "fields" /\ u.of = n
  BY DEF FieldsOf, Piece
<1> HIDE DEF u
<1>2. /\ MessageOf(s, u) = said[s][n] /\ Other(t) = s /\ Skips(t, u) = Silent(s, n)
      /\ (t = "down") = (s = "up")
  <2>1. MessageOf(s, u) = said[s][n] /\ Skips(t, u) = Silent(s, n)
    BY <1>1, MessageIs
  <2>2. Other(t) = s /\ (t = "down" <=> s = "up")
    BY Sides
  <2> QED
    BY <2>1, <2>2
<1>3. HeardParser(t, h, u) = r
  BY <1>1, <1>2, ExecuteFields DEF HeardParser
<1>4. /\ x.stat = "HEADER" /\ x.head = <<BeginOf(n)>> /\ x.payload = <<>> /\ x.trailer = <<>>
      /\ x # NoMessage
  BY EmptyWith DEF Headed
<1>5. Begun(h.slot, h.parser, r) = x
  BY DEF Begun
<1>6. y = Noted(x, h.parser, u, r)
  BY <1>3, <1>4, <1>5 DEF HeardSlot
<1> HIDE DEF x
<1>7. /\ y.stat = IF r.state \in Between THEN "COMPLETE" ELSE "BODY"
      /\ y.head = Append(<<BeginOf(n)>>, u) /\ y.payload = <<>> /\ y.trailer = <<>>
  <2> HIDE DEF y
  <2>1. /\ y.stat = IF r.state \in Between THEN "COMPLETE"
                    ELSE IF r.state # "error" THEN "BODY" ELSE x.stat
        /\ y.head = Append(x.head, u) /\ y.payload = x.payload /\ y.trailer = x.trailer
    BY <1>1, <1>6, NotedHeader
  <2> QED
    BY <1>4, <2>1
<1>8. y.head = <<BeginOf(n), u>> /\ Bytes(n, 0, 0) = <<>>
  BY <1>7, TwoParts, NoBytes
<1>9. y = [stat |-> y.stat, head |-> y.head, payload |-> y.payload, trailer |-> y.trailer]
  <2> HIDE DEF y
  <2> QED
    BY <1>6, NotedIs
<1> HIDE DEF y
<1>10. CASE r.state \in Between
  <2>1. y = Finished(n, 0)
    BY <1>7, <1>8, <1>9, <1>10 DEF Finished, u
  <2>2. Hear(t, h, u) = [parser |-> r, slot |-> NoMessage, got |-> Append(h.got, y)]
    BY <1>3, <1>7, <1>10, HearIs DEF y
  <2> QED
    BY <1>10, <2>1, <2>2 DEF u
<1>11. CASE r.state \notin Between
  <2>1. y = Bodied(n, 0)
    BY <1>7, <1>8, <1>9, <1>11 DEF Bodied, u
  <2>2. Hear(t, h, u) = [parser |-> r, slot |-> y, got |-> h.got]
    BY <1>3, <1>7, <1>11, HearIs DEF y
  <2> QED
    BY <1>11, <2>1, <2>2 DEF u
<1> QED
  BY <1>10, <1>11

\* What a unit changes: x is what there is of the message now, or m is received.
Holding(h, v, r, x) == v.parser = r /\ v.slot = x /\ v.got = h.got
Receiving(h, v, r, m) == v.parser = r /\ v.slot = NoMessage /\ v.got = Append(h.got, m)

\* A byte of its body.
LEMMA HearByte ==
    ASSUME NEW t, NEW n \in Nat, NEW k \in Nat, NEW j, j = k + 1, NEW h,
           h.parser.state = "identity", h.slot = Bodied(n, k), Identity(h.parser).state # "fields"
    PROVE  /\ Identity(h.parser).state \in Between =>
                Receiving(h, Hear(t, h, Piece("byte", n, j)), Identity(h.parser), Finished(n, j))
           /\ Identity(h.parser).state \notin Between =>
                Holding(h, Hear(t, h, Piece("byte", n, j)), Identity(h.parser), Bodied(n, j))
<1> DEFINE u == Piece("byte", n, j)
           x == h.slot
           y == HeardSlot(t, h, u)
           r == Identity(h.parser)
<1>1. HeardParser(t, h, u) = r
  BY ExecuteBody DEF HeardParser
<1>2. /\ x.stat = "BODY" /\ x.head = <<BeginOf(n), FieldsOf(n)>> /\ x.payload = Bytes(n, 0, k)
      /\ x.trailer = <<>> /\ x # NoMessage
  BY EmptyWith DEF Bodied
<1>3. Begun(h.slot, h.parser, r) = x
  BY DEF Begun
<1>4. y = Noted(x, h.parser, u, r)
  BY <1>1, <1>2, <1>3 DEF HeardSlot
<1>5. Append(Bytes(n, 0, k), u) = Bytes(n, 0, j)
  BY OneMoreByte
<1> HIDE DEF x, u, r
<1>6. /\ y.stat = IF r.state \in Between THEN "COMPLETE" ELSE "BODY"
      /\ y.head = <<BeginOf(n), FieldsOf(n)>> /\ y.payload = Bytes(n, 0, j) /\ y.trailer = <<>>
  <2> HIDE DEF y
  <2>1. h.parser.state \in BodyState /\ r.state # "fields"
    BY StateNames DEF r
  <2>2. /\ y.stat = IF r.state \in Between THEN "COMPLETE" ELSE x.stat
        /\ y.head = x.head /\ y.payload = Append(x.payload, u) /\ y.trailer = x.trailer
    BY <1>4, <2>1, NotedBody
  <2> QED
    BY <1>2, <1>5, <2>2
<1>7. y = [stat |-> y.stat, head |-> y.head, payload |-> y.payload, trailer |-> y.trailer]
  <2> HIDE DEF y
  <2> QED
    BY <1>4, NotedIs
<1> HIDE DEF y
<1>8. CASE r.state \in Between
  <2>1. y = Finished(n, j)
    BY <1>6, <1>7, <1>8 DEF Finished
  <2>2. Hear(t, h, u) = [parser |-> r, slot |-> NoMessage, got |-> Append(h.got, y)]
    BY <1>1, <1>6, <1>8, HearIs DEF y
  <2> QED
    BY <1>8, <2>1, <2>2 DEF u, r, Receiving
<1>9. CASE r.state \notin Between
  <2>1. y = Bodied(n, j)
    BY <1>6, <1>7, <1>9 DEF Bodied
  <2>2. Hear(t, h, u) = [parser |-> r, slot |-> y, got |-> h.got]
    BY <1>1, <1>6, <1>9, HearIs DEF y
  <2> QED
    BY <1>9, <2>1, <2>2 DEF u, r, Holding
<1> QED
  BY <1>8, <1>9 DEF r

\* Nothing has been heard of the next message.
LEMMA HearsNext ==
    ASSUME TypeInv, NEW s \in Side, NEW n \in 1..Len(said[s]), LastIsLast(s), NEW q, NEW D, NEW g,
           NEW r, r.state = IF r.last THEN "dead" ELSE "start", r.last \in BOOLEAN,
           r.last => said[s][n].last, Behind(q, D, n, g)
    PROVE  Hears(s, n + 1, q, D, g, r, NoMessage)
<1>1. Len(said[s]) \in Nat /\ n \in Nat /\ n \in DOMAIN said[s]
  <2>1. TypeOK
    BY DEF TypeInv
  <2> QED
    BY <2>1, SaidMessages
<1>2. (n + 1) - 1 = n
  BY <1>1
<1>3. r.state = "dead" => Len(said[s]) < n + 1 /\ ~Open(s)
  <2>1. ASSUME r.last PROVE Len(said[s]) < n + 1 /\ ~Open(s)
    <3>1. said[s][n].last
      BY <2>1
    <3>2. n = Len(said[s])
      BY <1>1, <3>1 DEF LastIsLast
    <3> QED
      BY <1>1, <3>1, <3>2 DEF Open
  <2> QED
    BY <2>1
<1>4. r.state = "start" => ~r.last
  OBVIOUS
<1>5. r.state \in {"start", "dead"}
  OBVIOUS
<1>6. Behind(q, D, (n + 1) - 1, g)
  BY <1>2
<1> QED
  BY <1>3, <1>4, <1>5, <1>6, StateNames DEF Hears

\* The message that has been received is the one that was sent.
LEMMA SameFinished ==
    ASSUME TypeInv, NEW s \in Side, NEW n \in 1..Len(said[s]), Unchunked(s, n),
           NEW k, k = IF Silent(s, n) THEN 0 ELSE BodyLength(said[s][n])
    PROVE  SameMessage(s, n, Finished(n, k))
<1>1. n \in DOMAIN said[s]
  <2>1. TypeOK
    BY DEF TypeInv
  <2> QED
    BY <2>1, SaidMessages
<1>2. /\ Finished(n, k).head = <<BeginOf(n), FieldsOf(n)>> /\ Finished(n, k).payload = Bytes(n, 0, k)
      /\ Finished(n, k).trailer = <<>>
  BY DEF Finished
<1>3. ~Silent(s, n) => BodyUnits(said[s][n], n) = Bytes(n, 0, BodyLength(said[s][n]))
  BY DEF Unchunked, BodyUnits
<1>4. Bytes(n, 0, k) = IF Silent(s, n) THEN <<>> ELSE BodyUnits(said[s][n], n)
  BY <1>3, NoBytes
<1> QED
  BY <1>1, <1>2, <1>4 DEF SameMessage, BeginOf, FieldsOf

\* The unit behind a message.
LEMMA BehindNext ==
    ASSUME NEW q \in Seq(Unit), NEW D \in Nat, D < Len(q), NEW n \in Nat \ {0}, NEW g,
           Behind(q, D, n - 1, g)
    PROVE  \/ q[D + 1] = LineEnd /\ Behind(q, D + 1, n - 1, g)
           \/ q[D + 1] = BeginOf(n)
<1>1. CASE EndAt(q, D, n - 1, g)
  <2>1. (n - 1) + 1 = n /\ D # Len(q)
    OBVIOUS
  <2>2. q[D + 1] = BeginOf((n - 1) + 1)
    BY <1>1, <2>1 DEF EndAt
  <2> QED
    BY <2>1, <2>2
<1>2. CASE D < Len(q) /\ q[D + 1] = LineEnd /\ EndAt(q, D + 1, n - 1, g)
  BY <1>2 DEF Behind
<1> QED
  BY <1>1, <1>2 DEF Behind

\* A message begins where the last one has ended, or its line end is passed over.
LEMMA HearsBetween ==
    ASSUME TypeInv, NEW s \in Side, NEW n \in Nat \ {0}, NEW q \in Seq(Unit), NEW D \in Nat,
           D < Len(q), NEW g \in Nat, g <= Len(said[s]), Laid(s, q, g), NEW h,
           h.parser.state \in Between, Hears(s, n, q, D, g, h.parser, h.slot)
    PROVE  /\ Hear(Other(s), h, q[D + 1]).got = h.got
           /\ Hears(s, n, q, D + 1, g, Hear(Other(s), h, q[D + 1]).parser,
                    Hear(Other(s), h, q[D + 1]).slot)
<1> DEFINE p == h.parser
           v == Hear(Other(s), h, q[D + 1])
<1>1. /\ h.slot = NoMessage /\ Behind(q, D, n - 1, g)
      /\ p.state = "start" => ~p.last
      /\ p.state = "dead" => Len(said[s]) < n /\ ~Open(s)
  BY DEF Hears
<1>2. CASE q[D + 1] = LineEnd /\ Behind(q, D + 1, n - 1, g)
  <2>1. q[D + 1].kind = "crlf"
    BY <1>2 DEF LineEnd, Piece
  <2>2. v = [parser |-> p, slot |-> NoMessage, got |-> h.got]
    BY <1>1, <2>1, HearIdle
  <2>3. Hears(s, n, q, D + 1, g, p, NoMessage)
    BY <1>1, <1>2, StateNames DEF Hears
  <2> HIDE DEF p
  <2> QED
    BY <2>2, <2>3
<1>3. CASE q[D + 1] = BeginOf(n)
  <2>1. D + 1 \in DOMAIN q /\ q[D + 1].kind = "begin" /\ q[D + 1].of = n
    <3>1. D + 1 \in 1..Len(q)
      OBVIOUS
    <3> QED
      BY <1>3, <3>1 DEF BeginOf, Piece
  <2>2. n \in 1..g
    BY <2>1 DEF Laid, Stands
  <2>3. Len(said[s]) \in Nat /\ n \in 1..Len(said[s]) /\ n \in DOMAIN said[s]
    <3>1. TypeOK
      BY DEF TypeInv
    <3>2. said[s] \in Seq(Message) /\ Len(said[s]) \in Nat
      BY <3>1, SaidMessages
    <3> QED
      BY <2>2, <3>2
  <2>4. p.state = "start"
    BY <1>1, <2>3, StateNames
  <2> DEFINE r == [state |-> "fields", length |-> 0, last |-> said[s][n].last]
  <2>5. v = [parser |-> r, slot |-> Headed(<<BeginOf(n)>>), got |-> h.got]
    BY <1>1, <1>3, <2>3, <2>4, HearBegin
  <2>6. r.state = "fields" /\ (r.last => said[s][n].last)
    OBVIOUS
  <2> HIDE DEF r
  <2>7. D + 1 > 0
    OBVIOUS
  <2>8. Hears(s, n, q, D + 1, g, r, Headed(<<BeginOf(n)>>))
    BY <1>3, <2>3, <2>6, <2>7, StateNames DEF Hears
  <2> QED
    BY <2>5, <2>8
<1> QED
  BY <1>1, <1>2, <1>3, BehindNext

\* The message is received.
Gets(s, n, q, D, g, h, v) ==
    \E y : v.got = Append(h.got, y) /\ SameMessage(s, n, y)
           /\ Hears(s, n + 1, q, D, g, v.parser, v.slot)

LEMMA HearsFields ==
    ASSUME TypeInv, NEW s \in Side, NEW n \in Nat \ {0}, NEW q \in Seq(Unit), NEW D \in Nat,
           D < Len(q), NEW g \in Nat, g <= Len(said[s]), Laid(s, q, g), LastIsLast(s), Clean(s, n),
           NEW h, h.parser \in Parser, h.parser.state = "fields",
           Hears(s, n, q, D, g, h.parser, h.slot)
    PROVE  \/ /\ Hear(Other(s), h, q[D + 1]).got = h.got
              /\ Hears(s, n, q, D + 1, g, Hear(Other(s), h, q[D + 1]).parser,
                       Hear(Other(s), h, q[D + 1]).slot)
           \/ Gets(s, n, q, D + 1, g, h, Hear(Other(s), h, q[D + 1]))
<1> DEFINE p == h.parser
           v == Hear(Other(s), h, q[D + 1])
           m == said[s][n]
           L == Bod(s, n)
           r == HeadersDone(p, m, s = "up", Silent(s, n))
<1>1. /\ n \in DOMAIN said[s] /\ (p.last => m.last)
      /\ D > 0 /\ q[D] = BeginOf(n) /\ h.slot = Headed(<<BeginOf(n)>>)
  BY StateNames DEF Hears
<1>2. Len(said[s]) \in Nat /\ n \in 1..Len(said[s]) /\ m \in Message
  <2>1. TypeOK
    BY DEF TypeInv
  <2>2. said[s] \in Seq(Message) /\ Len(said[s]) \in Nat
    BY <2>1, SaidMessages
  <2> QED
    BY <1>1, <2>2
<1>3. /\ D < Len(q) /\ q[D + 1] = FieldsOf(n)
      /\ \A c \in 1..L : q[D + 1 + c] = Piece("byte", n, c)
      /\ L = 0 => EndAt(q, D + 1, n, g)
      /\ L # 0 => D + L + 2 <= Len(q) /\ q[D + L + 2] = LineEnd /\ EndAt(q, D + L + 2, n, g)
      /\ Delimited(s, n)
  <2>1. D \in DOMAIN q /\ q[D].kind = "begin" /\ q[D].of = n
    <3>1. D \in 1..Len(q)
      BY <1>1
    <3> QED
      BY <1>1, <3>1 DEF BeginOf, Piece
  <2>2. Stands(s, q, D, n, g)
    BY <2>1 DEF Laid
  <2>3. LaidAt(q, D, n, L, g) /\ Delimited(s, n)
    BY <2>2 DEF Stands
  <2> QED
    BY <2>3 DEF LaidAt
<1>4. Unchunked(s, n) /\ m.framing \in {"none", "length"}
  <2>1. Unchunked(s, n)
    <3>1. n \in 1..n
      OBVIOUS
    <3> QED
      BY <1>1, <3>1 DEF Clean
  <2> QED
    BY <2>1 DEF Unchunked
<1>5. /\ s = "up" => Silent(s, n) = FALSE /\ (m.framing = "none" => BodyLength(m) = 0)
      /\ s = "down" => (m.bare => Silent(s, n))
  <2>1. FieldsOf(n).of = n
    BY DEF FieldsOf, Piece
  <2> QED
    BY <1>2, <2>1, MessageIs
<1>6. BodyLength(m) \in Nat /\ Silent(s, n) \in BOOLEAN
  BY <1>2, LengthTyped, SkipsTyped
<1>7. L = IF Silent(s, n) THEN 0 ELSE BodyLength(m)
  BY DEF Bod
<1>8. (L = 0 /\ r = NewMessage(p)) \/ (L # 0 /\ ~Silent(s, n) /\ m.framing = "length" /\ r = Expecting(p, "identity", L))
  <2>1. CASE Silent(s, n)
    BY <1>4, <1>7, <2>1 DEF HeadersDone
  <2>2. CASE ~Silent(s, n) /\ m.framing = "length"
    BY <1>7, <2>2 DEF HeadersDone
  <2>3. CASE ~Silent(s, n) /\ m.framing = "none"
    <3>1. s = "up"
      BY <1>3, <2>3 DEF Delimited
    <3>2. r = NewMessage(p)
      BY <2>3, <3>1 DEF HeadersDone
    <3> QED
      BY <1>5, <1>7, <2>3, <3>1, <3>2
  <2> QED
    BY <1>4, <2>1, <2>2, <2>3
<1> HIDE DEF r, L, m
<1>9. CASE L = 0 /\ r = NewMessage(p)
  <2>1. /\ r.state = (IF r.last THEN "dead" ELSE "start") /\ r.last = p.last /\ r \in Parser
        /\ r.last \in BOOLEAN
    <3>1. r \in Parser /\ r.last = p.last /\ r.state = IF p.last THEN "dead" ELSE "start"
      BY <1>9, ParserNew
    <3> QED
      BY <3>1 DEF Parser
  <2>2. r.state \in Between /\ r.state # "error"
    BY <2>1, StateNames
  <2>3. v = [parser |-> r, slot |-> NoMessage, got |-> Append(h.got, Finished(n, 0))]
    BY <1>1, <1>2, <1>3, <2>2, HearFields DEF r, m
  <2>4. Behind(q, D + 1, n, g)
    BY <1>3, <1>9 DEF Behind
  <2>5. Hears(s, n + 1, q, D + 1, g, r, NoMessage)
    BY <1>1, <1>2, <2>1, <2>4, HearsNext DEF m
  <2>6. SameMessage(s, n, Finished(n, 0))
    BY <1>2, <1>4, <1>7, <1>9, SameFinished DEF m
  <2>7. v.got = Append(h.got, Finished(n, 0)) /\ v.parser = r /\ v.slot = NoMessage
    BY <2>3
  <2> HIDE DEF v
  <2>8. Gets(s, n, q, D + 1, g, h, v)
    BY <2>5, <2>6, <2>7 DEF Gets
  <2> QED
    BY <2>8 DEF v
<1>10. CASE L # 0 /\ ~Silent(s, n) /\ m.framing = "length" /\ r = Expecting(p, "identity", L)
  <2>1. L \in Nat /\ L = BodyLength(m)
    BY <1>6, <1>7, <1>10
  <2>2. r \in Parser /\ r.last = p.last /\ r.state = "identity" /\ r.length = L
    BY <1>10, <2>1, ToIdentity
  <2>3. r.state \notin Between /\ r.state # "error"
    BY <2>2, StateNames
  <2>4. v = [parser |-> r, slot |-> Bodied(n, 0), got |-> h.got]
    BY <1>1, <1>2, <1>3, <2>3, HearFields DEF r, m
  <2>5. L - L = 0 /\ L \in 1..L
    BY <1>10, <2>1
  <2>6. Comes(q, D + 1, n, g, L, L)
    <3>1. \A c \in 1..L : q[D + 1 + c] = Piece("byte", n, L - L + c)
      <4>1. ASSUME NEW c \in 1..L PROVE q[D + 1 + c] = Piece("byte", n, L - L + c)
        <5>1. L - L + c = c
          BY <2>1
        <5> QED
          BY <1>3, <5>1
      <4> QED
        BY <4>1
    <3>2. /\ D + L + 2 <= Len(q) /\ q[D + L + 2] = LineEnd /\ EndAt(q, D + L + 2, n, g)
      BY <1>3, <1>10
    <3>3. (D + 1) + L + 1 = D + L + 2 /\ (D + 1) + L < Len(q)
      BY <2>1, <3>2
    <3> QED
      BY <3>1, <3>2, <3>3 DEF Comes
  <2>7. Hears(s, n, q, D + 1, g, r, Bodied(n, 0))
    <3>1. r.last => said[s][n].last
      BY <1>1, <2>2 DEF m
    <3>2. said[s][n].framing = "length" /\ BodyLength(said[s][n]) = L
      BY <1>10, <2>1 DEF m
    <3> QED
      BY <1>1, <1>10, <2>2, <2>5, <2>6, <3>1, <3>2, StateNames DEF Hears
  <2>8. v.got = h.got /\ v.parser = r /\ v.slot = Bodied(n, 0)
    BY <2>4
  <2> HIDE DEF v
  <2>9. v.got = h.got /\ Hears(s, n, q, D + 1, g, v.parser, v.slot)
    BY <2>7, <2>8
  <2> QED
    BY <2>9 DEF v
<1> QED
  BY <1>8, <1>9, <1>10

LEMMA HearsByte ==
    ASSUME TypeInv, NEW s \in Side, NEW n \in Nat \ {0}, NEW q \in Seq(Unit), NEW D \in Nat,
           D < Len(q), NEW g, LastIsLast(s), Clean(s, n),
           NEW h, h.parser \in Parser, h.parser.state = "identity",
           Hears(s, n, q, D, g, h.parser, h.slot)
    PROVE  \/ /\ Hear(Other(s), h, q[D + 1]).got = h.got
              /\ Hears(s, n, q, D + 1, g, Hear(Other(s), h, q[D + 1]).parser,
                       Hear(Other(s), h, q[D + 1]).slot)
           \/ Gets(s, n, q, D + 1, g, h, Hear(Other(s), h, q[D + 1]))
<1> DEFINE p == h.parser
           v == Hear(Other(s), h, q[D + 1])
           m == said[s][n]
           B == BodyLength(m)
           l == p.length
           k == B - l
           r == Identity(p)
<1>1. /\ n \in DOMAIN said[s] /\ (p.last => m.last)
      /\ ~Silent(s, n) /\ m.framing = "length" /\ l \in 1..B
      /\ h.slot = Bodied(n, k) /\ Comes(q, D, n, g, B, l)
  BY StateNames DEF Hears
<1>2. Len(said[s]) \in Nat /\ n \in 1..Len(said[s]) /\ m \in Message
  <2>1. TypeOK
    BY DEF TypeInv
  <2>2. said[s] \in Seq(Message) /\ Len(said[s]) \in Nat
    BY <2>1, SaidMessages
  <2> QED
    BY <1>1, <2>2
<1>3. B \in Nat
  BY <1>2, LengthTyped
<1>4. /\ \A c \in 1..l : q[D + c] = Piece("byte", n, B - l + c)
      /\ D + l < Len(q) /\ q[D + l + 1] = LineEnd /\ EndAt(q, D + l + 1, n, g)
  BY <1>1 DEF Comes
<1>5. /\ r \in Parser /\ r.last = p.last
      /\ l = 1 => r.state = IF p.last THEN "dead" ELSE "start"
      /\ l # 1 => r.state = p.state /\ r.length = l - 1
  <2>1. p.length > 0
    BY <1>1, <1>3
  <2> QED
    BY <2>1, ByteTyped
<1> HIDE DEF r, B, m, l
<1>6. k \in Nat /\ 1 \in 1..l /\ l \in Nat /\ k + 1 = B - (l - 1)
  BY <1>1, <1>3
<1>7. q[D + 1] = Piece("byte", n, k + 1)
  BY <1>4, <1>6
<1>8. r.state # "fields"
  BY <1>5
<1>9. /\ r.state \in Between => Receiving(h, v, r, Finished(n, k + 1))
      /\ r.state \notin Between => Holding(h, v, r, Bodied(n, k + 1))
  <2> HIDE DEF k
  <2> DEFINE j == k + 1
  <2>1. /\ k \in Nat /\ h.slot = Bodied(n, k) /\ n \in Nat /\ j = k + 1
        /\ r = Identity(h.parser) /\ r.state # "fields"
    BY <1>1, <1>6, <1>8 DEF r
  <2> HIDE DEF j
  <2>2. /\ r.state \in Between =>
             Receiving(h, Hear(Other(s), h, Piece("byte", n, j)), r, Finished(n, j))
        /\ r.state \notin Between =>
             Holding(h, Hear(Other(s), h, Piece("byte", n, j)), r, Bodied(n, j))
    BY <2>1, HearByte
  <2> QED
    BY <1>7, <2>1, <2>2
<1>10. CASE l = 1
  <2>1. r.state = (IF r.last THEN "dead" ELSE "start") /\ r.last \in BOOLEAN
    BY <1>5, <1>10 DEF Parser
  <2>2. r.state \in Between
    BY <2>1, StateNames
  <2>3. v.got = Append(h.got, Finished(n, B)) /\ v.parser = r /\ v.slot = NoMessage
    <3>1. k + 1 = B
      BY <1>3, <1>6, <1>10
    <3> HIDE DEF k, v
    <3> QED
      BY <1>9, <2>2, <3>1 DEF Receiving
  <2>4. Behind(q, D + 1, n, g)
    <3>1. D + 1 < Len(q) /\ q[D + 1 + 1] = LineEnd /\ EndAt(q, D + 1 + 1, n, g)
      BY <1>4, <1>10
    <3> QED
      BY <3>1 DEF Behind
  <2>5. Hears(s, n + 1, q, D + 1, g, r, NoMessage)
    <3>1. r.last => said[s][n].last
      BY <1>1, <1>5 DEF m
    <3> QED
      BY <1>2, <2>1, <2>4, <3>1, HearsNext
  <2>6. SameMessage(s, n, Finished(n, B))
    <3>1. Unchunked(s, n)
      BY <1>1 DEF Unchunked, m
    <3> QED
      BY <1>1, <1>2, <3>1, SameFinished DEF B, m
  <2> HIDE DEF v
  <2>7. Gets(s, n, q, D + 1, g, h, v)
    BY <2>3, <2>5, <2>6 DEF Gets
  <2> QED
    BY <2>7 DEF v
<1>11. CASE l # 1
  <2>1. r.state = "identity" /\ r.length = l - 1
    BY <1>5, <1>11
  <2>2. r.state \notin Between
    BY <2>1, StateNames
  <2> DEFINE j == l - 1
  <2>3. j \in 1..B /\ k + 1 = B - j /\ r.length = j /\ l = j + 1 /\ j \in Nat
    BY <1>1, <1>3, <1>6, <1>11, <2>1
  <2> HIDE DEF j
  <2>4. v.got = h.got /\ v.parser = r /\ v.slot = Bodied(n, B - j)
    <3> HIDE DEF k, v
    <3> QED
      BY <1>9, <2>2, <2>3 DEF Holding
  <2>5. Comes(q, D + 1, n, g, B, j)
    <3>1. \A c \in 1..j : q[D + 1 + c] = Piece("byte", n, B - j + c)
      <4>1. ASSUME NEW c \in 1..j PROVE q[D + 1 + c] = Piece("byte", n, B - j + c)
        <5> DEFINE e == c + 1
        <5>1. e \in 1..l /\ D + 1 + c = D + e /\ B - l + e = B - j + c
          BY <1>3, <2>3
        <5> HIDE DEF e
        <5>2. q[D + e] = Piece("byte", n, B - l + e)
          BY <1>4, <5>1
        <5> QED
          BY <5>1, <5>2
      <4> QED
        BY <4>1
    <3>2. D + 1 + j = D + l /\ D + 1 + j + 1 = D + l + 1
      BY <2>3
    <3> QED
      BY <1>4, <3>1, <3>2 DEF Comes
  <2>6. Hears(s, n, q, D + 1, g, r, Bodied(n, B - j))
    <3>1. r.last => said[s][n].last
      BY <1>1, <1>5 DEF m
    <3>2. said[s][n].framing = "length" /\ BodyLength(said[s][n]) = B
      BY <1>1 DEF m, B
    <3> QED
      BY <1>1, <2>1, <2>3, <2>5, <3>1, <3>2, StateNames DEF Hears
  <2> HIDE DEF v
  <2>7. v.got = h.got /\ Hears(s, n, q, D + 1, g, v.parser, v.slot)
    BY <2>4, <2>6
  <2> QED
    BY <2>7 DEF v
<1> QED
  BY <1>10, <1>11

LEMMA CleanBefore ==
    ASSUME NEW s, NEW n \in Nat, NEW k \in Nat, n <= k, Clean(s, k)
    PROVE  Clean(s, n)
  BY DEF Clean

\* The far peer hears one unit more.
LEMMA ListensOn ==
    ASSUME TypeInv, NEW s \in Side, NEW q \in Seq(Unit), NEW D \in Nat, D < Len(q),
           NEW g \in Nat, g <= Len(said[s]), Laid(s, q, g), LastIsLast(s),
           NEW h, h.parser \in Parser, h.got \in Seq(Stored),
           Hear(Other(s), h, q[D + 1]).got \in Seq(Stored),
           \/ Hear(Other(s), h, q[D + 1]).got = h.got
           \/ \E y : Hear(Other(s), h, q[D + 1]).got = Append(h.got, y),
           Listens(s, q, D, g, h)
    PROVE  Listens(s, q, D + 1, g, Hear(Other(s), h, q[D + 1]))
<1> DEFINE n == Len(h.got) + 1
           v == Hear(Other(s), h, q[D + 1])
<1>1. n \in Nat \ {0} /\ Len(h.got) \in Nat /\ n - 1 = Len(h.got) /\ DOMAIN h.got = 1..Len(h.got)
  OBVIOUS
<1>2. \A e \in DOMAIN h.got : Clean(s, e) => SameMessage(s, e, h.got[e])
  BY DEF Listens, Received
<1> HIDE DEF v
<1>3. CASE Clean(s, n)
  <2>1. Hears(s, n, q, D, g, h.parser, h.slot)
    BY <1>3 DEF Listens
  <2>2. h.parser.state \in {"start", "dead", "fields", "identity"}
    BY <2>1 DEF Hears
  <2> HIDE DEF n
  <2>3. \/ v.got = h.got /\ Hears(s, n, q, D + 1, g, v.parser, v.slot)
        \/ Gets(s, n, q, D + 1, g, h, v)
    <3>1. CASE h.parser.state \in Between
      BY <1>1, <2>1, <3>1, HearsBetween DEF v
    <3>2. CASE h.parser.state = "fields"
      BY <1>1, <1>3, <2>1, <3>2, HearsFields DEF v
    <3>3. CASE h.parser.state = "identity"
      BY <1>1, <1>3, <2>1, <3>3, HearsByte DEF v
    <3> QED
      BY <2>2, <3>1, <3>2, <3>3, StateNames
  <2>4. CASE v.got = h.got /\ Hears(s, n, q, D + 1, g, v.parser, v.slot)
    <3>1. Len(v.got) + 1 = n
      BY <2>4 DEF n
    <3>2. Received(s, v.got)
      BY <1>2, <2>4 DEF Received
    <3>3. Hears(s, Len(v.got) + 1, q, D + 1, g, v.parser, v.slot)
      BY <2>4, <3>1
    <3> QED
      BY <3>2, <3>3 DEF Listens, v
  <2>5. CASE Gets(s, n, q, D + 1, g, h, v)
    <3>1. PICK y : v.got = Append(h.got, y) /\ SameMessage(s, n, y)
                   /\ Hears(s, n + 1, q, D + 1, g, v.parser, v.slot)
      BY <2>5 DEF Gets
    <3>2. /\ Len(v.got) = n /\ DOMAIN v.got = 1..n /\ v.got[n] = y
          /\ \A e \in DOMAIN h.got : v.got[e] = h.got[e]
      <4>1. v.got \in Seq(Stored) /\ v.got = Append(h.got, y)
        BY <3>1 DEF v
      <4>2. /\ Len(Append(h.got, y)) = Len(h.got) + 1
            /\ \A e \in 1..Len(h.got) : Append(h.got, y)[e] = h.got[e]
            /\ Append(h.got, y)[Len(h.got) + 1] = y
        OBVIOUS
      <4>3. DOMAIN v.got = 1..Len(v.got)
        BY <4>1
      <4> QED
        BY <1>1, <4>1, <4>2, <4>3 DEF n
    <3>3. Received(s, v.got)
      <4>1. ASSUME NEW e \in DOMAIN v.got, Clean(s, e) PROVE SameMessage(s, e, v.got[e])
        <5>1. e = n \/ e \in DOMAIN h.got
          BY <1>1, <3>2
        <5> QED
          BY <1>2, <3>1, <3>2, <4>1, <5>1
      <4> QED
        BY <4>1 DEF Received
    <3>4. Hears(s, Len(v.got) + 1, q, D + 1, g, v.parser, v.slot)
      BY <3>1, <3>2
    <3> QED
      BY <3>3, <3>4 DEF Listens, v
  <2> QED
    BY <2>3, <2>4, <2>5
<1>4. CASE ~Clean(s, n)
  <2>1. Len(v.got) \in Nat /\ DOMAIN v.got = 1..Len(v.got)
    <3>1. v.got \in Seq(Stored)
      BY DEF v
    <3> QED
      BY <3>1
  <2>2. Len(v.got) >= Len(h.got) /\ \A e \in DOMAIN h.got : v.got[e] = h.got[e]
    <3>1. CASE v.got = h.got
      BY <1>1, <3>1
    <3>2. CASE \E y : v.got = Append(h.got, y)
      <4>1. PICK y : v.got = Append(h.got, y)
        BY <3>2
      <4>2. /\ Len(Append(h.got, y)) = Len(h.got) + 1
            /\ \A e \in 1..Len(h.got) : Append(h.got, y)[e] = h.got[e]
        OBVIOUS
      <4> QED
        BY <1>1, <4>1, <4>2
    <3> QED
      BY <3>1, <3>2 DEF v
  <2>3. ASSUME NEW e \in Nat, Clean(s, e) PROVE e <= Len(h.got)
    <3>1. ~(n <= e)
      BY <1>1, <1>4, <2>3, CleanBefore
    <3> QED
      BY <1>1, <3>1
  <2>4. ~Clean(s, Len(v.got) + 1)
    <3>1. Len(v.got) + 1 \in Nat /\ ~(Len(v.got) + 1 <= Len(h.got))
      BY <1>1, <2>1, <2>2
    <3> QED
      BY <2>3, <3>1
  <2>5. Received(s, v.got)
    <3>1. ASSUME NEW e \in DOMAIN v.got, Clean(s, e) PROVE SameMessage(s, e, v.got[e])
      <4>1. e \in DOMAIN h.got
        BY <1>1, <2>1, <2>3, <3>1
      <4> QED
        BY <1>2, <2>2, <3>1, <4>1
    <3> QED
      BY <3>1 DEF Received
  <2> QED
    BY <2>4, <2>5 DEF Listens, v
<1> QED
  BY <1>3, <1>4

LEMMA FarIs ==
    ASSUME NEW s, Far(s), NEW q, NEW D, NEW h,
           q = out[Other(s)], D = delivered[Other(s)], h = heard[Other(s)]
    PROVE  Laid(s, q, Count(q)) /\ Listens(s, q, D, Count(q), h)
  BY DEF Far

LEMMA FarThen ==
    ASSUME NEW s, NEW q, NEW D, NEW h,
           q = out'[Other(s)], D = delivered'[Other(s)], h = heard'[Other(s)],
           Laid(s, q, Count(q))', Listens(s, q, D, Count(q), h)'
    PROVE  Far(s)'
  BY DEF Far

\* A step that says nothing.
LEMMA SaidSame ==
    ASSUME NEW s, said' = said
    PROVE  \A n : /\ Silent(s, n)' = Silent(s, n) /\ Unchunked(s, n)' = Unchunked(s, n)
                  /\ (Clean(s, n)' <=> Clean(s, n)) /\ Bod(s, n)' = Bod(s, n)
                  /\ (Delimited(s, n)' <=> Delimited(s, n)) /\ (Open(s)' <=> Open(s))
<1>1. \A n : Silent(s, n)' = Silent(s, n)
  BY DEF Silent
<1>2. \A n : Unchunked(s, n)' = Unchunked(s, n)
  BY DEF Unchunked
<1>3. \A n : Clean(s, n)' <=> Clean(s, n)
  BY <1>2 DEF Clean
<1>4. \A n : Bod(s, n)' = Bod(s, n)
  BY <1>1 DEF Bod
<1>5. \A n : Delimited(s, n)' <=> Delimited(s, n)
  BY <1>1 DEF Delimited
<1>6. Open(s)' <=> Open(s)
  BY DEF Open
<1> QED
  BY <1>1, <1>2, <1>3, <1>4, <1>5, <1>6

LEMMA LaidSame ==
    ASSUME NEW s, said' = said, NEW q, NEW g, Laid(s, q, g)
    PROVE  Laid(s, q, g)'
<1>1. ASSUME NEW i, NEW n, Stands(s, q, i, n, g) PROVE Stands(s, q, i, n, g)'
  <2>1. /\ Clean(s, n)' <=> Clean(s, n)
        /\ Bod(s, n)' = Bod(s, n) /\ (Delimited(s, n)' <=> Delimited(s, n))
    BY SaidSame
  <2> QED
    BY <1>1, <2>1 DEF Stands
<1> QED
  BY <1>1 DEF Laid

LEMMA ListensSame ==
    ASSUME NEW s, said' = said, NEW q, NEW D, NEW g, NEW h, Listens(s, q, D, g, h)
    PROVE  Listens(s, q, D, g, h)'
<1>1. ASSUME NEW n, NEW p, NEW x, Hears(s, n, q, D, g, p, x) PROVE Hears(s, n, q, D, g, p, x)'
  <2>1. Silent(s, n)' = Silent(s, n) /\ (Open(s)' <=> Open(s))
    BY SaidSame
  <2> QED
    BY <1>1, <2>1 DEF Hears
<1>2. ASSUME NEW n, NEW y, SameMessage(s, n, y) PROVE SameMessage(s, n, y)'
  <2>1. Silent(s, n)' = Silent(s, n)
    BY SaidSame
  <2> QED
    BY <1>2, <2>1 DEF SameMessage
<1>3. \A n : Clean(s, n)' <=> Clean(s, n)
  BY SaidSame
<1>4. Received(s, h.got)'
  <2>1. \A n \in DOMAIN h.got : Clean(s, n) => SameMessage(s, n, h.got[n])
    BY DEF Listens, Received
  <2>2. ASSUME NEW n \in DOMAIN h.got, Clean(s, n)' PROVE SameMessage(s, n, h.got[n])'
    BY <1>2, <1>3, <2>1, <2>2
  <2> QED
    BY <2>2 DEF Received
<1>5. Clean(s, Len(h.got) + 1)' => Hears(s, Len(h.got) + 1, q, D, g, h.parser, h.slot)'
  BY <1>1, <1>3 DEF Listens
<1> QED
  BY <1>4, <1>5 DEF Listens

\* A step of which the far peer of s sees nothing.
LEMMA FarStays ==
    ASSUME NEW s, Far(s), said' = said, out'[Other(s)] = out[Other(s)],
           delivered'[Other(s)] = delivered[Other(s)], heard'[Other(s)] = heard[Other(s)]
    PROVE  Far(s)'
<1> DEFINE q == out[Other(s)]
           D == delivered[Other(s)]
           h == heard[Other(s)]
<1>1. PICK a, b, c : a = q /\ b = D /\ c = h
  OBVIOUS
<1>2. Laid(s, a, Count(a)) /\ Listens(s, a, b, Count(a), c)
  BY <1>1, FarIs
<1>3. Laid(s, a, Count(a))' /\ Listens(s, a, b, Count(a), c)'
  BY <1>2, LaidSame, ListensSame
<1> QED
  BY <1>1, <1>3, FarThen

LEMMA LastStays ==
    ASSUME NEW s, LastIsLast(s), said' = said
    PROVE  LastIsLast(s)'
  BY DEF LastIsLast

LEMMA FinishesStays ==
    ASSUME NEW s, Finishes(s), said' = said, slot'[s] = slot[s] \/ slot'[s] = NoMessage
    PROVE  Finishes(s)'
<1>1. Quiet(s)' = Quiet(s) /\ Latest(s)' = Latest(s)
  BY DEF Quiet, Silent, Latest
<1> QED
  BY <1>1, EmptyWith DEF Finishes

LEMMA FarDeliver ==
    ASSUME TypeInv, WireInv, FarInv, NEW t \in Side, Deliver(t)
    PROVE  FarInv'
<1> DEFINE s == Other(t)
<1>1. /\ delivered[t] < Len(out[t])
      /\ delivered'[t] = delivered[t] + 1 /\ delivered'[s] = delivered[s]
      /\ heard'[t] = Hear(t, heard[t], out[t][delivered[t] + 1])
      /\ heard'[s] = heard[s]
      /\ said' = said /\ slot' = slot /\ out' = out
  BY DeliverIs
<1>2. s \in Side /\ Other(s) = t
  BY Sides
<1>3. \A a \in Side : Far(a) /\ LastIsLast(a) /\ Finishes(a)
  BY DEF FarInv
<1>4. Far(s)'
  <2>1. PICK q, D, h, v : q = out[t] /\ D = delivered[t] /\ h = heard[t] /\ v = Hear(t, h, q[D + 1])
    OBVIOUS
  <2>2. q \in Seq(Unit) /\ D \in Nat /\ D < Len(q) /\ h.parser \in Parser /\ h.got \in Seq(Stored)
    BY <1>1, <2>1, Typed
  <2>3. v.got \in Seq(Stored)
    <3>1. TypeInv'
      BY TypeDeliver
    <3>2. TypeOK'
      BY <3>1 DEF TypeInv
    <3>3. heard'[t].got \in Seq(Stored)
      BY <3>2 DEF TypeOK
    <3> QED
      BY <1>1, <2>1, <3>3
  <2>4. v.got = h.got \/ \E y : v.got = Append(h.got, y)
    <3>1. CASE HeardSlot(t, h, q[D + 1]).stat = "COMPLETE"
      <4>1. v.got = Append(h.got, HeardSlot(t, h, q[D + 1]))
        BY <2>1, <3>1, HearIs
      <4> QED
        BY <4>1
    <3>2. CASE HeardSlot(t, h, q[D + 1]).stat # "COMPLETE"
      BY <2>1, <3>2, HearIs
    <3> QED
      BY <3>1, <3>2
  <2>5. Laid(s, q, Count(q)) /\ Listens(s, q, D, Count(q), h)
    BY <1>2, <1>3, <2>1, FarIs
  <2>6. Count(q) \in Nat /\ Count(q) <= Len(said[s])
    <3>1. Turns
      BY DEF WireInv
    <3>2. Flushed(s) <= Len(said[s])
      BY <1>2, <3>1, Chain, Sides
    <3>3. Flushed(s) = Count(q)
      BY <1>2, <2>1 DEF Flushed
    <3> QED
      BY <2>2, <3>2, <3>3, CountTyped
  <2>7. v = Hear(Other(s), h, q[D + 1])
    BY <1>2, <2>1
  <2> HIDE DEF s
  <2>8. Listens(s, q, D + 1, Count(q), Hear(Other(s), h, q[D + 1]))
    BY <1>2, <1>3, <2>2, <2>3, <2>4, <2>5, <2>6, <2>7, ListensOn
  <2>9. Laid(s, q, Count(q))'
    BY <1>1, <2>5, LaidSame
  <2>10. PICK e : e = D + 1
    OBVIOUS
  <2>11. Listens(s, q, e, Count(q), v)
    BY <2>7, <2>8, <2>10
  <2>12. Listens(s, q, e, Count(q), v)'
    BY <1>1, <2>11, ListensSame
  <2> QED
    BY <1>1, <1>2, <2>1, <2>9, <2>10, <2>12, FarThen
<1>5. Far(t)'
  BY <1>1, <1>3, FarStays
<1>6. \A a \in Side : LastIsLast(a)' /\ Finishes(a)'
  BY <1>1, <1>3, LastStays, FinishesStays
<1> QED
  BY <1>4, <1>5, <1>6, Sides DEF FarInv

\* What has been said stays so; only an open connection carries more.
Told(s) ==
    /\ \A n \in DOMAIN said[s] : /\ n \in DOMAIN said'[s] /\ said'[s][n] = said[s][n]
                                 /\ Silent(s, n)' = Silent(s, n)
    /\ Open(s) \/ said'[s] = said[s]

LEMMA ToldTo ==
    ASSUME TypeInv, Turns, NEW a \in Side, NEW m \in Message, Say(a, m), Open(a), NEW s \in Side
    PROVE  Told(s)
<1>1. /\ Len(said[a]) \in Nat /\ Len(said'[a]) = Len(said[a]) + 1
      /\ \A i \in 1..Len(said[a]) : said'[a][i] = said[a][i]
      /\ said'[Other(a)] = said[Other(a)]
  BY SayIs, Typed
<1>2. Len(said["down"]) <= Len(said["up"])
  BY Chain, Numbers, Sides
<1>3. \A t \in Side : said[t] \in Seq(Message) /\ DOMAIN said[t] = 1..Len(said[t])
  BY SaidMessages DEF TypeInv
<1>4. said'[a] \in Seq(Message)
  <2>1. said'[a] = Append(said[a], m)
    BY SayIs
  <2> QED
    BY <1>3, <2>1
<1>5. \A t \in Side : \A n \in DOMAIN said[t] : n \in DOMAIN said'[t] /\ said'[t][n] = said[t][n]
  <2>1. SUFFICES ASSUME NEW t \in Side, NEW n \in DOMAIN said[t]
                 PROVE  n \in DOMAIN said'[t] /\ said'[t][n] = said[t][n]
    OBVIOUS
  <2>2. CASE t = a
    <3>1. DOMAIN said'[a] = 1..Len(said[a]) + 1
      BY <1>1, <1>4
    <3>2. n \in 1..Len(said[a])
      BY <1>3, <2>2
    <3> QED
      BY <1>1, <2>2, <3>1, <3>2
  <2>3. CASE t = Other(a)
    BY <1>1, <2>3
  <2> QED
    BY <2>2, <2>3, Sides
<1>6. \A n \in DOMAIN said[s] : Silent(s, n)' = Silent(s, n)
  <2>1. SUFFICES ASSUME NEW n \in DOMAIN said[s] PROVE Silent(s, n)' = Silent(s, n)
    OBVIOUS
  <2>2. CASE s = "down"
    <3>1. n \in DOMAIN said["down"] /\ n \in DOMAIN said["up"]
      <4>1. n \in 1..Len(said["down"])
        BY <1>3, <2>2
      <4>2. Len(said["up"]) \in Nat /\ Len(said["down"]) \in Nat
        BY SaidMessages, Sides DEF TypeInv
      <4>3. n \in 1..Len(said["up"])
        BY <1>2, <4>1, <4>2
      <4> QED
        BY <1>3, <2>2, <4>3, Sides
    <3>2. said'["up"][n] = said["up"][n] /\ said'["down"][n] = said["down"][n]
      BY <1>5, <3>1, Sides
    <3> QED
      BY <2>2, <3>2 DEF Silent
  <2>3. CASE s # "down"
    BY <2>3 DEF Silent
  <2> QED
    BY <2>2, <2>3
<1>7. Open(s) \/ said'[s] = said[s]
  BY <1>1, Sides
<1> QED
  BY <1>5, <1>6, <1>7 DEF Told

LEMMA CleanTold ==
    ASSUME NEW s, Told(s)
    PROVE  /\ \A n : Clean(s, n)' => Clean(s, n)
           /\ \A n \in DOMAIN said[s] : /\ Bod(s, n)' = Bod(s, n)
                                        /\ Delimited(s, n)' <=> Delimited(s, n)
<1>1. \A n \in DOMAIN said[s] : n \in DOMAIN said'[s] /\ (Unchunked(s, n)' = Unchunked(s, n))
  BY DEF Told, Unchunked
<1>2. \A n : Clean(s, n)' => Clean(s, n)
  BY <1>1 DEF Clean
<1>3. \A n \in DOMAIN said[s] : Bod(s, n)' = Bod(s, n)
  BY DEF Told, Bod
<1>4. \A n \in DOMAIN said[s] : Delimited(s, n)' <=> Delimited(s, n)
  BY DEF Told, Delimited
<1> QED
  BY <1>2, <1>3, <1>4

LEMMA LaidTold ==
    ASSUME NEW s, Told(s), NEW q, NEW g, 1..g \subseteq DOMAIN said[s], Laid(s, q, g)
    PROVE  Laid(s, q, g)'
<1>1. ASSUME NEW i, NEW n, Stands(s, q, i, n, g) PROVE Stands(s, q, i, n, g)'
  <2>1. n \in DOMAIN said[s]
    BY <1>1 DEF Stands
  <2>2. /\ Clean(s, n)' => Clean(s, n)
        /\ Bod(s, n)' = Bod(s, n) /\ (Delimited(s, n)' <=> Delimited(s, n))
    BY <2>1, CleanTold
  <2> QED
    BY <1>1, <2>2 DEF Stands
<1> QED
  BY <1>1 DEF Laid

LEMMA ListensTold ==
    ASSUME NEW s, Told(s), NEW q, NEW D, NEW g, NEW h, Listens(s, q, D, g, h)
    PROVE  Listens(s, q, D, g, h)'
<1>1. ASSUME NEW n, NEW p, NEW x, Hears(s, n, q, D, g, p, x) PROVE Hears(s, n, q, D, g, p, x)'
  <2>1. p.state \notin Between => /\ n \in DOMAIN said[s] /\ n \in DOMAIN said'[s]
                                  /\ Silent(s, n)' = Silent(s, n) /\ said'[s][n] = said[s][n]
    BY <1>1 DEF Hears, Told
  <2>2. p.state = "dead" => (Len(said[s]) < n)' /\ (~Open(s))'
    <3>1. SUFFICES ASSUME p.state = "dead" PROVE (Len(said[s]) < n)' /\ (~Open(s))'
      OBVIOUS
    <3>2. Len(said[s]) < n /\ ~Open(s)
      BY <1>1, <3>1 DEF Hears
    <3>3. said'[s] = said[s]
      BY <3>2 DEF Told
    <3> QED
      BY <3>2, <3>3 DEF Open
  <2>3. p.state = "fields" => p.state \notin Between
    BY StateNames
  <2>4. p.state = "identity" => p.state \notin Between
    BY StateNames
  <2> QED
    BY <1>1, <2>1, <2>2, <2>3, <2>4 DEF Hears
<1>2. ASSUME NEW n, NEW y, SameMessage(s, n, y) PROVE SameMessage(s, n, y)'
  <2>1. /\ n \in DOMAIN said[s] /\ n \in DOMAIN said'[s]
        /\ Silent(s, n)' = Silent(s, n) /\ said'[s][n] = said[s][n]
    BY <1>2 DEF SameMessage, Told
  <2> QED
    BY <1>2, <2>1 DEF SameMessage
<1>3. \A n : Clean(s, n)' => Clean(s, n)
  BY CleanTold
<1>4. Received(s, h.got)'
  <2>1. \A n \in DOMAIN h.got : Clean(s, n) => SameMessage(s, n, h.got[n])
    BY DEF Listens, Received
  <2>2. ASSUME NEW n \in DOMAIN h.got, Clean(s, n)' PROVE SameMessage(s, n, h.got[n])'
    BY <1>2, <1>3, <2>1, <2>2
  <2> QED
    BY <2>2 DEF Received
<1>5. Clean(s, Len(h.got) + 1)' => Hears(s, Len(h.got) + 1, q, D, g, h.parser, h.slot)'
  BY <1>1, <1>3 DEF Listens
<1> QED
  BY <1>4, <1>5 DEF Listens

\* The other party's message: what the far peer of s makes of its units stays.
LEMMA FarTold ==
    ASSUME TypeInv, Turns, NEW s \in Side, Far(s), Told(s), out' = out,
           delivered' = delivered, heard' = heard
    PROVE  Far(s)'
<1> DEFINE q == out[Other(s)]
           D == delivered[Other(s)]
           h == heard[Other(s)]
<1>1. PICK a, b, c : a = q /\ b = D /\ c = h
  OBVIOUS
<1>2. Laid(s, a, Count(a)) /\ Listens(s, a, b, Count(a), c)
  BY <1>1, FarIs
<1>3. 1..Count(a) \subseteq DOMAIN said[s]
  <2>1. Flushed(s) <= Len(said[s]) /\ Flushed(s) \in Nat /\ Len(said[s]) \in Nat
    BY Chain, Numbers, Sides
  <2>2. Flushed(s) = Count(a)
    BY <1>1 DEF Flushed
  <2>3. DOMAIN said[s] = 1..Len(said[s])
    BY SaidMessages DEF TypeInv
  <2> QED
    BY <2>1, <2>2, <2>3
<1>4. Laid(s, a, Count(a))' /\ Listens(s, a, b, Count(a), c)'
  BY <1>2, <1>3, LaidTold, ListensTold
<1> QED
  BY <1>1, <1>4, FarThen

LEMMA LastTold ==
    ASSUME TypeInv, NEW a \in Side, NEW m \in Message, Say(a, m), Open(a), NEW s \in Side,
           LastIsLast(s)
    PROVE  LastIsLast(s)'
<1>1. /\ Len(said[a]) \in Nat /\ Len(said'[a]) = Len(said[a]) + 1
      /\ \A i \in 1..Len(said[a]) : said'[a][i] = said[a][i]
      /\ said'[a] = Append(said[a], m) /\ said'[Other(a)] = said[Other(a)]
  BY SayIs, Typed
<1>2. said[a] \in Seq(Message) /\ DOMAIN said[a] = 1..Len(said[a])
  BY SaidMessages DEF TypeInv
<1>3. DOMAIN said'[a] = 1..Len(said[a]) + 1
  BY <1>1, <1>2
<1>4. LastIsLast(a)'
  <2>1. SUFFICES ASSUME NEW i \in DOMAIN said'[a], said'[a][i].last PROVE i = Len(said'[a])
    BY DEF LastIsLast
  <2>2. CASE i \in 1..Len(said[a])
    <3>1. said[a][i].last
      BY <1>1, <2>1, <2>2
    <3> QED
      BY <1>2, <2>2, <3>1 DEF Open
  <2>3. CASE i \notin 1..Len(said[a])
    BY <1>1, <1>3, <2>3
  <2> QED
    BY <2>2, <2>3
<1>5. CASE s = a
  BY <1>4, <1>5
<1>6. CASE s = Other(a)
  BY <1>1, <1>6 DEF LastIsLast
<1> QED
  BY <1>5, <1>6, Sides

\* An empty slot completes nothing.
LEMMA FinishesNone ==
    ASSUME NEW s, slot'[s] = NoMessage
    PROVE  Finishes(s)'
  BY EmptyWith DEF Finishes

LEMMA FarRequest ==
    ASSUME TypeInv, WireInv, FarInv, NEW m \in Requests, Request, Say("up", m)
    PROVE  FarInv'
<1>1. /\ \A s \in Side : SideKept(s) /\ LastOf(s) /\ Taken(s)
      /\ Turns
  BY WireIs DEF WireInv
<1>2. m \in Message /\ "up" \in Side /\ "down" \in Side
  BY MessagesAre, Sides
<1>3. Open("up") /\ Open("down") /\ Len(heard["up"].got) = Len(said["up"])
  BY DEF Request
<1>4. /\ Flushed("up") = Len(said["up"]) /\ Flushed("down") = Len(said["down"])
  <2>1. Len(heard["up"].got) <= Flushed("down")
    BY <1>1, <1>2, TakenBy, Sides
  <2>2. /\ Flushed("down") <= Len(said["down"]) /\ Len(said["down"]) <= Flushed("up")
        /\ Flushed("up") <= Len(said["up"])
    BY <1>1, Chain
  <2>3. /\ Flushed("up") \in Nat /\ Len(said["up"]) \in Nat
        /\ Flushed("down") \in Nat /\ Len(said["down"]) \in Nat
    BY <1>2, Numbers
  <2> QED
    BY <1>3, <2>1, <2>2, <2>3
<1>5. slot["up"] = NoMessage /\ slot["down"] = NoMessage
  BY <1>1, <1>2, <1>3, <1>4, Waiting
<1>6. slot' = slot /\ out' = out /\ heard' = heard /\ delivered' = delivered
  BY SayKeeps, <1>2
<1>7. SUFFICES ASSUME NEW s \in Side PROVE Far(s)' /\ LastIsLast(s)' /\ Finishes(s)'
  BY DEF FarInv
<1>8. Far(s) /\ LastIsLast(s)
  BY DEF FarInv
<1>9. Told(s)
  BY <1>1, <1>2, <1>3, ToldTo
<1>10. Far(s)'
  BY <1>1, <1>6, <1>8, <1>9, FarTold
<1>11. LastIsLast(s)'
  BY <1>2, <1>3, <1>8, LastTold
<1>12. Finishes(s)'
  <2>1. slot[s] = NoMessage
    BY <1>5, Sides
  <2> QED
    BY <1>6, <2>1, FinishesNone
<1> QED
  BY <1>10, <1>11, <1>12

LEMMA FarRespond ==
    ASSUME TypeInv, WireInv, FarInv, NEW m \in Responses, Respond, Say("down", m)
    PROVE  FarInv'
<1>1. /\ \A s \in Side : SideKept(s) /\ LastOf(s) /\ Taken(s)
      /\ Turns
  BY WireIs DEF WireInv
<1>2. m \in Message /\ "up" \in Side /\ "down" \in Side
  BY MessagesAre, Sides
<1>3. Open("down") /\ Len(said["down"]) < Len(heard["down"].got)
  BY DEF Respond
<1>4. Flushed("down") = Len(said["down"])
  <2>1. Len(heard["down"].got) <= Flushed("up")
    BY <1>1, <1>2, TakenBy, Sides
  <2>2. /\ Flushed("down") <= Len(said["down"]) /\ Len(said["up"]) <= Flushed("down") + 1
        /\ Flushed("up") <= Len(said["up"])
    BY <1>1, Chain
  <2>3. /\ Flushed("up") \in Nat /\ Len(said["up"]) \in Nat
        /\ Flushed("down") \in Nat /\ Len(said["down"]) \in Nat
    BY <1>2, Numbers
  <2>4. Len(heard["down"].got) \in Nat
    <3>1. heard["down"].got \in Seq(Stored)
      BY <1>2, Typed
    <3> QED
      BY <3>1
  <2> QED
    BY <1>3, <2>1, <2>2, <2>3, <2>4
<1>5. slot["down"] = NoMessage
  BY <1>1, <1>2, <1>3, <1>4, Waiting
<1>6. slot' = slot /\ out' = out /\ heard' = heard /\ delivered' = delivered
      /\ said'["up"] = said["up"]
  BY SayKeeps, SayIs, <1>2, Sides
<1>7. SUFFICES ASSUME NEW s \in Side PROVE Far(s)' /\ LastIsLast(s)' /\ Finishes(s)'
  BY DEF FarInv
<1>8. Far(s) /\ LastIsLast(s) /\ Finishes(s)
  BY DEF FarInv
<1>9. Told(s)
  BY <1>1, <1>2, <1>3, ToldTo
<1>10. Far(s)'
  BY <1>1, <1>6, <1>8, <1>9, FarTold
<1>11. LastIsLast(s)'
  BY <1>2, <1>3, <1>8, LastTold
<1>12. Finishes(s)'
  <2>1. CASE s = "down"
    BY <1>5, <1>6, <2>1, FinishesNone
  <2>2. CASE s = "up"
    BY <2>2 DEF Finishes
  <2> QED
    BY <2>1, <2>2, Sides
<1> QED
  BY <1>10, <1>11, <1>12

(***************************************************************************)
(* A message that is written behind others.                                *)
(***************************************************************************)
\* e begins with the message after the first g.
Opens(e, g) == e \in Seq(Unit) /\ Len(e) > 0 /\ e[1] = BeginOf(g + 1)

LEMMA Extended ==
    ASSUME NEW q \in Seq(Unit), NEW e \in Seq(Unit)
    PROVE  /\ q \o e \in Seq(Unit) /\ Len(q \o e) = Len(q) + Len(e)
           /\ Len(q) \in Nat /\ Len(e) \in Nat
           /\ DOMAIN q = 1..Len(q) /\ DOMAIN e = 1..Len(e) /\ DOMAIN (q \o e) = 1..Len(q) + Len(e)
           /\ \A i \in 1..Len(q) : (q \o e)[i] = q[i]
           /\ \A i \in 1..Len(e) : (q \o e)[Len(q) + i] = e[i]
  OBVIOUS

LEMMA EndGrows ==
    ASSUME NEW q \in Seq(Unit), NEW e, NEW g \in Nat, Opens(e, g), NEW i \in 0..g
    PROVE  \A d \in Nat : EndAt(q, d, i, g) => EndAt(q \o e, d, i, g + 1)
<1>1. SUFFICES ASSUME NEW d \in Nat, EndAt(q, d, i, g) PROVE EndAt(q \o e, d, i, g + 1)
  OBVIOUS
<1>2. e \in Seq(Unit) /\ Len(e) > 0 /\ e[1] = BeginOf(g + 1)
  BY DEF Opens
<1>3. /\ Len(q \o e) = Len(q) + Len(e) /\ Len(q) \in Nat /\ Len(e) \in Nat
      /\ \A c \in 1..Len(q) : (q \o e)[c] = q[c]
      /\ \A c \in 1..Len(e) : (q \o e)[Len(q) + c] = e[c]
  BY <1>2, Extended
<1>4. i # g + 1
  OBVIOUS
<1>5. d < Len(q \o e) /\ (q \o e)[d + 1] = BeginOf(i + 1)
  <2>1. CASE i = g
    <3>1. d = Len(q)
      BY <1>1, <2>1 DEF EndAt
    <3>2. 1 \in 1..Len(e)
      BY <1>2, <1>3
    <3> QED
      BY <1>2, <1>3, <2>1, <3>1, <3>2
  <2>2. CASE i # g
    <3>1. d < Len(q) /\ q[d + 1] = BeginOf(i + 1)
      BY <1>1, <2>2 DEF EndAt
    <3>2. d + 1 \in 1..Len(q)
      BY <1>3, <3>1
    <3> QED
      BY <1>3, <3>1, <3>2
  <2> QED
    BY <2>1, <2>2
<1> QED
  BY <1>4, <1>5 DEF EndAt

LEMMA BehindGrows ==
    ASSUME NEW q \in Seq(Unit), NEW e, NEW g \in Nat, Opens(e, g), NEW i \in 0..g, NEW D \in Nat
    PROVE  Behind(q, D, i, g) => Behind(q \o e, D, i, g + 1)
<1>1. SUFFICES ASSUME Behind(q, D, i, g) PROVE Behind(q \o e, D, i, g + 1)
  OBVIOUS
<1>2. e \in Seq(Unit)
  BY DEF Opens
<1>3. /\ Len(q \o e) = Len(q) + Len(e) /\ Len(q) \in Nat /\ Len(e) \in Nat
      /\ \A c \in 1..Len(q) : (q \o e)[c] = q[c]
  BY <1>2, Extended
<1>4. CASE EndAt(q, D, i, g)
  <2>1. EndAt(q \o e, D, i, g + 1)
    BY <1>4, EndGrows
  <2> QED
    BY <2>1 DEF Behind
<1>5. CASE D < Len(q) /\ q[D + 1] = LineEnd /\ EndAt(q, D + 1, i, g)
  <2>1. D + 1 \in Nat
    OBVIOUS
  <2>2. EndAt(q \o e, D + 1, i, g + 1)
    BY <1>5, <2>1, EndGrows
  <2>3. D + 1 \in 1..Len(q) /\ D < Len(q \o e)
    BY <1>3, <1>5
  <2>4. (q \o e)[D + 1] = LineEnd
    BY <1>3, <1>5, <2>3
  <2> QED
    BY <2>2, <2>3, <2>4 DEF Behind
<1> QED
  BY <1>1, <1>4, <1>5 DEF Behind

LEMMA ComesGrows ==
    ASSUME NEW q \in Seq(Unit), NEW e, NEW g \in Nat, Opens(e, g), NEW n \in 0..g, NEW D \in Nat,
           NEW B, NEW k \in Nat
    PROVE  Comes(q, D, n, g, B, k) => Comes(q \o e, D, n, g + 1, B, k)
<1>1. SUFFICES ASSUME Comes(q, D, n, g, B, k) PROVE Comes(q \o e, D, n, g + 1, B, k)
  OBVIOUS
<1>2. e \in Seq(Unit)
  BY DEF Opens
<1>3. /\ Len(q \o e) = Len(q) + Len(e) /\ Len(q) \in Nat /\ Len(e) \in Nat
      /\ \A c \in 1..Len(q) : (q \o e)[c] = q[c]
  BY <1>2, Extended
<1>4. /\ \A c \in 1..k : q[D + c] = Piece("byte", n, B - k + c)
      /\ D + k < Len(q) /\ q[D + k + 1] = LineEnd /\ EndAt(q, D + k + 1, n, g)
  BY <1>1 DEF Comes
<1>5. \A c \in 1..k : (q \o e)[D + c] = Piece("byte", n, B - k + c)
  <2>1. \A c \in 1..k : D + c \in 1..Len(q)
    BY <1>3, <1>4
  <2> QED
    BY <1>3, <1>4, <2>1
<1>6. D + k < Len(q \o e) /\ D + k + 1 \in 1..Len(q) /\ D + k + 1 \in Nat
  BY <1>3, <1>4
<1>7. EndAt(q \o e, D + k + 1, n, g + 1)
  BY <1>4, <1>6, EndGrows
<1>8. (q \o e)[D + k + 1] = LineEnd
  BY <1>3, <1>4, <1>6
<1> QED
  BY <1>5, <1>6, <1>7, <1>8 DEF Comes

LEMMA LaidGrows ==
    ASSUME NEW q \in Seq(Unit), NEW e, NEW g \in Nat, Opens(e, g), NEW n \in 1..g,
           NEW i \in DOMAIN q, NEW L \in Nat
    PROVE  LaidAt(q, i, n, L, g) => LaidAt(q \o e, i, n, L, g + 1)
<1>1. SUFFICES ASSUME LaidAt(q, i, n, L, g) PROVE LaidAt(q \o e, i, n, L, g + 1)
  OBVIOUS
<1>2. e \in Seq(Unit)
  BY DEF Opens
<1>3. /\ Len(q \o e) = Len(q) + Len(e) /\ Len(q) \in Nat /\ Len(e) \in Nat
      /\ \A c \in 1..Len(q) : (q \o e)[c] = q[c]
      /\ i \in 1..Len(q) /\ n \in 0..g
  BY <1>2, Extended
<1>4. /\ i < Len(q) /\ q[i + 1] = FieldsOf(n)
      /\ \A c \in 1..L : q[i + 1 + c] = Piece("byte", n, c)
      /\ L = 0 => EndAt(q, i + 1, n, g)
      /\ L # 0 => i + L + 2 <= Len(q) /\ q[i + L + 2] = LineEnd /\ EndAt(q, i + L + 2, n, g)
  BY <1>1 DEF LaidAt
<1>5. i < Len(q \o e) /\ (q \o e)[i + 1] = FieldsOf(n)
  <2>1. i + 1 \in 1..Len(q)
    BY <1>3, <1>4
  <2> QED
    BY <1>3, <1>4, <2>1
<1>6. \A c \in 1..L : (q \o e)[i + 1 + c] = Piece("byte", n, c)
  <2>1. SUFFICES ASSUME NEW c \in 1..L PROVE (q \o e)[i + 1 + c] = Piece("byte", n, c)
    OBVIOUS
  <2>2. L # 0 /\ c \in Nat /\ c <= L
    OBVIOUS
  <2>3. i \in Nat /\ i + L + 2 <= Len(q)
    BY <1>3, <1>4, <2>2
  <2>4. i + 1 + c \in 1..Len(q)
    BY <1>3, <2>2, <2>3
  <2> QED
    BY <1>3, <1>4, <2>4
<1>7. L = 0 => EndAt(q \o e, i + 1, n, g + 1)
  BY <1>3, <1>4, EndGrows
<1>8. L # 0 => i + L + 2 <= Len(q \o e) /\ (q \o e)[i + L + 2] = LineEnd
               /\ EndAt(q \o e, i + L + 2, n, g + 1)
  <2>1. SUFFICES ASSUME L # 0
                 PROVE  /\ i + L + 2 <= Len(q \o e) /\ (q \o e)[i + L + 2] = LineEnd
                        /\ EndAt(q \o e, i + L + 2, n, g + 1)
    OBVIOUS
  <2>2. i + L + 2 \in 1..Len(q) /\ i + L + 2 \in Nat
    <3>1. i + L + 2 <= Len(q)
      BY <1>4, <2>1
    <3>2. i \in Nat /\ L \in Nat /\ Len(q) \in Nat
      BY <1>3
    <3> QED
      BY <3>1, <3>2
  <2>3. EndAt(q \o e, i + L + 2, n, g + 1)
    BY <1>3, <1>4, <2>1, <2>2, EndGrows
  <2> QED
    BY <1>3, <1>4, <2>1, <2>2, <2>3
<1> QED
  BY <1>5, <1>6, <1>7, <1>8 DEF LaidAt

(***************************************************************************)
(* What send() writes, unit by unit.                                       *)
(***************************************************************************)
\* e is a message of which `begin' is the first unit only.
BlockOf(e, n) ==
    /\ e \in Seq(Unit) /\ Len(e) >= 2 /\ e[1] = BeginOf(n) /\ e[2] = FieldsOf(n)
    /\ \A j \in 1..Len(e) : e[j].kind = "begin" => j = 1
\* With L bytes of body.
BlockWith(e, n, L) ==
    /\ L = 0 => Len(e) = 2
    /\ L # 0 => Len(e) = L + 3 /\ e[L + 3] = LineEnd
    /\ \A c \in 1..L : e[2 + c] = Piece("byte", n, c)

LEMMA EndedKinds ==
    ASSUME NEW q \in Seq(Unit), NEW k, Kinds(q, k), k # "begin"
    PROVE  \A j \in 1..Len(Ended(q)) : Ended(q)[j].kind # "begin"
<1>1. LineEnd.kind = "crlf"
  BY DEF LineEnd, Piece
<1>2. CASE q = <<>>
  <2>1. Ended(q) = <<>>
    BY <1>2 DEF Ended
  <2> QED
    BY <2>1
<1>3. CASE q # <<>>
  <2>1. Ended(q) = Append(q, LineEnd)
    BY <1>3 DEF Ended
  <2>2. Len(Append(q, LineEnd)) = Len(q) + 1 /\ Len(q) \in Nat
    OBVIOUS
  <2>3. \A j \in 1..Len(q) : Append(q, LineEnd)[j] = q[j] /\ q[j].kind = k
    BY DEF Kinds
  <2>4. Append(q, LineEnd)[Len(q) + 1] = LineEnd
    OBVIOUS
  <2>5. \A j \in 1..Len(q) + 1 : j \in 1..Len(q) \/ j = Len(q) + 1
    BY <2>2
  <2> QED
    BY <1>1, <2>1, <2>2, <2>3, <2>4, <2>5
<1> QED
  BY <1>2, <1>3

LEMMA RenderedBlock ==
    ASSUME NEW n \in Nat, NEW x \in StoredTo(n), Whole(x, n),
           Kinds(x.payload, "byte"), Kinds(x.trailer, "trailer")
    PROVE  /\ BlockOf(Rendered(x), n)
           /\ \A L \in Nat : x.payload = Bytes(n, 0, L) /\ x.trailer = <<>>
                             => BlockWith(Rendered(x), n, L)
<1> DEFINE a == x.head
           d == Ended(x.payload)
           e == Ended(x.trailer)
<1>1. a \in Seq(Unit) /\ x.payload \in Seq(Unit) /\ x.trailer \in Seq(Unit)
  BY PartsTyped
<1>2. d \in Seq(Unit) /\ \A j \in 1..Len(d) : d[j].kind # "begin"
  BY <1>1, EndedUnits, EndedKinds
<1>3. e \in Seq(Unit) /\ \A j \in 1..Len(e) : e[j].kind # "begin"
  BY <1>1, EndedUnits, EndedKinds
<1>4. Rendered(x) = a \o (d \o e)
  <2>1. Rendered(x) = (a \o d) \o e
    BY DEF Rendered, Ended
  <2> HIDE DEF a, d, e
  <2> QED
    BY <1>1, <1>2, <1>3, <2>1, UnitsAssociate
<1>5. a = <<BeginOf(n), FieldsOf(n)>> /\ Len(a) = 2
  BY DEF Whole
<1>6. x.payload = Bytes(n, 0, 0) => d = <<>>
  BY NoBytes DEF Ended
<1>7. ASSUME NEW L \in Nat, L # 0, x.payload = Bytes(n, 0, L)
      PROVE  Len(d) = L + 1 /\ d[L + 1] = LineEnd /\ \A c \in 1..L : d[c] = Piece("byte", n, c)
  <2>1. /\ Len(x.payload) = L
        /\ \A c \in 1..L : x.payload[c] = Piece("byte", n, c)
    <3>1. 0 \in Nat /\ \A c \in 1..L : 0 + c = c
      OBVIOUS
    <3>2. /\ Len(Bytes(n, 0, L)) = L
          /\ \A c \in 1..L : Bytes(n, 0, L)[c] = Piece("byte", n, 0 + c)
      BY <3>1, BytesTyped
    <3> QED
      BY <1>7, <3>1, <3>2
  <2>2. x.payload # <<>>
    BY <1>7, <2>1
  <2>3. d = Append(x.payload, LineEnd)
    BY <2>2 DEF Ended
  <2> HIDE DEF d
  <2> QED
    BY <1>1, <2>1, <2>3, SMTT(30)
<1>8. x.trailer = <<>> => e = <<>>
  BY DEF Ended
<1> HIDE DEF a, d, e
<1>9. d \o e \in Seq(Unit) /\ \A j \in 1..Len(d \o e) : (d \o e)[j].kind # "begin"
  <2>1. /\ d \o e \in Seq(Unit) /\ Len(d \o e) = Len(d) + Len(e)
        /\ \A i \in 1..Len(d) : (d \o e)[i] = d[i]
        /\ \A i \in 1..Len(e) : (d \o e)[Len(d) + i] = e[i]
    BY <1>2, <1>3, Extended
  <2>2. SUFFICES ASSUME NEW j \in 1..Len(d \o e) PROVE (d \o e)[j].kind # "begin"
    BY <2>1
  <2>3. CASE j \in 1..Len(d)
    BY <1>2, <2>1, <2>3
  <2>4. CASE j \notin 1..Len(d)
    <3>1. PICK i : i = j - Len(d)
      OBVIOUS
    <3>2. i \in 1..Len(e) /\ j = Len(d) + i
      BY <1>2, <1>3, <2>1, <2>4, <3>1
    <3> QED
      BY <1>3, <2>1, <3>2
  <2> QED
    BY <2>3, <2>4
<1> DEFINE b == d \o e
           y == a \o b
<1> HIDE DEF b
<1>10. /\ y \in Seq(Unit) /\ Len(y) = 2 + Len(b) /\ Len(b) \in Nat
       /\ \A i \in 1..2 : y[i] = a[i] /\ \A j \in 1..Len(b) : y[2 + j] = b[j]
  BY <1>1, <1>5, <1>9, Extended DEF b
<1>11. y = Rendered(x)
  BY <1>4 DEF b
<1> HIDE DEF y
<1>12. y[1] = BeginOf(n) /\ y[2] = FieldsOf(n)
  BY <1>5, <1>10
<1>13. \A j \in 1..Len(y) : y[j].kind = "begin" => j = 1
  <2>1. SUFFICES ASSUME NEW j \in 1..Len(y), j # 1 PROVE y[j].kind # "begin"
    OBVIOUS
  <2>2. CASE j = 2
    BY <1>12, <2>2 DEF FieldsOf, Piece
  <2>3. CASE j # 2
    <3>1. PICK i : i = j - 2
      OBVIOUS
    <3>2. i \in 1..Len(b) /\ j = 2 + i
      BY <1>10, <2>1, <2>3, <3>1
    <3> QED
      BY <1>9, <1>10, <3>2, SMTT(30) DEF b
  <2> QED
    BY <2>2, <2>3
<1>14. BlockOf(y, n)
  BY <1>10, <1>12, <1>13 DEF BlockOf
<1>15. ASSUME NEW L \in Nat, x.payload = Bytes(n, 0, L), x.trailer = <<>>
       PROVE  BlockWith(y, n, L)
  <2>1. e = <<>>
    BY <1>8, <1>15
  <2>2. b = d
    BY <1>2, <2>1 DEF b
  <2>3. CASE L = 0
    <3>1. Len(b) = 0
      BY <1>6, <1>15, <2>2, <2>3
    <3>2. \A c \in 1..L : FALSE
      BY <2>3
    <3> QED
      BY <1>10, <2>3, <3>1, <3>2 DEF BlockWith
  <2>4. CASE L # 0
    <3>1. Len(b) = L + 1 /\ b[L + 1] = LineEnd /\ \A c \in 1..L : b[c] = Piece("byte", n, c)
      BY <1>7, <1>15, <2>2, <2>4
    <3>2. L + 1 \in 1..Len(b) /\ 1..L \subseteq 1..Len(b) /\ 2 + (L + 1) = L + 3
      BY <3>1
    <3>3. y[L + 3] = LineEnd /\ Len(y) = L + 3
      BY <1>10, <3>1, <3>2
    <3>4. \A c \in 1..L : y[2 + c] = Piece("byte", n, c)
      BY <1>10, <3>1, <3>2
    <3> QED
      BY <2>4, <3>3, <3>4 DEF BlockWith
  <2> QED
    BY <2>3, <2>4
<1> QED
  BY <1>11, <1>14, <1>15

LEMMA BlockLaid ==
    ASSUME NEW q \in Seq(Unit), NEW n \in Nat, NEW e \in Seq(Unit), NEW L \in Nat,
           NEW i, i = Len(q) + 1
    PROVE  BlockOf(e, n) /\ BlockWith(e, n, L) => LaidAt(q \o e, i, n, L, n)
<1>0. SUFFICES ASSUME BlockOf(e, n), BlockWith(e, n, L) PROVE LaidAt(q \o e, i, n, L, n)
  OBVIOUS
<1>1. e \in Seq(Unit) /\ Len(e) >= 2 /\ e[2] = FieldsOf(n)
  BY <1>0 DEF BlockOf
<1>2. /\ Len(q \o e) = Len(q) + Len(e) /\ Len(q) \in Nat /\ Len(e) \in Nat
      /\ \A c \in 1..Len(e) : (q \o e)[Len(q) + c] = e[c]
  BY <1>1, Extended
<1>3. i < Len(q \o e) /\ (q \o e)[i + 1] = FieldsOf(n)
  <2>1. 2 \in 1..Len(e) /\ i + 1 = Len(q) + 2
    BY <1>1, <1>2
  <2> QED
    BY <1>1, <1>2, <2>1
<1>4. Len(e) >= L + 2 /\ (L # 0 => Len(e) = L + 3 /\ e[L + 3] = LineEnd) /\ (L = 0 => Len(e) = 2)
  BY <1>0, <1>1, <1>2 DEF BlockWith
<1>5. \A c \in 1..L : (q \o e)[i + 1 + c] = Piece("byte", n, c)
  <2>1. SUFFICES ASSUME NEW c \in 1..L PROVE (q \o e)[i + 1 + c] = Piece("byte", n, c)
    OBVIOUS
  <2>2. 2 + c \in 1..Len(e) /\ i + 1 + c = Len(q) + (2 + c)
    BY <1>2, <1>4
  <2>3. e[2 + c] = Piece("byte", n, c)
    BY <1>0 DEF BlockWith
  <2> QED
    BY <1>2, <2>2, <2>3
<1>6. L = 0 => EndAt(q \o e, i + 1, n, n)
  <2>1. ASSUME L = 0 PROVE i + 1 = Len(q \o e)
    <3>1. Len(e) = 2 /\ Len(q \o e) = Len(q) + Len(e) /\ Len(q) \in Nat
      BY <1>2, <1>4, <2>1
    <3> QED
      BY <3>1
  <2> QED
    BY <2>1 DEF EndAt
<1>7. L # 0 => i + L + 2 <= Len(q \o e) /\ (q \o e)[i + L + 2] = LineEnd
               /\ EndAt(q \o e, i + L + 2, n, n)
  <2>1. SUFFICES ASSUME L # 0
                 PROVE  /\ i + L + 2 <= Len(q \o e) /\ (q \o e)[i + L + 2] = LineEnd
                        /\ EndAt(q \o e, i + L + 2, n, n)
    OBVIOUS
  <2>2. i + L + 2 = Len(q) + (L + 3) /\ L + 3 \in 1..Len(e) /\ i + L + 2 = Len(q \o e)
    BY <1>2, <1>4, <2>1
  <2> QED
    BY <1>2, <1>4, <2>1, <2>2 DEF EndAt
<1> QED
  BY <1>3, <1>5, <1>6, <1>7 DEF LaidAt

LEMMA BodTyped ==
    ASSUME TypeInv, NEW s \in Side, NEW n \in 1..Len(said[s])
    PROVE  Bod(s, n) \in Nat /\ n \in DOMAIN said[s] /\ said[s][n] \in Message
<1>1. n \in DOMAIN said[s] /\ said[s][n] \in Message
  BY SaidMessages DEF TypeInv
<1>2. BodyLength(said[s][n]) \in Nat
  BY <1>1, LengthTyped
<1> QED
  BY <1>1, <1>2 DEF Bod

\* The messages written before stand where they stood.
LEMMA StandsGrows ==
    ASSUME TypeInv, NEW s \in Side, NEW q \in Seq(Unit), NEW g \in Nat, g <= Len(said[s]),
           NEW e, NEW i \in DOMAIN q, NEW n
    PROVE  Opens(e, g) /\ Stands(s, q, i, n, g) => Stands(s, q \o e, i, n, g + 1)
<1>1. SUFFICES ASSUME Opens(e, g), Stands(s, q, i, n, g) PROVE Stands(s, q \o e, i, n, g + 1)
  OBVIOUS
<1>2. e \in Seq(Unit)
  BY <1>1 DEF Opens
<1>3. n \in 1..g /\ q[i] = BeginOf(n)
  BY <1>1 DEF Stands
<1>4. n \in 1..g + 1 /\ n \in 1..Len(said[s])
  <2>1. Len(said[s]) \in Nat
    BY Typed
  <2> QED
    BY <1>3, <2>1
<1>5. (q \o e)[i] = BeginOf(n)
  BY <1>2, <1>3, Extended
<1>6. Clean(s, n) => LaidAt(q \o e, i, n, Bod(s, n), g + 1) /\ Delimited(s, n)
  <2>1. SUFFICES ASSUME Clean(s, n)
                 PROVE  LaidAt(q \o e, i, n, Bod(s, n), g + 1) /\ Delimited(s, n)
    OBVIOUS
  <2>2. LaidAt(q, i, n, Bod(s, n), g) /\ Delimited(s, n)
    BY <1>1, <2>1 DEF Stands
  <2>3. PICK L \in Nat : L = Bod(s, n)
    BY <1>4, BodTyped
  <2>4. LaidAt(q \o e, i, n, L, g + 1)
    BY <1>1, <1>3, <2>2, <2>3, LaidGrows
  <2> QED
    BY <2>2, <2>3, <2>4
<1> QED
  BY <1>4, <1>5, <1>6 DEF Stands

LEMMA GrownLaid ==
    ASSUME TypeInv, NEW s \in Side, NEW q \in Seq(Unit), NEW g \in Nat, NEW n, n = g + 1,
           n <= Len(said[s]), NEW e \in Seq(Unit)
    PROVE  /\ Laid(s, q, g) /\ BlockOf(e, n)
           /\ Clean(s, n) => BlockWith(e, n, Bod(s, n)) /\ Delimited(s, n)
           => Laid(s, q \o e, n)
<1>1. SUFFICES ASSUME Laid(s, q, g), BlockOf(e, n),
                      Clean(s, n) => BlockWith(e, n, Bod(s, n)) /\ Delimited(s, n)
               PROVE  Laid(s, q \o e, n)
  OBVIOUS
<1>2. Opens(e, g)
  BY <1>1 DEF Opens, BlockOf
<1>3. /\ q \o e \in Seq(Unit) /\ Len(q) \in Nat /\ Len(e) \in Nat
      /\ DOMAIN q = 1..Len(q) /\ DOMAIN (q \o e) = 1..Len(q) + Len(e)
      /\ \A i \in 1..Len(q) : (q \o e)[i] = q[i]
      /\ \A i \in 1..Len(e) : (q \o e)[Len(q) + i] = e[i]
  BY Extended
<1>4. g <= Len(said[s]) /\ n \in 1..Len(said[s]) /\ Len(said[s]) \in Nat /\ n \in Nat /\ n \in 1..n
  BY Typed
<1>5. EndAt(q \o e, 0, 0, n)
  <2>1. EndAt(q, 0, 0, g) /\ 0 \in Nat /\ 0 \in 0..g
    BY <1>1 DEF Laid
  <2> QED
    BY <1>2, <2>1, EndGrows
<1>6. ASSUME NEW i \in DOMAIN (q \o e), (q \o e)[i].kind = "begin"
      PROVE  Stands(s, q \o e, i, (q \o e)[i].of, n)
  <2>1. CASE i \in 1..Len(q)
    <3>1. i \in DOMAIN q /\ (q \o e)[i] = q[i]
      BY <1>3, <2>1
    <3>2. Stands(s, q, i, q[i].of, g)
      BY <1>1, <1>6, <3>1 DEF Laid
    <3>3. Stands(s, q \o e, i, q[i].of, g + 1)
      BY <1>2, <1>4, <3>1, <3>2, StandsGrows
    <3> QED
      BY <3>1, <3>3
  <2>2. CASE i \notin 1..Len(q)
    <3>1. PICK j : j = i - Len(q)
      OBVIOUS
    <3>2. j \in 1..Len(e) /\ i = Len(q) + j
      BY <1>3, <1>6, <2>2, <3>1
    <3>3. (q \o e)[i] = e[j]
      BY <1>3, <3>2
    <3>4. j = 1 /\ e[1] = BeginOf(n)
      BY <1>1, <1>6, <3>2, <3>3 DEF BlockOf
    <3>5. i = Len(q) + 1 /\ (q \o e)[i] = BeginOf(n) /\ (q \o e)[i].of = n
      BY <3>2, <3>3, <3>4 DEF BeginOf, Piece
    <3>6. Clean(s, n) => LaidAt(q \o e, i, n, Bod(s, n), n) /\ Delimited(s, n)
      <4>1. SUFFICES ASSUME Clean(s, n)
                     PROVE  LaidAt(q \o e, i, n, Bod(s, n), n) /\ Delimited(s, n)
        OBVIOUS
      <4>2. PICK L \in Nat : L = Bod(s, n)
        BY <1>4, BodTyped
      <4>3. BlockWith(e, n, L) /\ Delimited(s, n)
        BY <1>1, <4>1, <4>2
      <4>4. LaidAt(q \o e, i, n, L, n)
        BY <1>1, <1>4, <3>5, <4>3, BlockLaid
      <4> QED
        BY <4>2, <4>3, <4>4
    <3>7. Stands(s, q \o e, i, n, n)
      BY <1>4, <3>5, <3>6 DEF Stands
    <3> QED
      BY <3>5, <3>7
  <2> QED
    BY <2>1, <2>2
<1> QED
  BY <1>5, <1>6 DEF Laid

\* For the far peer more is to come.
LEMMA HearsGrows ==
    ASSUME TypeInv, NEW s \in Side, NEW q \in Seq(Unit), NEW g \in Nat, NEW e, NEW n \in Nat \ {0},
           n - 1 <= g, NEW D \in Nat, D <= Len(q), NEW p, NEW x, x # NoMessage => n <= g
    PROVE  Opens(e, g) /\ Hears(s, n, q, D, g, p, x) => Hears(s, n, q \o e, D, g + 1, p, x)
<1>1. SUFFICES ASSUME Opens(e, g), Hears(s, n, q, D, g, p, x)
               PROVE  Hears(s, n, q \o e, D, g + 1, p, x)
  OBVIOUS
<1>2. e \in Seq(Unit)
  BY <1>1 DEF Opens
<1>3. p.state \in Between => x = NoMessage /\ Behind(q \o e, D, n - 1, g + 1)
  <2>1. n - 1 \in 0..g
    OBVIOUS
  <2>2. p.state \in Between => x = NoMessage /\ Behind(q, D, n - 1, g)
    BY <1>1 DEF Hears
  <2> QED
    BY <1>1, <2>1, <2>2, BehindGrows
<1>4. p.state = "fields" => D > 0 /\ (q \o e)[D] = BeginOf(n) /\ x = Headed(<<BeginOf(n)>>)
  <2>1. p.state = "fields" => D > 0 /\ q[D] = BeginOf(n) /\ x = Headed(<<BeginOf(n)>>)
    BY <1>1 DEF Hears
  <2>2. D > 0 => (q \o e)[D] = q[D]
    <3>1. Len(q) \in Nat
      OBVIOUS
    <3>2. D > 0 => D \in 1..Len(q)
      BY <3>1
    <3> QED
      BY <1>2, <3>2, Extended
  <2> QED
    BY <2>1, <2>2
<1>5. p.state = "identity" =>
        /\ ~Silent(s, n) /\ said[s][n].framing = "length"
        /\ p.length \in 1..BodyLength(said[s][n])
        /\ x = Bodied(n, BodyLength(said[s][n]) - p.length)
        /\ Comes(q \o e, D, n, g + 1, BodyLength(said[s][n]), p.length)
  <2>1. SUFFICES ASSUME p.state = "identity"
                 PROVE  /\ ~Silent(s, n) /\ said[s][n].framing = "length"
                        /\ p.length \in 1..BodyLength(said[s][n])
                        /\ x = Bodied(n, BodyLength(said[s][n]) - p.length)
                        /\ Comes(q \o e, D, n, g + 1, BodyLength(said[s][n]), p.length)
    OBVIOUS
  <2>2. /\ ~Silent(s, n) /\ said[s][n].framing = "length"
        /\ p.length \in 1..BodyLength(said[s][n])
        /\ x = Bodied(n, BodyLength(said[s][n]) - p.length)
        /\ Comes(q, D, n, g, BodyLength(said[s][n]), p.length)
    BY <1>1, <2>1 DEF Hears
  <2>3. n \in DOMAIN said[s]
    BY <1>1, <2>1, StateNames DEF Hears
  <2>4. BodyLength(said[s][n]) \in Nat
    <3>1. said[s] \in Seq(Message)
      BY SaidMessages DEF TypeInv
    <3>2. said[s][n] \in Message
      BY <2>3, <3>1
    <3> QED
      BY <3>2, LengthTyped
  <2>5. p.length \in Nat
    BY <2>2, <2>4
  <2>6. n \in 0..g
    <3>1. \A k : Bodied(n, k).stat = "BODY"
      BY DEF Bodied
    <3>2. x # NoMessage
      BY <2>2, <3>1, EmptyWith
    <3> QED
      BY <3>2
  <2>7. PICK B, k : B = BodyLength(said[s][n]) /\ k = p.length
    OBVIOUS
  <2>8. Comes(q \o e, D, n, g + 1, B, k)
    BY <1>1, <2>2, <2>5, <2>6, <2>7, ComesGrows
  <2> QED
    BY <2>2, <2>7, <2>8
<1> QED
  BY <1>1, <1>3, <1>4, <1>5 DEF Hears

LEMMA GrownListens ==
    ASSUME TypeInv, NEW s \in Side, NEW q \in Seq(Unit), NEW g \in Nat, NEW n, n = g + 1,
           NEW e \in Seq(Unit), NEW D \in Nat, D <= Len(q), NEW h, h.got \in Seq(Stored),
           Len(h.got) + Holds(h.slot) <= g
    PROVE  BlockOf(e, n) /\ Listens(s, q, D, g, h) => Listens(s, q \o e, D, n, h)
<1>1. SUFFICES ASSUME BlockOf(e, n), Listens(s, q, D, g, h) PROVE Listens(s, q \o e, D, n, h)
  OBVIOUS
<1>2. Opens(e, g)
  BY <1>1 DEF Opens, BlockOf
<1>3. PICK k \in Nat \ {0} : k = Len(h.got) + 1
  OBVIOUS
<1>4. k - 1 <= g /\ (h.slot # NoMessage => k <= g)
  BY <1>3, HoldsTyped
<1>5. Clean(s, k) => Hears(s, k, q \o e, D, n, h.parser, h.slot)
  <2>1. SUFFICES ASSUME Clean(s, k) PROVE Hears(s, k, q \o e, D, n, h.parser, h.slot)
    OBVIOUS
  <2>2. Hears(s, k, q, D, g, h.parser, h.slot)
    BY <1>1, <1>3, <2>1 DEF Listens
  <2>3. PICK p, x : p = h.parser /\ x = h.slot
    OBVIOUS
  <2>4. Hears(s, k, q \o e, D, g + 1, p, x)
    BY <1>2, <1>4, <2>2, <2>3, HearsGrows
  <2> QED
    BY <2>3, <2>4
<1> QED
  BY <1>1, <1>3, <1>5 DEF Listens

\* What a flush writes is the next message, and all of it.
LEMMA BlockFlushed ==
    ASSUME TypeInv, WireInv, NEW s \in Side, Finishes(s), slot[s].stat = "COMPLETE"
    PROVE  LET n == Len(said[s])
               e == Rendered(slot[s])
           IN  /\ n = Flushed(s) + 1 /\ e \in Seq(Unit) /\ BlockOf(e, n)
               /\ Count(out[Other(s)] \o e) = n
               /\ Clean(s, n) => BlockWith(e, n, Bod(s, n)) /\ Delimited(s, n)
<1> DEFINE n == Len(said[s])
           m == Latest(s)
           quiet == Quiet(s)
           q == sent[s]
           k == parsed[s]
           p == parser[s]
           x == slot[s]
           o == out[Other(s)]
           e == Rendered(x)
<1>1. n \in Nat /\ p \in Parser /\ x \in StoredTo(n) \cup {NoMessage} /\ o \in Seq(Unit)
  BY Typed, Sides
<1>2. SidePart(n, m, quiet, q, k, p, x, o)
  BY SideKeptIs, WireIs
<1>3. x.stat = "COMPLETE"
  OBVIOUS
<1>4. Flushed(s) = Count(o)
  BY DEF Flushed
<1>5. m = said[s][n] /\ quiet = Silent(s, n)
  BY DEF Latest, Quiet
<1>6. Turns
  BY DEF WireInv
<1>7. Finishes(s) /\ (m.framing = "none" => s = "up" \/ quiet)
  BY DEF Finishes
<1>8. n <= Flushed(s) + 1 /\ Flushed(s) \in Nat
  BY <1>6, Chain, Numbers
<1> HIDE DEF n, m, quiet, q, k, p, x, o
<1>9. x # NoMessage /\ x \in StoredTo(n) /\ Holds(x) = 1
  BY <1>1, <1>3, EmptyWith DEF Holds
<1>10. /\ e \in Seq(Unit) /\ Count(o \o e) = Count(o) + 1 /\ p.state \in Between
  BY <1>1, <1>2, <1>3, PartFlushed, ZenonT(60)
<1>11. n = Count(o) + 1
  <2> DEFINE a == Ahead(q, k + 1)
  <2>1. Count(o) + Holds(x) + a = n /\ a \in {0, 1}
    BY <1>2, AheadTyped DEF SidePart
  <2>2. n <= Count(o) + 1 /\ Count(o) \in Nat /\ Holds(x) = 1
    BY <1>4, <1>8, <1>9
  <2> HIDE DEF a
  <2> QED
    BY <1>1, <2>1, <2>2
<1>12. Shape(x, p, n, m, quiet)
  BY <1>2 DEF SidePart
<1>13. Whole(x, n) /\ Kinds(x.payload, "byte") /\ Kinds(x.trailer, "trailer")
  BY <1>9, <1>10, <1>12 DEF Shape
<1>14. /\ BlockOf(e, n)
       /\ \A L \in Nat : x.payload = Bytes(n, 0, L) /\ x.trailer = <<>> => BlockWith(e, n, L)
  BY <1>1, <1>9, <1>13, RenderedBlock
<1>15. ASSUME Clean(s, n) PROVE BlockWith(e, n, Bod(s, n)) /\ Delimited(s, n)
  <2>1. n \in 1..Len(said[s]) /\ n \in DOMAIN said[s] /\ Bod(s, n) \in Nat
    <3>1. n \in 1..Len(said[s])
      BY <1>1, <1>4, <1>8, <1>11 DEF n
    <3> QED
      BY <3>1, BodTyped
  <2>2. m.framing \in {"none", "length"}
    <3>1. n \in 1..n
      BY <1>1, <2>1
    <3> QED
      BY <1>5, <1>15, <2>1, <3>1 DEF Clean, Unchunked
  <2>3. /\ quiet => x.payload = <<>>
        /\ ~quiet => x.payload = Bytes(n, 0, BodyLength(m))
        /\ x.trailer = <<>>
    BY <1>3, <1>12, <2>2 DEF Shape
  <2>4. PICK L \in Nat : L = Bod(s, n)
    BY <2>1
  <2>5. L = IF quiet THEN 0 ELSE BodyLength(m)
    BY <1>5, <2>4 DEF Bod
  <2>6. x.payload = Bytes(n, 0, L)
    <3>1. CASE quiet
      BY <2>3, <2>5, <3>1, NoBytes
    <3>2. CASE ~quiet
      BY <2>3, <2>5, <3>2
    <3> QED
      BY <3>1, <3>2
  <2>7. BlockWith(e, n, L)
    BY <1>14, <2>3, <2>6
  <2>8. Delimited(s, n)
    BY <1>5, <1>7, <2>2 DEF Delimited
  <2> QED
    BY <2>4, <2>7, <2>8
<1> QED
  BY <1>4, <1>10, <1>11, <1>14, <1>15 DEF n, x, o

LEMMA FarFlushes ==
    ASSUME TypeInv, WireInv, FarInv, NEW s \in Side, NEW c, Flushes(s, c)
    PROVE  FarInv'
<1> DEFINE t == Other(s)
<1>1. Flush(s, c) /\ said' = said /\ delivered' = delivered /\ heard' = heard
  BY DEF Flushes
<1>2. t \in Side /\ t # s /\ Other(t) = s
  BY Sides
<1>3. \A a \in Side : Far(a) /\ LastIsLast(a) /\ Finishes(a)
  BY DEF FarInv
<1>4. CASE out' = out /\ slot' = slot
  BY <1>1, <1>3, <1>4, FarStays, LastStays, FinishesStays DEF FarInv
<1>5. CASE /\ slot[s].stat = "COMPLETE"
           /\ out' = [out EXCEPT ![t] = out[t] \o Rendered(slot[s])]
           /\ slot' = [slot EXCEPT ![s] = NoMessage]
  <2>1. DOMAIN out = Side /\ DOMAIN slot = Side
    BY DEF TypeInv, TypeOK
  <2>2. /\ out'[t] = out[t] \o Rendered(slot[s]) /\ out'[s] = out[s]
        /\ slot'[s] = NoMessage /\ slot'[t] = slot[t]
    <3> HIDE DEF t
    <3> QED
      BY <1>2, <1>5, <2>1
  <2>3. Far(t)'
    BY <1>1, <1>2, <1>3, <2>2, FarStays
  <2>4. Far(s)'
    <3>1. PICK q, e, D, h, g, n :
            /\ q = out[t] /\ e = Rendered(slot[s]) /\ D = delivered[t] /\ h = heard[t]
            /\ g = Flushed(s) /\ n = Len(said[s])
      OBVIOUS
    <3>2. /\ n = g + 1 /\ e \in Seq(Unit) /\ BlockOf(e, n)
          /\ Count(q \o e) = n /\ Count(q) = g
          /\ Clean(s, n) => BlockWith(e, n, Bod(s, n)) /\ Delimited(s, n)
      <4>1. Count(q) = g
        BY <3>1 DEF Flushed
      <4> QED
        BY <1>3, <1>5, <3>1, <4>1, BlockFlushed
    <3>3. /\ q \in Seq(Unit) /\ D \in Nat /\ D <= Len(q) /\ h.got \in Seq(Stored)
      BY <1>2, <3>1, Typed
    <3>4. g \in Nat /\ n <= Len(said[s])
      BY <3>1, Numbers
    <3>5. Laid(s, q, g) /\ Listens(s, q, D, g, h)
      BY <1>3, <3>1, <3>2, FarIs
    <3>6. Len(h.got) + Holds(h.slot) <= g
      <4>1. Taken(t)
        BY <1>2, WireIs
      <4>2. Len(h.got) + Holds(h.slot) <= Count(SubSeq(q, 1, D))
        BY <3>1, <4>1 DEF Taken
      <4>3. Count(SubSeq(q, 1, D)) <= Count(q) /\ Count(SubSeq(q, 1, D)) \in Nat
        <5>1. D \in 0..Len(q)
          BY <3>3
        <5>2. SubSeq(q, 1, D) \in Seq(Unit)
          BY <3>3, <5>1, Halves
        <5> QED
          BY <3>3, <5>1, <5>2, CountPart, CountTyped
      <4>4. Len(h.got) \in Nat /\ Holds(h.slot) \in {0, 1}
        BY <3>3, HoldsTyped
      <4> QED
        BY <3>2, <3>4, <4>2, <4>3, <4>4
    <3>7. Laid(s, q \o e, n) /\ Listens(s, q \o e, D, n, h)
      BY <3>2, <3>3, <3>4, <3>5, <3>6, GrownLaid, GrownListens
    <3>8. PICK r : r = q \o e
      OBVIOUS
    <3>9. Laid(s, r, n)' /\ Listens(s, r, D, n, h)'
      BY <1>1, <3>7, <3>8, LaidSame, ListensSame
    <3>10. Count(r) = n
      BY <3>2, <3>8
    <3>11. r = out'[Other(s)] /\ D = delivered'[Other(s)] /\ h = heard'[Other(s)]
      BY <1>1, <2>2, <3>1, <3>8
    <3>12. Laid(s, r, Count(r))' /\ Listens(s, r, D, Count(r), h)'
      BY <3>9, <3>10
    <3> QED
      BY <3>11, <3>12, FarThen
  <2>5. \A a \in Side : Finishes(a)'
    <3>1. \A a \in Side : slot'[a] = slot[a] \/ slot'[a] = NoMessage
      BY <2>2, Sides
    <3> QED
      BY <1>1, <1>3, <3>1, FinishesStays
  <2>6. \A a \in Side : Far(a)' /\ LastIsLast(a)'
    <3>1. \A a \in Side : LastIsLast(a)'
      BY <1>1, <1>3, LastStays
    <3> QED
      BY <2>3, <2>4, <3>1, Sides
  <2> QED
    BY <2>5, <2>6 DEF FarInv
<1> QED
  BY <1>1, <1>4, <1>5, FlushIs

\* A message without a length is complete only where none is needed.
LEMMA StepFinishes ==
    ASSUME NEW n \in Nat \ {0}, NEW m \in Message, NEW quiet \in BOOLEAN, NEW isRequest \in BOOLEAN,
           NEW q \in Seq(UnitTo(n)), NEW j \in 1..Len(q), NEW p \in Parser, NEW m1 \in Message,
           NEW w \in StoredTo(n) \cup {NoMessage}
    PROVE  LET r == Execute(p, q[j], m1, isRequest, FALSE)
               y == Noted(Begun(w, p, r), p, q[j], r)
           IN  /\ Rest(q, j, p, n, m, quiet) /\ Shape(w, p, n, m, quiet)
               /\ Plays(m, quiet, isRequest) /\ (q[j].of = n => m1 = m)
               /\ p.state # "error" /\ (p.state = "start" => w = NoMessage)
               /\ y.stat = "COMPLETE" /\ m.framing = "none"
               => isRequest \/ quiet
<1> DEFINE u == q[j]
           r == Execute(p, u, m1, isRequest, FALSE)
           x == Begun(w, p, r)
           y == Noted(x, p, u, r)
<1>1. SUFFICES ASSUME Rest(q, j, p, n, m, quiet), Shape(w, p, n, m, quiet),
                      Plays(m, quiet, isRequest), q[j].of = n => m1 = m,
                      p.state # "error", p.state = "start" => w = NoMessage,
                      y.stat = "COMPLETE", m.framing = "none"
               PROVE  isRequest \/ quiet
  OBVIOUS
<1>2. /\ p.state = "fields" => FieldsAt(q, j, n, m, quiet)
      /\ p.state # "identity" /\ p.state \notin ChunkState
      /\ p.state = "dead" => Len(q) = j - 1
  <2>1. "none" # "length" /\ "none" # "chunked"
    OBVIOUS
  <2> QED
    BY <1>1, <2>1 DEF Rest
<1>3. Len(q) \in Nat /\ j <= Len(q) /\ j \in Nat
  OBVIOUS
<1>4. p.state \in {"start", "fields", "eof"}
  <2>1. p.state # "dead"
    BY <1>2, <1>3
  <2>2. p.state \in ParserState
    BY DEF Parser
  <2> QED
    BY <1>1, <1>2, <2>1, <2>2, StateNames
<1>5. CASE p.state = "start"
  <2>1. ~Completes(p, r)
    BY <1>5, StateNames DEF Completes
  <2>2. y.stat = x.stat
    <3> HIDE DEF x, r, u
    <3> QED
      BY <1>5, <2>1 DEF Noted
  <2>3. x \in {Empty, NoMessage}
    <3> HIDE DEF r, u
    <3> QED
      BY <1>1, <1>5 DEF Begun
  <2> HIDE DEF x, y
  <2> QED
    BY <1>1, <2>2, <2>3, EmptyWith
<1>6. CASE p.state = "eof"
  <2>1. r = p
    BY <1>6 DEF Execute
  <2> HIDE DEF r
  <2>2. ~Completes(p, r)
    BY <1>6, <2>1, StateNames DEF Completes
  <2>3. x = w
    BY <1>6 DEF Begun
  <2>4. w.stat = "BODY"
    BY <1>1, <1>6, StateNames DEF Shape
  <2> HIDE DEF x, u
  <2>5. y.stat = x.stat
    BY <1>6, <2>2 DEF Noted
  <2> HIDE DEF y
  <2> QED
    BY <1>1, <2>3, <2>4, <2>5
<1>7. CASE p.state = "fields"
  <2>1. u = FieldsOf(n)
    BY <1>2, <1>7 DEF FieldsAt
  <2>2. u.kind = "fields" /\ u.of = n
    BY <2>1 DEF FieldsOf, Piece
  <2>3. m1 = m
    BY <1>1, <2>2
  <2> HIDE DEF u
  <2>4. r = HeadersDone(p, m, isRequest, FALSE)
    BY <1>7, <2>2, <2>3 DEF Execute
  <2>5. r = IF isRequest \/ m.bare THEN NewMessage(p) ELSE To(p, "eof")
    BY <1>1, <2>4 DEF HeadersDone
  <2>6. To(p, "eof").state = "eof"
    BY ToKnown
  <2> HIDE DEF r
  <2>7. x = w
    BY <1>7 DEF Begun
  <2>8. w.stat = "HEADER"
    <3>1. \A b : Headed(b).stat = "HEADER"
      BY DEF Headed
    <3> QED
      BY <1>1, <1>7, <3>1 DEF Shape
  <2> HIDE DEF x
  <2>9. y.stat = "COMPLETE" => Completes(p, r)
    BY <1>7, <2>7, <2>8 DEF Noted
  <2> HIDE DEF y
  <2>10. r.state \in Between
    BY <1>1, <2>9 DEF Completes
  <2>11. isRequest \/ m.bare
    BY <2>5, <2>6, <2>10, StateNames
  <2> QED
    BY <1>1, <2>11 DEF Plays
<1> QED
  BY <1>4, <1>5, <1>6, <1>7

LEMMA FinishesParse ==
    ASSUME TypeInv, WireInv, NEW s \in Side, Parse(s)
    PROVE  Finishes(s)'
<1> DEFINE n == Len(said[s])
           m == Latest(s)
           quiet == Quiet(s)
           isRequest == s = "up"
           q == sent[s]
           k == parsed[s]
           j == k + 1
           u == q[j]
           p == parser[s]
           w == slot[s]
           o == out[Other(s)]
           m1 == MessageOf(s, u)
           r == Execute(p, u, m1, isRequest, FALSE)
           y == Noted(Begun(w, p, r), p, u, r)
<1>1. handler = s /\ todo > 0 /\ p.state # "error" /\ said' = said
  BY ParseIs
<1>2. k < Len(q) /\ k \in Nat
  <2>1. parsed[s] + todo <= Len(sent[s]) /\ todo \in Nat
    BY <1>1 DEF TypeInv, Within, TypeOK
  <2>2. parsed[s] \in Nat /\ Len(sent[s]) \in Nat
    BY Typed
  <2> QED
    BY <1>1, <2>1, <2>2
<1>3. n \in Nat \ {0} /\ u \in UnitTo(n)
  BY <1>2, NextUnit
<1>4. m1 \in Message /\ (u.of = n => m1 = m)
  BY <1>3, MessageTyped
<1>5. m \in Message /\ Plays(m, quiet, isRequest) /\ quiet \in BOOLEAN
  BY <1>3, PlaysWell
<1>6. /\ q \in Seq(UnitTo(n)) /\ p \in Parser /\ w \in StoredTo(n) \cup {NoMessage} /\ o \in Seq(Unit)
  BY Typed, Sides
<1>7. SidePart(n, m, quiet, q, k, p, w, o)
  BY SideKeptIs, WireIs
<1>8. n <= Count(o) + 1
  <2>1. Flushed(s) + 1 >= Len(said[s]) /\ Flushed(s) \in Nat
    BY Chain, Numbers DEF WireInv
  <2>2. Flushed(s) = Count(o)
    BY DEF Flushed
  <2> HIDE DEF n, o
  <2> QED
    BY <1>3, <2>1, <2>2 DEF n
<1>9. slot'[s] = y
  <2>1. slot' = [slot EXCEPT ![s] = Noted(Made(s), parser[s], sent[s][parsed[s] + 1], Read(s))]
    BY KeptParse
  <2>2. DOMAIN slot = Side
    BY DEF TypeInv, TypeOK
  <2>3. slot'[s] = Noted(Made(s), parser[s], sent[s][parsed[s] + 1], Read(s))
    BY <2>1, <2>2
  <2> QED
    BY <2>3 DEF Made, Read
<1>10. isRequest \in BOOLEAN /\ j = k + 1
  OBVIOUS
<1>11. Latest(s)' = m /\ Quiet(s)' = quiet
  BY <1>1 DEF Latest, Quiet, Silent
<1> HIDE DEF n, m, quiet, q, k, j, p, w, o, m1
<1>12. y.stat = "COMPLETE" /\ m.framing = "none" => isRequest \/ quiet
  <2>1. Fits(n, q, k, j, w, o)
    BY <1>2, <1>3, <1>6, <1>8, <1>10 DEF Fits
  <2>2. p.state = "start" => w = NoMessage
    BY <1>7, <2>1, PartFree
  <2>3. Rest(q, j, p, n, m, quiet) /\ Shape(w, p, n, m, quiet)
    BY <1>7, <1>10 DEF SidePart
  <2>4. j \in 1..Len(q)
    BY <1>2, <1>6, <1>10
  <2> HIDE DEF isRequest
  <2> QED
    BY <1>1, <1>3, <1>4, <1>5, <1>6, <1>10, <2>2, <2>3, <2>4, StepFinishes
<1> HIDE DEF y, r, u
<1> QED
  BY <1>9, <1>11, <1>12 DEF Finishes

LEMMA FarSame ==
    ASSUME FarInv, said' = said, out' = out, delivered' = delivered, heard' = heard,
           \A s \in Side : Finishes(s)'
    PROVE  FarInv'
  BY FarStays, LastStays DEF FarInv

LEMMA FarParse ==
    ASSUME TypeInv, WireInv, FarInv, NEW s \in Side, Parse(s)
    PROVE  FarInv'
<1>1. said' = said /\ out' = out /\ delivered' = delivered /\ heard' = heard
  BY ParseIs
<1>2. \A a \in Side : Finishes(a)
  BY DEF FarInv
<1>3. Finishes(s)'
  BY FinishesParse
<1>4. Finishes(Other(s))'
  <2>1. slot'[Other(s)] = slot[Other(s)]
    <3>1. slot' = [slot EXCEPT ![s] = Noted(Made(s), parser[s], sent[s][parsed[s] + 1], Read(s))]
      BY KeptParse
    <3>2. DOMAIN slot = Side
      BY DEF TypeInv, TypeOK
    <3> QED
      BY <3>1, <3>2, Sides
  <2> QED
    BY <1>1, <1>2, <2>1, Sides, FinishesStays
<1> QED
  BY <1>1, <1>3, <1>4, Sides, FarSame

LEMMA FarInit ==
    ASSUME Init
    PROVE  FarInv
<1>1. SUFFICES ASSUME NEW s \in Side PROVE Far(s) /\ LastIsLast(s) /\ Finishes(s)
  BY DEF FarInv
<1>2. /\ said[s] = <<>> /\ slot[s] = NoMessage
      /\ out[Other(s)] = <<>> /\ delivered[Other(s)] = 0 /\ heard[Other(s)] = Deaf
  BY Sides DEF Init
<1>3. LastIsLast(s)
  BY <1>2 DEF LastIsLast
<1>4. Finishes(s)
  BY <1>2, EmptyWith DEF Finishes
<1>5. Count(<<>>) = 0
  <2>1. <<>> \in Seq(Unit) /\ \A i \in DOMAIN <<>> : FALSE
    OBVIOUS
  <2> QED
    BY <2>1, CountNone
<1>6. Laid(s, <<>>, 0)
  <2>1. EndAt(<<>>, 0, 0, 0)
    BY DEF EndAt
  <2> QED
    BY <2>1 DEF Laid
<1>7. Listens(s, <<>>, 0, 0, Deaf)
  <2>1. Deaf.got = <<>> /\ Deaf.parser = Fresh /\ Deaf.slot = NoMessage
    BY DEF Deaf
  <2>2. Len(Deaf.got) + 1 = 1
    BY <2>1
  <2>3. Received(s, Deaf.got)
    BY <2>1 DEF Received
  <2>4. Hears(s, 1, <<>>, 0, 0, Fresh, NoMessage)
    <3>1. EndAt(<<>>, 0, 1 - 1, 0)
      BY DEF EndAt
    <3>2. Behind(<<>>, 0, 1 - 1, 0)
      BY <3>1 DEF Behind
    <3>3. Fresh.state = "start" /\ ~Fresh.last
      BY DEF Fresh
    <3> QED
      BY <3>2, <3>3, StateNames DEF Hears
  <2> QED
    BY <2>1, <2>2, <2>3, <2>4 DEF Listens
<1>8. Far(s)
  BY <1>2, <1>5, <1>6, <1>7 DEF Far
<1> QED
  BY <1>3, <1>4, <1>8

LEMMA FarStep ==
    ASSUME TypeInv, WireInv, FarInv, [Next]_vars
    PROVE  FarInv'
<1>1. ASSUME NEW m \in Requests, Request, Say("up", m) PROVE FarInv'
  BY <1>1, FarRequest
<1>2. ASSUME NEW m \in Responses, Respond, Say("down", m) PROVE FarInv'
  BY <1>2, FarRespond
<1>3. \A s \in Side : Finishes(s)
  BY DEF FarInv
<1>4. ASSUME said' = said, out' = out, delivered' = delivered, heard' = heard, slot' = slot
      PROVE  FarInv'
  BY <1>3, <1>4, FinishesStays, FarSame
<1>5. CASE OriginCloses
  BY <1>4, <1>5 DEF OriginCloses, peerVars, outVars, takenVars
<1>6. CASE Connected
  BY <1>6, ConnectedIs, FarFlushes, Sides
<1>7. ASSUME NEW s \in Side, ReadCb(s) PROVE FarInv'
  BY <1>4, <1>7 DEF ReadCb, peerVars, outVars, takenVars
<1>8. ASSUME NEW s \in Side, Parse(s) PROVE FarInv'
  BY <1>8, FarParse
<1>9. ASSUME NEW s \in Side, ReadDone(s) PROVE FarInv'
  BY <1>9, ReadDoneIs, FarFlushes
<1>10. ASSUME NEW s \in Side, Deliver(s) PROVE FarInv'
  BY <1>10, FarDeliver
<1>11. CASE UNCHANGED vars
  BY <1>4, <1>11 DEF vars
<1> QED
  BY <1>1, <1>2, <1>5, <1>6, <1>7, <1>8, <1>9, <1>10, <1>11, Steps1

\* What the far peer has received is what it was sent.
LEMMA FarSurvive ==
    ASSUME FarInv
    PROVE  MessagesSurvive
<1>1. SUFFICES ASSUME NEW s \in Side, NEW n \in DOMAIN heard[Other(s)].got,
                      \A i \in 1..n : i \in DOMAIN said[s] => Unchunked(s, i)
               PROVE  SameMessage(s, n, heard[Other(s)].got[n])
  BY DEF MessagesSurvive
<1>2. Far(s)
  BY DEF FarInv
<1>3. PICK q, D, h : q = out[Other(s)] /\ D = delivered[Other(s)] /\ h = heard[Other(s)]
  OBVIOUS
<1>4. Listens(s, q, D, Count(q), h)
  BY <1>2, <1>3, FarIs
<1>5. Clean(s, n)
  BY <1>1 DEF Clean
<1>6. SameMessage(s, n, h.got[n])
  BY <1>1, <1>3, <1>4, <1>5 DEF Listens, Received
<1> QED
  BY <1>3, <1>6

\* Whatever may be sent: what is not chunked is the same message for the far
\* peer, the body that http_parser finds behind a header being the one that
\* send() has written there.
THEOREM MessagesSurviveCorrect == Spec => []MessagesSurvive
<1>1. TypeInv /\ WireInv /\ FarInv /\ [Next]_vars => FarInv'
  BY FarStep
<1>2. FarInv => MessagesSurvive
  BY FarSurvive
<1> QED
  BY FarInit, WireCorrect, <1>1, <1>2, PTL DEF Spec
=============================================================================
