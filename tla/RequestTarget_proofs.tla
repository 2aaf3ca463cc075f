------------------------ MODULE RequestTarget_proofs ------------------------
(***************************************************************************)
(* Proofs about RequestTarget, for every set of targets of any length,     *)
(* wherever reads end inside them, and every width of off and len.         *)
(***************************************************************************)
EXTENDS RequestTarget, SequenceTheorems, TLAPS

\* Cutting a number down to the width of a field makes it no greater.
LEMMA Remainder ==
    ASSUME NEW x \in Nat, NEW w \in Nat \ {0}
    PROVE  x % w \in Nat /\ x % w <= x
  <1>1. x % w \in 0..(w - 1)
    OBVIOUS
  <1>2. CASE x < w
    OBVIOUS
  <1>3. CASE x >= w
    BY <1>1, <1>3
  <1> QED
    BY <1>2, <1>3

\* http_parser_url.
Url == [set : SUBSET Field, off : [Field -> Nat], len : [Field -> Nat]]

\* field_data[f].len++: nothing else changes, and len may wrap.
LEMMA ExtendedGrows ==
    ASSUME NEW v \in Url, NEW f \in Field
    PROVE  LET w == Extended(v, f)
           IN  /\ w \in Url
               /\ w.set = v.set /\ w.off = v.off
               /\ w.len[f] <= v.len[f] + 1
               /\ \A g \in Field \ {f} : w.len[g] = v.len[g]
  <1>1. (v.len[f] + 1) % Wrap \in Nat /\ (v.len[f] + 1) % Wrap <= v.len[f] + 1
    BY Remainder, TargetAssumption DEF Url
  <1> QED
    BY <1>1 DEF Extended, Url

\* A field that begins at p is one character long.
LEMMA BeginsAt ==
    ASSUME NEW v \in Url, NEW f \in Field, NEW p \in Nat
    PROVE  LET w == Begins(v, f, p)
           IN  /\ w \in Url
               /\ w.set = v.set \cup {f}
               /\ w.off[f] <= p /\ w.len[f] = 1
               /\ \A g \in Field \ {f} : w.off[g] = v.off[g] /\ w.len[g] = v.len[g]
  <1>1. p % Wrap \in Nat /\ p % Wrap <= p
    BY Remainder, TargetAssumption
  <1> QED
    BY <1>1 DEF Begins, Url

\* A request target is a string, in each of its forms.
LEMMA WrittenType ==
    ASSUME target \in Targets, form \in Forms
    PROVE  Written \in Seq(Char)
  <1>1. /\ target.user \in Seq(Char) /\ target.host \in Seq(Char) /\ target.port \in Seq(Char)
        /\ target.path \in Seq(Char) /\ target.query \in Seq(Char)
        /\ target.fragment \in Seq(Char)
    <2>1. Digit \subseteq Char
      BY DEF Digit, Char, UrlChar, UserinfoChar, HostChar
    <2>2. target \in Target /\ target.port \in Seq(Digit)
      BY TargetAssumption DEF Target
    <2> QED
      BY <2>1, <2>2 DEF Target
  <1>2. {"g", "a", ":", "/"} \subseteq Char
    BY DEF Char, UrlChar, UserinfoChar, HostChar, Alpha
  <1>3. Scheme \in Seq(Char) /\ <<":", "/", "/">> \in Seq(Char) /\ <<":">> \in Seq(Char)
    BY <1>2 DEF Scheme
  <1>4. Colon(target.port) \in Seq(Char)
    BY <1>1, <1>3 DEF Colon
  <1>5. Authority(target) \in Seq(Char)
    BY <1>1, <1>4 DEF Authority
  <1>6. CASE form = "absolute"
    BY <1>6, <1>1, <1>3, <1>5 DEF Written
  <1>7. CASE form = "origin"
    BY <1>7, <1>1 DEF Written
  <1>8. CASE form = "authority"
    BY <1>8, <1>5 DEF Written
  <1>9. CASE form = "http2"
    BY <1>9, <1>1 DEF Written
  <1> QED
    BY <1>6, <1>7, <1>8, <1>9, TargetAssumption

\* The states of http_parse_host in front of the host itself.
BeforeHost == {"userinfo_start", "userinfo", "host_start", "v6_start"}

\* http_parse_host never goes back to them, and a host begins behind them only.
LEMMA HostStates ==
    ASSUME NEW s \in HostState, NEW ch
    PROVE  LET n == http_parse_host_char(s, ch)
           IN  /\ n \in HostState \cup {"dead"}
               /\ n \in BeforeHost \cup {"host", "v6"} => s = n \/ s \in BeforeHost
  <1>1. CASE s \in {"userinfo_start", "userinfo"}
    BY <1>1 DEF http_parse_host_char, HostState, BeforeHost
  <1>2. CASE s = "host_start"
    BY <1>2 DEF http_parse_host_char, HostState, BeforeHost
  <1>3. CASE s \in {"host", "v6_end"}
    BY <1>3 DEF http_parse_host_char, HostState, BeforeHost
  <1>4. CASE s \in {"v6_start", "v6"}
    BY <1>4 DEF http_parse_host_char, HostState, BeforeHost
  <1>5. CASE s \in {"zone_start", "zone"}
    BY <1>5 DEF http_parse_host_char, HostState, BeforeHost
  <1>6. CASE s \in {"port_start", "port"}
    BY <1>6 DEF http_parse_host_char, HostState, BeforeHost
  <1> QED
    BY <1>1, <1>2, <1>3, <1>4, <1>5, <1>6 DEF HostState

\* The fields http_parse_host fills in.
Inner == {"HOST", "PORT", "USERINFO"}

\* One character of the authority: the fields it is made of end behind it, the
\* others stay as they are.
LEMMA HostFieldsGrow ==
    ASSUME u \in Url, at \in Nat, NEW n \in HostState,
           n \in BeforeHost \cup {"host", "v6"} => hostState = n \/ hostState \in BeforeHost,
           hostState \in BeforeHost => u.len["HOST"] = 0,
           \A f \in u.set \cap Inner : u.off[f] + u.len[f] <= at
    PROVE  LET w == HostFields(u, n)
           IN  /\ w \in Url
               /\ \A f \in w.set \cap Inner : w.off[f] + w.len[f] <= at + 1
               /\ \A f \in w.set \ Inner :
                     f \in u.set /\ w.off[f] = u.off[f] /\ w.len[f] = u.len[f]
               /\ n \in BeforeHost => w.len["HOST"] = 0
  <1> DEFINE w == HostFields(u, n)
             Grown(x) == /\ x \in Url
                         /\ \A f \in x.set \cap Inner : x.off[f] + x.len[f] <= at + 1
                         /\ \A f \in x.set \ Inner :
                               f \in u.set /\ x.off[f] = u.off[f] /\ x.len[f] = u.len[f]
  <1> USE DEF Inner
  <1>1. {"HOST", "PORT", "USERINFO"} \subseteq Field
    BY DEF Field
  <1>2. ASSUME NEW f \in Inner
        PROVE  Grown(Extended(u, f)) /\ (f # "HOST" => Extended(u, f).len["HOST"] = u.len["HOST"])
    <2>1. f \in Field
      BY <1>1
    <2> HIDE DEF Inner
    <2>2. /\ Extended(u, f) \in Url
          /\ Extended(u, f).set = u.set /\ Extended(u, f).off = u.off
          /\ Extended(u, f).len[f] <= u.len[f] + 1
          /\ \A g \in Field \ {f} : Extended(u, f).len[g] = u.len[g]
      BY <2>1, ExtendedGrows
    <2> DEFINE x == Extended(u, f)
    <2> HIDE DEF x
    <2>3. ASSUME NEW g \in x.set \cap Inner
          PROVE  x.off[g] + x.len[g] <= at + 1
      <3>1. u.off[g] \in Nat /\ u.len[g] \in Nat /\ u.off[g] + u.len[g] <= at
        BY <1>1, <2>2, <2>3 DEF Url, Inner, x
      <3>2. x.off[g] = u.off[g] /\ x.len[g] \in Nat /\ x.len[g] <= u.len[g] + 1
        BY <1>1, <2>2, <2>3, <3>1 DEF Url, Inner, x
      <3> QED
        BY <3>1, <3>2
    <2> QED
      BY <1>1, <2>1, <2>2, <2>3 DEF Url, Inner, x
  <1>3. ASSUME NEW f \in {"PORT", "USERINFO"}
        PROVE  Grown(Begins(u, f, at)) /\ Begins(u, f, at).len["HOST"] = u.len["HOST"]
    <2>1. f \in Field
      BY <1>1
    <2>2. /\ Begins(u, f, at) \in Url
          /\ Begins(u, f, at).set = u.set \cup {f}
          /\ Begins(u, f, at).off[f] <= at /\ Begins(u, f, at).len[f] = 1
          /\ \A g \in Field \ {f} : /\ Begins(u, f, at).off[g] = u.off[g]
                                    /\ Begins(u, f, at).len[g] = u.len[g]
      BY <2>1, BeginsAt
    <2> DEFINE x == Begins(u, f, at)
    <2> HIDE DEF x
    <2>3. ASSUME NEW g \in x.set \cap Inner
          PROVE  x.off[g] + x.len[g] <= at + 1
      <3>1. CASE g = f
        BY <1>1, <2>1, <2>2, <3>1 DEF Url, x
      <3>2. CASE g # f
        BY <1>1, <2>1, <2>2, <2>3, <3>2 DEF Url, x
      <3> QED
        BY <3>1, <3>2
    <2> QED
      BY <1>1, <2>1, <2>2, <2>3 DEF Url, x
  <1>4. CASE n \in {"host", "v6"}
    <2>1. w = InHost(u, n)
      BY <1>4 DEF HostFields
    <2>2. CASE n = hostState
      BY <1>4, <2>1, <2>2, <1>2 DEF InHost, BeforeHost
    <2>3. CASE n # hostState
      <3> DEFINE v == [u EXCEPT !.off["HOST"] = at % Wrap]
      <3>1. w = Extended(v, "HOST")
        BY <2>1, <2>3 DEF InHost
      <3>2. at % Wrap \in Nat /\ at % Wrap <= at
        BY Remainder, TargetAssumption
      <3>3. /\ v \in Url /\ v.set = u.set /\ v.len = u.len /\ v.off["HOST"] <= at
            /\ \A g \in Field \ {"HOST"} : v.off[g] = u.off[g]
        BY <1>1, <3>2 DEF Url
      <3>4. u.len["HOST"] = 0
        BY <1>4, <2>3
      <3> HIDE DEF v
      <3>5. /\ Extended(v, "HOST") \in Url
            /\ Extended(v, "HOST").set = v.set /\ Extended(v, "HOST").off = v.off
            /\ Extended(v, "HOST").len["HOST"] <= v.len["HOST"] + 1
            /\ \A g \in Field \ {"HOST"} : Extended(v, "HOST").len[g] = v.len[g]
        BY <1>1, <3>3, ExtendedGrows
      <3> QED
        BY <1>1, <1>4, <3>1, <3>3, <3>4, <3>5 DEF Url, BeforeHost
    <2> QED
      BY <2>2, <2>3
  <1>5. CASE n \in {"zone_start", "zone"}
    <2>1. w = Extended(u, "HOST")
      BY <1>5 DEF HostFields
    <2> QED
      BY <1>2, <1>5, <2>1 DEF BeforeHost
  <1>6. CASE n \in {"port", "userinfo"}
    <2>1. PICK f \in {"PORT", "USERINFO"} : w = Extended(u, f) \/ w = Begins(u, f, at)
      BY <1>6 DEF HostFields
    <2>2. Grown(w) /\ w.len["HOST"] = u.len["HOST"]
      BY <1>2, <1>3, <2>1
    <2> QED
      BY <1>6, <2>2 DEF BeforeHost
  <1>7. CASE n \notin {"host", "v6", "zone_start", "zone", "port", "userinfo"}
    <2>1. w = u
      BY <1>7 DEF HostFields
    <2> QED
      BY <1>7, <2>1 DEF BeforeHost, Url
  <1> QED
    BY <1>4, <1>5, <1>6, <1>7

-----------------------------------------------------------------------------
(***************************************************************************)
(* The inductive invariant.  In the loop of http_parser_parse_url every    *)
(* field ends where the loop is at the latest.  http_parse_host counts     *)
(* HOST anew from 0 while the other fields keep what they were given, so   *)
(* it is HOST, PORT and USERINFO that end where its loop is; and HOST is   *)
(* still empty when its offset is set, which the bound rests on.           *)
(***************************************************************************)
InputTyped ==
    /\ target \in Targets /\ form \in Forms
    /\ pos \in 0..(Len(Written) + 1) /\ mark \in 0..pos
    /\ pc = "reading" => pos <= Len(Written)
    /\ uri \in Seq(Char)

LoopsTyped == u \in Url /\ at \in Nat /\ hostEnd \in Nat /\ hostState \in HostState

UrlLoop ==
    pc = "url" => /\ at <= Len(uri)
                  /\ u.set \cap {"PORT", "USERINFO"} = {}
                  /\ \A f \in u.set : u.off[f] + u.len[f] <= at

HostLoop ==
    pc = "host" => /\ at <= hostEnd /\ hostEnd <= Len(uri)
                   /\ hostState \in BeforeHost => u.len["HOST"] = 0
                   /\ \A f \in u.set \cap Inner : u.off[f] + u.len[f] <= at

IInv == InputTyped /\ LoopsTyped /\ UrlLoop /\ HostLoop /\ FieldsWithin

\* The http_parser_url both loops start with.
LEMMA NothingTyped == Nothing \in Url /\ Nothing.set = {}
  BY DEF Nothing, Url

\* The invariant holds when the request is about to be read.
LEMMA InitIInv == Init => IInv
  <1> SUFFICES ASSUME Init PROVE IInv
    OBVIOUS
  <1>1. target \in Targets /\ form \in Forms
    BY DEF Init
  <1>2. Written \in Seq(Char)
    BY <1>1, WrittenType
  <1>3. uri \in Seq(Char) /\ InputTyped
    BY <1>1, <1>2 DEF Init, InputTyped
  <1>4. LoopsTyped
    BY NothingTyped DEF Init, LoopsTyped, HostState
  <1>5. UrlLoop /\ HostLoop /\ FieldsWithin
    BY <1>3, NothingTyped DEF Init, UrlLoop, HostLoop, FieldsWithin
  <1> QED
    BY <1>3, <1>4, <1>5 DEF IInv

\* A callback leaves the loops at their beginning, or untouched.
LEMMA CallbackKeeps ==
    ASSUME IInv, NEW piece \in Seq(Char), NEW next \in {"header", "reading"},
           htp_uricb(piece, next), UNCHANGED inputVars,
           pos' \in 0..(Len(Written) + 1), mark' \in 0..pos',
           pc' = "reading" => pos' <= Len(Written)
    PROVE  IInv'
  <1>1. Written' = Written
    BY DEF Written, inputVars, Authority, Colon, Scheme
  <1>2. CASE form = "authority"
    <2>1. pc' = next /\ UNCHANGED <<uri, loopVars>>
      BY <1>2 DEF htp_uricb
    <2> QED
      BY <1>1, <2>1 DEF IInv, InputTyped, LoopsTyped, UrlLoop, HostLoop, FieldsWithin,
                        inputVars, loopVars
  <1>3. CASE form # "authority"
    <2>1. BeginUrl(piece)
      BY <1>3 DEF htp_uricb
    <2>2. InputTyped'
      BY <1>1, <2>1 DEF BeginUrl, IInv, InputTyped, inputVars
    <2>3. LoopsTyped'
      BY <2>1, NothingTyped DEF BeginUrl, LoopsTyped, HostState
    <2>4. UrlLoop' /\ HostLoop' /\ FieldsWithin'
      BY <2>1, NothingTyped DEF BeginUrl, UrlLoop, HostLoop, FieldsWithin
    <2> QED
      BY <2>2, <2>3, <2>4 DEF IInv
  <1> QED
    BY <1>2, <1>3

\* Every step keeps the invariant.
LEMMA NextIInv == IInv /\ [Next]_vars => IInv'
  <1> SUFFICES ASSUME IInv, [Next]_vars PROVE IInv'
    OBVIOUS
  <1>1. Written \in Seq(Char) /\ Len(Written) \in Nat
    BY WrittenType DEF IInv, InputTyped
  <1>2. UNCHANGED inputVars => Written' = Written
    BY DEF Written, inputVars, Authority, Colon, Scheme
  <1>3. uri \in Seq(Char) /\ Len(uri) \in Nat
    BY DEF IInv, InputTyped
  <1>4. CASE ReadChar
    BY <1>1, <1>2, <1>4 DEF ReadChar, IInv, InputTyped, LoopsTyped, UrlLoop, HostLoop,
                            FieldsWithin, inputVars, loopVars
  <1>5. CASE TargetEnds
    <2>1. CASE state \in MayEnd
      <3>1. htp_uricb(SubSeq(Written, mark + 1, pos), "header") /\ pos' = pos + 1
        BY <1>5, <2>1 DEF TargetEnds
      <3>2. SubSeq(Written, mark + 1, pos) \in Seq(Char)
        BY <1>1, <1>5, SubSeqProperties DEF TargetEnds, IInv, InputTyped
      <3>3. pc' # "reading"
        BY <3>1 DEF htp_uricb, BeginUrl
      <3>4. pos' \in 0..(Len(Written) + 1) /\ mark' \in 0..pos'
        BY <1>1, <1>5, <3>1 DEF TargetEnds, IInv, InputTyped
      <3> QED
        BY <1>5, <3>1, <3>2, <3>3, <3>4, CallbackKeeps DEF TargetEnds
    <2>2. CASE state \notin MayEnd
      BY <1>2, <1>5, <2>2 DEF TargetEnds, IInv, InputTyped, LoopsTyped, UrlLoop, HostLoop,
                              FieldsWithin, inputVars, loopVars
    <2> QED
      BY <2>1, <2>2
  <1>6. CASE ReadEnds
    <2>1. htp_uricb(SubSeq(Written, mark + 1, pos), "reading")
      BY <1>6 DEF ReadEnds
    <2>2. SubSeq(Written, mark + 1, pos) \in Seq(Char)
      BY <1>1, <1>6, SubSeqProperties DEF ReadEnds, IInv, InputTyped
    <2>3. pos' \in 0..(Len(Written) + 1) /\ mark' \in 0..pos' /\ pos' <= Len(Written)
      BY <1>1, <1>6 DEF ReadEnds, IInv, InputTyped
    <2> QED
      BY <1>6, <2>1, <2>2, <2>3, CallbackKeeps DEF ReadEnds
  <1>7. CASE UrlStep
    <2> DEFINE s == parse_url_char(urlState, uri[at + 1])
               uf == FieldOf(s)
    <2>1. CASE s = "dead"
      BY <1>2, <1>7, <2>1 DEF UrlStep, Exit, IInv, InputTyped, LoopsTyped, UrlLoop, HostLoop,
                              FieldsWithin, inputVars, readVars, loopVars
    <2>2. CASE s # "dead"
      <3>1. /\ pc = "url" /\ at < Len(uri) /\ at' = at + 1
            /\ u' = CASE uf = NoField -> u
                      [] uf # NoField /\ uf = old_uf -> Extended(u, uf)
                      [] uf # NoField /\ uf # old_uf -> Begins(u, uf, at)
            /\ UNCHANGED <<inputVars, readVars, pc, uri, hostState, hostEnd>>
        BY <1>7, <2>2 DEF UrlStep
      <3>2. uf \in {"SCHEMA", "HOST", "PATH", "QUERY", "FRAGMENT", NoField}
        BY DEF FieldOf
      <3>3. u' = u \/ (uf # NoField /\ (u' = Extended(u, uf) \/ u' = Begins(u, uf, at)))
        BY <3>1
      <3> HIDE DEF s, uf
      <3>4. /\ u \in Url /\ at \in Nat /\ u.set \cap {"PORT", "USERINFO"} = {}
            /\ \A f \in u.set : u.off[f] + u.len[f] <= at
        BY <3>1 DEF IInv, LoopsTyped, UrlLoop
      <3>5. /\ u' \in Url /\ u'.set \cap {"PORT", "USERINFO"} = {}
            /\ \A f \in u'.set : u'.off[f] + u'.len[f] <= at + 1
        <4>1. CASE u' = u
          BY <3>4, <4>1 DEF Url
        <4>2. CASE uf # NoField /\ u' = Extended(u, uf)
          <5>1. uf \in Field \ {"PORT", "USERINFO"}
            BY <3>2, <4>2 DEF Field, NoField
          <5>2. /\ u' \in Url /\ u'.set = u.set /\ u'.off = u.off
                /\ u'.len[uf] <= u.len[uf] + 1
                /\ \A g \in Field \ {uf} : u'.len[g] = u.len[g]
            BY <3>4, <4>2, <5>1, ExtendedGrows
          <5> QED
            BY <3>4, <5>1, <5>2 DEF Url
        <4>3. CASE uf # NoField /\ u' = Begins(u, uf, at)
          <5>1. uf \in Field \ {"PORT", "USERINFO"}
            BY <3>2, <4>3 DEF Field, NoField
          <5>2. /\ u' \in Url /\ u'.set = u.set \cup {uf}
                /\ u'.off[uf] <= at /\ u'.len[uf] = 1
                /\ \A g \in Field \ {uf} : u'.off[g] = u.off[g] /\ u'.len[g] = u.len[g]
            BY <3>4, <4>3, <5>1, BeginsAt
          <5> QED
            BY <3>4, <5>1, <5>2 DEF Url
        <4> QED
          BY <3>3, <4>1, <4>2, <4>3
      <3>6. InputTyped' /\ LoopsTyped'
        BY <1>2, <3>1, <3>4, <3>5 DEF IInv, InputTyped, LoopsTyped, inputVars, readVars
      <3>7. UrlLoop' /\ HostLoop' /\ FieldsWithin'
        BY <1>3, <3>1, <3>4, <3>5 DEF UrlLoop, HostLoop, FieldsWithin, Url
      <3> QED
        BY <3>6, <3>7 DEF IInv
    <2> QED
      BY <2>1, <2>2
  <1>8. CASE UrlDone
    <2>1. CASE "HOST" \notin u.set
      BY <1>2, <1>8, <2>1 DEF UrlDone, Exit, IInv, InputTyped, LoopsTyped, UrlLoop, HostLoop,
                              FieldsWithin, inputVars, readVars, loopVars
    <2>2. CASE "HOST" \in u.set
      <3>1. /\ pc = "url" /\ pc' = "host"
            /\ at' = u.off["HOST"] /\ hostEnd' = u.off["HOST"] + u.len["HOST"]
            /\ u' = [u EXCEPT !.len["HOST"] = 0]
            /\ hostState' \in HostState
            /\ UNCHANGED <<inputVars, readVars, uri>>
        BY <1>8, <2>2 DEF UrlDone, HostEnd, Recounted, FirstState, HostState
      <3>2. /\ u \in Url /\ u.set \cap {"PORT", "USERINFO"} = {}
            /\ \A f \in u.set : u.off[f] + u.len[f] <= Len(uri)
        BY <3>1 DEF IInv, LoopsTyped, UrlLoop, FieldsWithin
      <3>3. /\ u' \in Url /\ u'.set = u.set /\ u'.off = u.off /\ u'.len["HOST"] = 0
            /\ \A f \in Field \ {"HOST"} : u'.len[f] = u.len[f]
        BY <3>1, <3>2 DEF Url, Field
      <3>4. u.off["HOST"] \in Nat /\ u.len["HOST"] \in Nat
        BY <3>2 DEF Url, Field
      <3>5. InputTyped' /\ LoopsTyped'
        BY <1>2, <3>1, <3>3, <3>4, SMTT(30) DEF IInv, InputTyped, LoopsTyped, inputVars, readVars
      <3>6. ASSUME NEW f \in u'.set
            PROVE  u'.off[f] + u'.len[f] <= Len(uri)
        <4>1. f \in Field /\ u.off[f] \in Nat /\ u.len[f] \in Nat
          BY <3>2, <3>3 DEF Url
        <4>2. u'.off[f] = u.off[f] /\ u'.len[f] <= u.len[f] /\ u'.len[f] \in Nat
          BY <3>3, <4>1
        <4> QED
          BY <1>3, <3>2, <3>3, <4>1, <4>2
      <3>7. UrlLoop' /\ HostLoop' /\ FieldsWithin'
        BY <2>2, <3>1, <3>2, <3>3, <3>4, <3>6
           DEF UrlLoop, HostLoop, FieldsWithin, Inner
      <3> QED
        BY <3>5, <3>7 DEF IInv
    <2> QED
      BY <2>1, <2>2
  <1>9. CASE HostStep
    <2> DEFINE s == http_parse_host_char(hostState, uri[at + 1])
    <2>1. CASE s = "dead"
      BY <1>2, <1>9, <2>1 DEF HostStep, Exit, IInv, InputTyped, LoopsTyped, UrlLoop, HostLoop,
                              FieldsWithin, inputVars, readVars, loopVars
    <2>2. CASE s # "dead"
      <3>1. /\ pc = "host" /\ at < hostEnd /\ at' = at + 1
            /\ u' = HostFields(u, s) /\ hostState' = s
            /\ UNCHANGED <<inputVars, readVars, pc, uri, hostEnd>>
        BY <1>9, <2>2 DEF HostStep
      <3>2. /\ s \in HostState
            /\ s \in BeforeHost \cup {"host", "v6"} => hostState = s \/ hostState \in BeforeHost
        BY <2>2, HostStates DEF IInv, LoopsTyped
      <3> HIDE DEF s
      <3>3. /\ u \in Url /\ at \in Nat /\ hostEnd \in Nat /\ hostEnd <= Len(uri)
            /\ hostState \in BeforeHost => u.len["HOST"] = 0
            /\ \A f \in u.set \cap Inner : u.off[f] + u.len[f] <= at
        BY <3>1 DEF IInv, LoopsTyped, HostLoop
      <3>4. /\ u' \in Url
            /\ \A f \in u'.set \cap Inner : u'.off[f] + u'.len[f] <= at + 1
            /\ \A f \in u'.set \ Inner :
                  f \in u.set /\ u'.off[f] = u.off[f] /\ u'.len[f] = u.len[f]
            /\ s \in BeforeHost => u'.len["HOST"] = 0
        BY <3>1, <3>2, <3>3, HostFieldsGrow
      <3>5. InputTyped' /\ LoopsTyped'
        BY <1>2, <3>1, <3>2, <3>3, <3>4 DEF IInv, InputTyped, LoopsTyped, inputVars, readVars
      <3>6. UrlLoop' /\ HostLoop'
        BY <1>3, <3>1, <3>3, <3>4 DEF UrlLoop, HostLoop
      <3>7. ASSUME NEW f \in u'.set
            PROVE  u'.off[f] + u'.len[f] <= Len(uri)
        <4>1. CASE f \in Inner
          BY <1>3, <3>1, <3>3, <3>4, <4>1 DEF Url
        <4>2. CASE f \notin Inner
          BY <3>1, <3>4, <4>2 DEF IInv, FieldsWithin
        <4> QED
          BY <4>1, <4>2
      <3> QED
        BY <3>1, <3>5, <3>6, <3>7 DEF IInv, FieldsWithin
    <2> QED
      BY <2>1, <2>2
  <1>10. CASE HostDone
    BY <1>2, <1>10 DEF HostDone, Exit, IInv, InputTyped, LoopsTyped, UrlLoop, HostLoop,
                       FieldsWithin, inputVars, readVars, loopVars
  <1>11. CASE parseURI
    BY <1>1, <1>2, <1>11 DEF parseURI, IInv, InputTyped, LoopsTyped, UrlLoop, HostLoop,
                             FieldsWithin, inputVars, readVars, loopVars
  <1>12. CASE HostHeader
    BY <1>2, <1>12 DEF HostHeader, IInv, InputTyped, LoopsTyped, UrlLoop, HostLoop,
                       FieldsWithin, inputVars, readVars, loopVars
  <1>13. CASE UNCHANGED vars
    BY <1>2, <1>13 DEF vars, IInv, InputTyped, LoopsTyped, UrlLoop, HostLoop,
                       FieldsWithin, inputVars, readVars, loopVars
  <1> QED
    BY <1>4, <1>5, <1>6, <1>7, <1>8, <1>9, <1>10, <1>11, <1>12, <1>13 DEF Next

(***************************************************************************)
(* The fields that parseURI assigns from lie within the URI, for every     *)
(* target however long, every piece of it and at every turn of both loops. *)
(***************************************************************************)
THEOREM FieldsWithinCorrect == Spec => []FieldsWithin
  <1>1. IInv => FieldsWithin
    BY DEF IInv
  <1> QED
    BY <1>1, InitIInv, NextIInv, PTL DEF Spec
=============================================================================
