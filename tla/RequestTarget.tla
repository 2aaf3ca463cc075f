---------------------------- MODULE RequestTarget ----------------------------
(***************************************************************************)
(* Where a request goes: from the request target and the Host field or     *)
(* :authority to the host, port and path the proxy works with.  For an     *)
(* HTTP/1 request http_parser walks through the target and calls htp_uricb *)
(* with it; parseURI takes it apart with http_parser_parse_url and         *)
(* http_parse_host, one character per step; CONNECT and :authority go      *)
(* through parseAuthority.  A read may end anywhere in the target, and     *)
(* then htp_uricb is called once for each piece of it.                     *)
(*                                                                         *)
(* A character stands for its class: "a" for the letters that are          *)
(* hexadecimal digits, "g" for the others, "=" for a character that may be *)
(* anywhere behind the host.                                               *)
(***************************************************************************)
EXTENDS Integers, SequencesExt

CONSTANTS
    Targets,    \* the targets requests are made for (Target)
    Forms,      \* how they are written: see Written
    Tls,        \* does the listener speak TLS to origins (a set of BOOLEANs)
    MaxCuts,    \* bound: reads that end inside a target
    Wrap        \* one more than off and len of a field can hold: 65536 in the code,
                \* where a header may have 80 KiB

Alpha == {"a", "g"}
Digit == {"0", "1", "2", "3", "4", "5", "6", "7", "8", "9"}
HexDigit == Digit \cup {"a"}
HostChar == Alpha \cup Digit \cup {".", "-"}
UserinfoChar == HostChar \cup {":", "=", "%", "*", "_", "~"}
UrlChar == UserinfoChar \cup {"/", "@", "[", "]"}
Char == UrlChar \cup {"?", "#"}

\* A component that is absent is an empty sequence; path, query and fragment
\* come with the mark in front of them, userinfo with the one behind it.
Target == [user : Seq(Char), host : Seq(Char), port : Seq(Digit),
           path : Seq(Char), query : Seq(Char), fragment : Seq(Char)]

ASSUME TargetAssumption ==
    /\ Targets \subseteq Target
    /\ Forms \subseteq {"absolute", "origin", "authority", "http2"}
    /\ Tls \subseteq BOOLEAN
    /\ MaxCuts \in Nat
    /\ Wrap \in Nat \ {0, 1}

VARIABLES
    target,     \* what the request is made for
    form,       \* how that is written
    tls,        \* does this connection go on over TLS
    pc,         \* "reading": http_parser walks through the target; "url" and
                \* "host": the loops of http_parser_parse_url; "fields": what
                \* parseURI takes from them; "header": the Host field or
                \* :authority; "done", "refused" (HPE_INVALID_URL), "exited"
    state,      \* p_state of http_parser
    pos,        \* characters of the target it has seen
    mark,       \* url_mark: where the piece htp_uricb is given begins
    cuts,       \* reads that have ended inside the target
    uri,        \* the piece being parsed
    at,         \* p - buf in the loop that runs
    urlState,   \* s of http_parser_parse_url
    hostState,  \* s of http_parse_host
    old_uf,     \* the field the last character belonged to
    found_at,   \* has an "@" been seen in the authority
    hostEnd,    \* buflen of http_parse_host
    u,          \* the http_parser_url: field_set, and field_data's off and len
    request     \* scheme, host, port and path of the HttpRequest

vars == <<target, form, tls, pc, state, pos, mark, cuts, uri, at, urlState, hostState,
          old_uf, found_at, hostEnd, u, request>>
inputVars == <<target, form, tls>>
readVars == <<state, pos, mark, cuts>>
loopVars == <<at, urlState, hostState, old_uf, found_at, hostEnd, u>>

Field == {"SCHEMA", "HOST", "PORT", "USERINFO", "PATH", "QUERY", "FRAGMENT"}
NoField == "MAX"

\* How the target is written in each form, and what comes in the Host field or
\* in :authority.
Colon(port) == IF port = <<>> THEN <<>> ELSE <<":">> \o port
Authority(t) == t.host \o Colon(t.port)
Scheme == <<"g", "a">>
Written ==
    CASE form = "absolute" -> Scheme \o <<":", "/", "/">> \o target.user \o Authority(target)
                                \o target.path \o target.query \o target.fragment
      [] form = "origin" -> target.path \o target.query \o target.fragment
      [] form = "authority" -> Authority(target)
      [] form = "http2" -> target.path \o target.query
Named == IF form = "authority" THEN <<>> ELSE Authority(target)

-----------------------------------------------------------------------------
(***************************************************************************)
(* The character automata of http_parser.                                  *)
(***************************************************************************)
parse_url_char(s, ch) ==
    CASE s = "spaces_before_url" ->
           IF ch \in {"/", "*"} THEN "path" ELSE IF ch \in Alpha THEN "schema" ELSE "dead"
      [] s = "schema" ->
           IF ch \in Alpha THEN "schema" ELSE IF ch = ":" THEN "schema_slash" ELSE "dead"
      [] s = "schema_slash" -> IF ch = "/" THEN "schema_slash_slash" ELSE "dead"
      [] s = "schema_slash_slash" -> IF ch = "/" THEN "server_start" ELSE "dead"
      [] s \in {"server_start", "server", "server_with_at"} ->
           CASE ch = "/" -> "path"
             [] ch = "?" -> "query_start"
             [] ch = "@" -> IF s = "server_with_at" THEN "dead" ELSE "server_with_at"
             [] ch \in UserinfoChar \cup {"[", "]"} -> "server"
             [] OTHER -> "dead"
      [] s = "path" ->
           CASE ch \in UrlChar -> "path"
             [] ch = "?" -> "query_start"
             [] ch = "#" -> "fragment_start"
             [] OTHER -> "dead"
      [] s \in {"query_start", "query"} -> IF ch = "#" THEN "fragment_start" ELSE "query"
      [] s = "fragment_start" -> IF ch = "#" THEN "fragment_start" ELSE "fragment"
      [] s = "fragment" -> "fragment"

http_parse_host_char(s, ch) ==
    CASE s \in {"userinfo_start", "userinfo"} ->
           IF ch = "@" THEN "host_start" ELSE IF ch \in UserinfoChar THEN "userinfo" ELSE "dead"
      [] s = "host_start" ->
           IF ch = "[" THEN "v6_start" ELSE IF ch \in HostChar THEN "host" ELSE "dead"
      [] s = "host" ->
           IF ch \in HostChar THEN "host" ELSE IF ch = ":" THEN "port_start" ELSE "dead"
      [] s = "v6_end" -> IF ch = ":" THEN "port_start" ELSE "dead"
      [] s \in {"v6_start", "v6"} ->
           CASE ch = "]" /\ s = "v6" -> "v6_end"
             [] ch \in HexDigit \cup {":", "."} -> "v6"
             [] ch = "%" /\ s = "v6" -> "zone_start"
             [] OTHER -> "dead"
      [] s \in {"zone_start", "zone"} ->
           CASE ch = "]" /\ s = "zone" -> "v6_end"
             [] ch \in HostChar \cup {"%", "_", "~"} -> "zone"
             [] OTHER -> "dead"
      [] s \in {"port_start", "port"} -> IF ch \in Digit THEN "port" ELSE "dead"

\* Where a host may not end.
Unfinished == {"host_start", "v6_start", "v6", "zone_start", "zone", "port_start",
               "userinfo", "userinfo_start"}

-----------------------------------------------------------------------------
(***************************************************************************)
(* http_parser_execute on the target, and its callback.                    *)
(***************************************************************************)
Start == IF form = "authority" THEN "server_start" ELSE "spaces_before_url"

\* A target may be over in these states only.
MayEnd == {"server", "server_with_at", "path", "query_start", "query",
           "fragment_start", "fragment"}

ReadChar ==
    /\ pc = "reading" /\ pos < Len(Written)
    /\ state' = parse_url_char(state, Written[pos + 1])
    /\ IF state' = "dead" THEN pc' = "refused" /\ UNCHANGED pos
                          ELSE pos' = pos + 1 /\ UNCHANGED pc
    /\ UNCHANGED <<inputVars, mark, cuts, uri, loopVars, request>>

Nothing == [set |-> {}, off |-> [f \in Field |-> 0], len |-> [f \in Field |-> 0]]

\* The number a sequence of digits stands for.
DigitValue == [d \in Digit |-> CHOOSE n \in 0..9 : ToString(n) = d]
Value(digits) == FoldLeft(LAMBDA v, d : 10 * v + DigitValue[d], 0, digits)
\* atoi: the digits in front.
Leading(s) == SelectInSeq(s, LAMBDA c : c \notin Digit)
atoi(s) == Value(IF Leading(s) = 0 THEN s ELSE SubSeq(s, 1, Leading(s) - 1))

ParsedAuthority(r, auth) ==      \* r after parseAuthority
    LET portpos == SelectInSeq(auth, LAMBDA c : c = ":")
    IN  IF portpos = 0 THEN [r EXCEPT !.host = auth]
        ELSE [r EXCEPT !.host = SubSeq(auth, 1, portpos - 1),
                       !.port = atoi(SubSeq(auth, portpos + 1, Len(auth))) % 65536]

\* parseURI begins: http_parser_parse_url refuses an empty string.
BeginUrl(piece) ==
    /\ pc' = IF piece = <<>> THEN "exited" ELSE "url"
    /\ uri' = piece
    /\ at' = 0
    /\ urlState' = "spaces_before_url" /\ hostState' = "host_start"
    /\ old_uf' = NoField /\ found_at' = FALSE /\ hostEnd' = 0
    /\ u' = Nothing
    /\ UNCHANGED request

\* htp_uricb: parseAuthority for CONNECT, parseURI for other methods.
htp_uricb(piece, next) ==
    IF form = "authority"
    THEN /\ request' = ParsedAuthority(request, piece)
         /\ pc' = next
         /\ UNCHANGED <<uri, loopVars>>
    ELSE BeginUrl(piece)

\* The space behind the target.
TargetEnds ==
    /\ pc = "reading" /\ pos = Len(Written)
    /\ IF state \in MayEnd
       THEN /\ htp_uricb(SubSeq(Written, mark + 1, pos), "header")
            /\ pos' = pos + 1
       ELSE pc' = "refused" /\ UNCHANGED <<uri, loopVars, request, pos>>
    /\ UNCHANGED <<inputVars, state, mark, cuts>>

\* A read ends inside the target: the callback is called with what there is.
ReadEnds ==
    /\ pc = "reading" /\ mark < pos
    /\ cuts < MaxCuts
    /\ htp_uricb(SubSeq(Written, mark + 1, pos), "reading")
    /\ mark' = pos
    /\ cuts' = cuts + 1
    /\ UNCHANGED <<inputVars, state, pos>>

-----------------------------------------------------------------------------
(***************************************************************************)
(* http_parser_parse_url and http_parse_host, one turn of their loops per  *)
(* step; a refusal makes parseURI end the process (errx).                  *)
(***************************************************************************)
Exit == pc' = "exited" /\ UNCHANGED <<inputVars, readVars, uri, loopVars, request>>

FieldOf(s) ==
    CASE s = "schema" -> "SCHEMA"
      [] s \in {"server", "server_with_at"} -> "HOST"
      [] s = "path" -> "PATH"
      [] s = "query" -> "QUERY"
      [] s = "fragment" -> "FRAGMENT"
      [] OTHER -> NoField          \* the delimiters are skipped

\* Field f grows by the character at position p, or begins with it.
Extended(v, f) == [v EXCEPT !.len[f] = (@ + 1) % Wrap]
Begins(v, f, p) == [set |-> v.set \cup {f}, off |-> [v.off EXCEPT ![f] = p % Wrap],
                    len |-> [v.len EXCEPT ![f] = 1]]

UrlStep ==
    /\ pc = "url" /\ at < Len(uri)
    /\ LET s == parse_url_char(urlState, uri[at + 1])
           uf == FieldOf(s)
       IN  IF s = "dead" THEN Exit
           ELSE /\ urlState' = s
                /\ at' = at + 1
                /\ found_at' = (found_at \/ s = "server_with_at")
                /\ old_uf' = IF uf = NoField THEN old_uf ELSE uf
                /\ u' = CASE uf = NoField -> u
                          [] uf # NoField /\ uf = old_uf -> Extended(u, uf)
                          [] uf # NoField /\ uf # old_uf -> Begins(u, uf, at)
                /\ UNCHANGED <<inputVars, readVars, pc, uri, hostState, hostEnd, request>>

HostEndBehind(v) == v.off["HOST"] + v.len["HOST"] + 1      \* a slip: one too far
CountedTwice(v) == v            \* a slip: the length of the authority stays
HostFirst(found) == "host_start"      \* a slip: userinfo is not expected

\* Where http_parse_host stops, what it starts with, and in which state.
HostEnd(v) == v.off["HOST"] + v.len["HOST"]
Recounted(v) == [v EXCEPT !.len["HOST"] = 0]
FirstState(found) == IF found THEN "userinfo_start" ELSE "host_start"

\* The end of the loop: a scheme needs a host; a host is taken apart.
UrlDone ==
    /\ pc = "url" /\ at = Len(uri)
    /\ IF "SCHEMA" \in u.set /\ "HOST" \notin u.set THEN Exit
       ELSE IF "HOST" \notin u.set
       THEN pc' = "fields" /\ UNCHANGED <<inputVars, readVars, uri, loopVars, request>>
       ELSE /\ pc' = "host"
            /\ at' = u.off["HOST"]
            /\ hostEnd' = HostEnd(u)
            /\ u' = Recounted(u)
            /\ hostState' = FirstState(found_at)
            /\ UNCHANGED <<inputVars, readVars, uri, urlState, old_uf, found_at, request>>

InHostUnmoved(v, s) == Extended(v, "HOST")      \* a slip: HOST begins where the authority does

\* A character of the host itself.  HOST keeps its length when it begins: it
\* was set to 0 before the loop.
InHost(v, s) == Extended(IF s = hostState THEN v ELSE [v EXCEPT !.off["HOST"] = at % Wrap], "HOST")

\* What the character at `at' adds to the fields when it leads to state s.
HostFields(v, s) ==
    CASE s \in {"host", "v6"} -> InHost(v, s)
      [] s \in {"zone_start", "zone"} -> Extended(v, "HOST")
      [] s = "port" -> IF s = hostState THEN Extended(v, "PORT") ELSE Begins(v, "PORT", at)
      [] s = "userinfo" ->
           IF s = hostState THEN Extended(v, "USERINFO") ELSE Begins(v, "USERINFO", at)
      [] OTHER -> v

HostStep ==
    /\ pc = "host" /\ at < hostEnd
    /\ LET s == http_parse_host_char(hostState, uri[at + 1])
       IN  IF s = "dead" THEN Exit
           ELSE /\ u' = HostFields(u, s)
                /\ hostState' = s
                /\ at' = at + 1
                /\ UNCHANGED <<inputVars, readVars, pc, uri, urlState, old_uf, found_at,
                               hostEnd, request>>

TextShort(f) == SubSeq(uri, u.off[f] + 1, u.off[f] + u.len[f] - 1)      \* a slip: one too few

Text(f) == SubSeq(uri, u.off[f] + 1, u.off[f] + u.len[f])

HostDone ==
    /\ pc = "host" /\ at = hostEnd
    /\ IF hostState \in Unfinished \/ ("PORT" \in u.set /\ Value(Text("PORT")) > 65535)
       THEN Exit
       ELSE pc' = "fields" /\ UNCHANGED <<inputVars, readVars, uri, loopVars, request>>

-----------------------------------------------------------------------------
(***************************************************************************)
(* What parseURI makes of the fields.  Query and fragment are joined to    *)
(* the path without the mark between them.                                 *)
(***************************************************************************)
Joined(f) == IF f \in u.set THEN Text(f) ELSE <<>>

parseURI ==
    /\ pc = "fields"
    /\ request' =
         [scheme |-> IF "SCHEMA" \in u.set THEN Text("SCHEMA") ELSE request.scheme,
          host |-> IF "HOST" \in u.set THEN Text("HOST") ELSE request.host,
          port |-> IF "PORT" \in u.set THEN Value(Text("PORT")) % 65536 ELSE request.port,
          path |-> (IF "PATH" \in u.set THEN Text("PATH") ELSE <<"/">>)
                     \o Joined("QUERY") \o Joined("FRAGMENT")]
    /\ pc' = IF pos > Len(Written) THEN "header" ELSE "reading"
    /\ UNCHANGED <<inputVars, readVars, uri, loopVars>>

\* The Host field (htp_hdr_valcb) or :authority (on_frame_recv_callback), which
\* count when the target has named no host.
HostHeader ==
    /\ pc = "header"
    /\ request' =
         IF request.host # <<>> \/ Named = <<>> THEN request
         ELSE IF form = "http2" THEN ParsedAuthority(request, Named)
         ELSE [request EXCEPT !.host = Named]
    /\ pc' = "done"
    /\ UNCHANGED <<inputVars, readVars, uri, loopVars>>

\* init_client: the port that is connected to.
Port == IF request.port # 0 THEN request.port ELSE IF tls THEN 443 ELSE 80

-----------------------------------------------------------------------------
\* A request is written in every form its target can be written in; a frame
\* of HTTP/2 has its :path in one piece.
Fits(t, f) ==
    /\ f = "authority" => t.user = <<>> /\ t.path = <<>>
    /\ f \in {"origin", "http2"} => t.user = <<>> /\ t.path # <<>>
    /\ f \in {"authority", "http2"} => t.fragment = <<>>
    /\ f = "authority" \/ t.path = <<"*">> => t.query = <<>> /\ t.fragment = <<>>
    /\ f = "absolute" => /\ t.path # <<"*">>
                         /\ t.path \o t.query = <<>> => t.fragment = <<>>

Init ==
    /\ form \in Forms
    /\ target \in {t \in Targets : Fits(t, form)}
    /\ tls \in Tls
    /\ pc = IF form = "http2" THEN "url" ELSE "reading"
    /\ state = Start
    /\ pos = IF form = "http2" THEN Len(Written) + 1 ELSE 0
    /\ mark = 0
    /\ cuts = 0
    /\ uri = IF form = "http2" THEN Written ELSE <<>>
    /\ at = 0
    /\ urlState = "spaces_before_url" /\ hostState = "host_start"
    /\ old_uf = NoField /\ found_at = FALSE /\ hostEnd = 0
    /\ u = Nothing
    /\ request = [scheme |-> <<>>, host |-> <<>>, port |-> 0, path |-> <<>>]

Next == \/ ReadChar \/ TargetEnds \/ ReadEnds
        \/ UrlStep \/ UrlDone \/ HostStep \/ HostDone
        \/ parseURI \/ HostHeader

Spec == Init /\ [][Next]_vars

-----------------------------------------------------------------------------
UrlState == {"spaces_before_url", "schema", "schema_slash", "schema_slash_slash",
             "server_start", "server", "server_with_at", "path", "query_start", "query",
             "fragment_start", "fragment"}
HostState == {"userinfo_start", "userinfo", "host_start", "host", "v6_start", "v6", "v6_end",
              "zone_start", "zone", "port_start", "port"}
TypeOK ==
    /\ target \in Targets /\ form \in Forms /\ tls \in Tls
    /\ pc \in {"reading", "url", "host", "fields", "header", "done", "refused", "exited"}
    /\ state \in UrlState \cup {"dead"}
    /\ pos \in 0..(Len(Written) + 1) /\ mark \in 0..pos
    /\ cuts \in 0..MaxCuts
    /\ uri \in Seq(Char)
    /\ at \in 0..Len(uri)
    /\ urlState \in UrlState /\ hostState \in HostState
    /\ old_uf \in Field \cup {NoField}
    /\ found_at \in BOOLEAN
    /\ hostEnd \in 0..Len(uri)
    /\ u.set \subseteq Field /\ u.off \in [Field -> Nat] /\ u.len \in [Field -> Nat]
    /\ request.host \in Seq(Char) /\ request.path \in Seq(Char)
    /\ request.port \in 0..65535

(***************************************************************************)
(* The fields of a URI lie within it, at every turn of both loops and      *)
(* whatever piece of a target they are given, even one that off and len    *)
(* are too short for: parseURI assigns from &uri[off] as many characters   *)
(* as len says.                                                            *)
(***************************************************************************)
FieldsWithin ==
    pc \in {"url", "host", "fields"}
      => \A f \in u.set : u.off[f] + u.len[f] <= Len(uri)

\* The target arrives in one read, and off and len can hold its length.
Whole == cuts = 0 /\ Len(Written) < Wrap

(***************************************************************************)
(* A target that arrives in one read is accepted, in each of its forms:    *)
(* neither http_parser refuses it nor does parseURI end the process, since *)
(* what http_parser_execute has let pass, http_parser_parse_url accepts.   *)
(* (A target that a read cuts can end it: each piece is parsed alone.)     *)
(***************************************************************************)
Accepted == Whole => pc \notin {"refused", "exited"}

(***************************************************************************)
(* The origin that is connected to is the one the request names, when its  *)
(* target arrives in one read; but parseAuthority splits an address at its *)
(* first colon, and the port in a Host field is taken for a part of the    *)
(* host.                                                                   *)
(***************************************************************************)
Literal == target.host[1] = "["
HostName == IF Literal THEN SubSeq(target.host, 2, Len(target.host) - 1) ELSE target.host
OriginNamed ==
    /\ pc = "done" /\ Whole
    /\ form = "origin" => target.port = <<>> /\ ~Literal
    /\ form \in {"authority", "http2"} => ~Literal
    => /\ request.host = HostName
       /\ Port = IF target.port # <<>> THEN Value(target.port) ELSE IF tls THEN 443 ELSE 80

(***************************************************************************)
(* The path that is relayed is the one that was asked for, unless there is *)
(* a query or a fragment.                                                  *)
(***************************************************************************)
PathKept ==
    pc = "done" /\ Whole /\ form # "authority" /\ target.query = <<>> /\ target.fragment = <<>>
      => request.path = IF target.path = <<>> THEN <<"/">> ELSE target.path

(***************************************************************************)
(* "http_data_cb ... will be called arbitrarily many times for each        *)
(* string", says http_parser.h of on_url: a target that comes in pieces    *)
(* does not end the process.                                               *)
(***************************************************************************)
SurvivesCuts == pc # "exited"
=============================================================================
