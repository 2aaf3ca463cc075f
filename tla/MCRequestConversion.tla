------------------------ MODULE MCRequestConversion ------------------------
(***************************************************************************)
(* A small instance of RequestConversion.                                  *)
(***************************************************************************)
EXTENDS RequestConversion

\* The Connection field lists a field that is meant for the origin otherwise,
\* with spaces around the separator; the tail of Proxy-Connection is a name
\* that means something itself.
MCFields == {
    Field("Connection", <<"X", ",", " ", "HTTP2-Settings">>),
    Field("Proxy-Connection", <<"X">>),
    Field("Upgrade", <<"h2c">>),
    Field("HTTP2-Settings", <<"s">>),
    Field("Host", <<"host", ".org">>),
    Field("X", <<"x">>) }

\* "/p?q#f", and "https://uri:8443?q", which has no path.
MCTargets == {
    [host |-> <<>>, port |-> <<>>, path |-> <<"/p">>, query |-> <<"q">>,
     fragment |-> <<"f">>],
    [host |-> <<"uri">>, port |-> <<"8443">>, path |-> <<>>, query |-> <<"q">>,
     fragment |-> <<>>] }

MCTrailerFields == {f \in MCFields : f.name \in {"Upgrade", "Host"}}

MCTails ==
    [n \in {f.name : f \in MCFields} |->
        IF n = "Proxy-Connection" THEN {"Connection"} ELSE {"?"}]
=============================================================================
