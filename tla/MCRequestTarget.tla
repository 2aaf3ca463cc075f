-------------------------- MODULE MCRequestTarget --------------------------
(***************************************************************************)
(* Bounds for RequestTarget: targets made of every choice of parts.        *)
(***************************************************************************)
EXTENDS RequestTarget

SomeTargets ==
    [user : {<<>>, <<"a", ":", "1", "@">>},
     host : {<<"g">>, <<"a", ".", "1">>, <<"[", ":", "1", "%", "g", "]">>},
     port : {<<>>, <<"8", "0">>, <<"6", "5", "5", "3", "5">>},
     path : {<<>>, <<"/">>, <<"/", "a", ":", "/", "@">>, <<"*">>},
     query : {<<>>, <<"?">>, <<"?", "a", "=", "?">>},
     fragment : {<<>>, <<"#", "g", "/">>}]
AllForms == {"absolute", "origin", "authority", "http2"}
=============================================================================
