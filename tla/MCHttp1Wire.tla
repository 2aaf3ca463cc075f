---------------------------- MODULE MCHttp1Wire ----------------------------
(***************************************************************************)
(* Bounds for Http1Wire: which messages the peers send.                    *)
(***************************************************************************)
EXTENDS Http1Wire

Plain(framing, chunks) == [framing |-> framing, chunks |-> chunks, trailer |-> FALSE,
                           bare |-> FALSE, last |-> FALSE]
Bare(framing, chunks) == [Plain(framing, chunks) EXCEPT !.bare = TRUE]
Closing(m) == [m EXCEPT !.last = TRUE]

\* GET, HEAD, POST with a length or in chunks, with trailers, with both
\* framings, and the last request of a connection.
SomeRequests ==
    {Plain("none", <<>>), Bare("none", <<>>), Plain("length", <<2>>),
     Plain("chunked", <<1, 2>>), [Plain("chunked", <<1>>) EXCEPT !.trailer = TRUE],
     Plain("both", <<1>>), Closing(Plain("length", <<1>>))}

\* Responses with a length, with none, in chunks, until the end of the
\* connection, 204 and 304 with and without a length, and a last one.
SomeResponses ==
    {Plain("length", <<2>>), Plain("length", <<>>), Plain("none", <<2>>),
     [Plain("chunked", <<2, 1>>) EXCEPT !.trailer = TRUE],
     Bare("none", <<>>), Bare("length", <<1>>), Closing(Plain("length", <<1>>))}
=============================================================================
