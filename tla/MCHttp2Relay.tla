---------------------------- MODULE MCHttp2Relay ----------------------------
(***************************************************************************)
(* Bounds for the runs of Http2Relay: how many HEADERS, DATA and PING      *)
(* frames each peer sends.  Every run checks with both peers active; the   *)
(* lopsided ones let one direction pipeline while the other answers.       *)
(***************************************************************************)
EXTENDS Http2Relay

LongRequests == [s \in Side |-> IF s = "up" THEN 3 ELSE 1]
LongResponses == [s \in Side |-> IF s = "up" THEN 1 ELSE 2]
=============================================================================
