------------------------------ MODULE GzipBody ------------------------------
(***************************************************************************)
(* The body of one gzip response on an HTTP/2 connection.  Its DATA frames *)
(* are added to the payload of the stored message; at the end of each,     *)
(* DownSession::inflate feeds the payload to GzipInflater, and at the end  *)
(* of the stream inflateEnd replaces the payload by what came out.         *)
(*                                                                         *)
(* Bytes are counted, not represented: a compressed byte is expanded by    *)
(* zlib to some number of output units, unit k of the output is the number *)
(* k, and an element of the buffer that holds anything else is 0.  The     *)
(* buffer is a std::vector whose capacity is given to zlib: Len(buff) is   *)
(* the capacity, size the number of elements the vector knows of.          *)
(***************************************************************************)
EXTENDS Integers, Sequences

CONSTANTS
    Step,        \* GzipInflater's max and extendsize (16384 in the code)
    Expansions,  \* how many units a compressed byte may be expanded to
    FrameSizes,  \* the compressed bytes a DATA frame may have
    MaxIn,       \* bound: compressed bytes of the body
    MaxOut,      \* bound: units of the body
    Extra        \* may bytes follow the end of the gzip stream?

ASSUME ConstantsAssumption ==
    /\ Step \in Nat \ {0}
    /\ Expansions \subseteq Nat
    /\ FrameSizes \subseteq Nat
    /\ MaxIn \in Nat /\ MaxOut \in Nat
    /\ Extra \in BOOLEAN

VARIABLES
    pc,          \* what runs: "idle", "inflate" or "inflateEnd"; "relayed" when
                 \* the message is complete, "failed" when nghttp2 was given an
                 \* error, "undefined" when memory beyond the payload is read
    ended,       \* END_STREAM has been received
    received,    \* compressed bytes received
    whole,       \* they are the whole gzip stream
    payload,     \* size of the message's payload before it is replaced
    told,        \* payloadsize of the running loop: what a call is told
    calling,     \* GzipInflater::inflate is running
    availIn,     \* zlib: compressed bytes the running call may still take
    pending,     \* zlib: units of the bytes taken that have not been written
    finished,    \* zlib has come to the end of its stream (finished_)
    produced,    \* units of the body zlib has decoded
    inflater,    \* the message has a GzipInflater
    buff, size,  \* buff_: its memory, and how much of it is in use by the vector
    used,        \* usedsize_
    replaced     \* the payload is the buffer, the headers are rewritten

vars == <<pc, ended, received, whole, payload, told, calling, availIn, pending, finished,
          produced, inflater, buff, size, used, replaced>>
inputVars == <<ended, received, whole>>
zlibVars == <<availIn, pending, finished, produced>>
bufferVars == <<inflater, buff, size, used>>

Zeros(n) == [k \in 1..n |-> 0]

Init ==
    /\ pc = "idle" /\ ended = FALSE
    /\ received = 0 /\ whole = FALSE /\ payload = 0 /\ told = 0
    /\ calling = FALSE /\ availIn = 0 /\ pending = 0 /\ finished = FALSE /\ produced = 0
    /\ inflater = FALSE /\ buff = Zeros(Step) /\ size = Step /\ used = 0
    /\ replaced = FALSE

-----------------------------------------------------------------------------
(***************************************************************************)
(* on_data_chunk_recv_callback and on_frame_recv_callback of a DATA frame. *)
(***************************************************************************)
AskAll(n) == received + n      \* a slip: each loop starts with all that was received

\* inflate and inflateEnd begin their loop with the size of the payload.
Ask(n) == payload + n

DataFrame ==
    /\ pc = "idle" /\ ~ended
    /\ \E n \in FrameSizes, e, w \in BOOLEAN :
         /\ received + n <= MaxIn
         /\ n > 0 => Extra \/ ~whole          \* the origin sends one gzip stream,
         /\ n = 0 => w = whole
         /\ whole => w
         /\ e => w \/ received + n = 0         \* and the whole of it, or no body
         /\ received' = received + n
         /\ payload' = payload + n
         /\ whole' = w
         /\ ended' = e
         /\ told' = Ask(n)
    /\ pc' = "inflate"
    /\ inflater' = (inflater \/ payload' > 0)
    /\ UNCHANGED <<calling, zlibVars, buff, size, used, replaced>>

-----------------------------------------------------------------------------
(***************************************************************************)
(* GzipInflater::inflate.                                                  *)
(***************************************************************************)
Looping == pc \in {"inflate", "inflateEnd"} /\ ~calling

Call ==
    /\ Looping /\ payload > 0 /\ ~finished
    /\ calling' = TRUE
    /\ availIn' = told
    /\ UNCHANGED <<pc, inputVars, payload, told, pending, finished, produced,
                   bufferVars, replaced>>

\* zlib takes a byte when it has written what the last one stood for; its
\* stream ends with a checksum, which stands for nothing.  A call that was
\* told more than there is goes on behind the payload, unless that is the end.
Taken == told - availIn
ZlibReadsOn == calling /\ availIn > 0 /\ pending = 0 /\ ~finished
ZlibTakes ==
    /\ ZlibReadsOn /\ Taken < payload
    /\ \E e \in Expansions :
         /\ produced + e <= MaxOut
         /\ pending' = e /\ produced' = produced + e
         /\ LET last == whole /\ Taken + 1 = payload
            IN  /\ finished' \in IF Extra /\ e = 0 THEN {last, TRUE} ELSE {last}
                /\ last => e = 0
    /\ availIn' = availIn - 1
    /\ UNCHANGED <<pc, inputVars, payload, told, calling, bufferVars, replaced>>
ZlibReadsBehind ==
    /\ ZlibReadsOn /\ Taken >= payload
    /\ pc' = "undefined"
    /\ calling' = FALSE /\ availIn' = 0
    /\ UNCHANGED <<inputVars, payload, told, pending, finished, produced, bufferVars, replaced>>

\* ... and writes as long as the memory it was given has room.
ZlibWrites ==
    /\ calling /\ pending > 0 /\ used < Len(buff)
    /\ buff' = [buff EXCEPT ![used + 1] = produced - pending + 1]
    /\ used' = used + 1
    /\ pending' = pending - 1
    /\ UNCHANGED <<pc, inputVars, payload, told, calling, availIn, finished, produced,
                   inflater, size, replaced>>

GrownClear(b, s) == Zeros(Len(b) + Step)      \* a slip: the buffer is cleared when it grows
GrownSize(b, s) == b      \* a slip: the vector is not given more memory

\* buff_.resize(size + extendsize_).  Within the capacity the new elements
\* are set to zero; beyond it the vector moves its elements, and no more, to
\* memory of twice its size, or of what is asked for.
Capacity(b, s) == IF s + Step <= Len(b) THEN Len(b)
                  ELSE IF Step > s THEN s + Step ELSE 2 * s
Grown(b, s) ==
    [k \in 1..Capacity(b, s) |->
        IF k <= s \/ (s + Step < k /\ Capacity(b, s) = Len(b)) THEN b[k] ELSE 0]

DrainNothing == payload      \* a slip: what was consumed stays in the payload

\* payload.drain(payloadsize), where payloadsize is what the call consumed.
Drain == payload - Taken

Return ==
    /\ calling
    /\ \/ pending = 0 /\ (availIn = 0 \/ finished)
       \/ pending > 0 /\ used = Len(buff)
    /\ told' = Taken
    /\ payload' = Drain
    /\ IF Len(buff) - used < Step
       THEN buff' = Grown(buff, size) /\ size' = size + Step
       ELSE UNCHANGED <<buff, size>>
    /\ calling' = FALSE /\ availIn' = 0
    /\ UNCHANGED <<pc, inputVars, pending, finished, produced, inflater, used, replaced>>

-----------------------------------------------------------------------------
(***************************************************************************)
(* The end of the loops: rv is the result of the nghttp2 callback.         *)
(***************************************************************************)
\* inflate fails when bytes follow the end of the stream; the result of the
\* last frame is the one of inflateEnd.
LoopFails == Looping /\ payload > 0 /\ finished
LoopEnds == Looping /\ payload = 0

InflateReturns ==
    /\ pc = "inflate"
    /\ LoopFails \/ LoopEnds
    /\ pc' = IF ended THEN "inflateEnd" ELSE IF LoopFails THEN "failed" ELSE "idle"
    /\ told' = payload
    /\ UNCHANGED <<inputVars, payload, calling, zlibVars, bufferVars, replaced>>

\* The message is COMPLETE whatever inflateEnd returns, and DoFlush relays it.
InflateEndReturns ==
    /\ pc = "inflateEnd"
    /\ LoopFails \/ LoopEnds
    /\ pc' = "relayed"
    /\ replaced' = (LoopEnds /\ inflater)
    /\ UNCHANGED <<inputVars, payload, told, calling, zlibVars, bufferVars>>

Running == Call \/ ZlibTakes \/ ZlibReadsBehind \/ ZlibWrites \/ Return
           \/ InflateReturns \/ InflateEndReturns

Next == DataFrame \/ Running

Spec == Init /\ [][Next]_vars

\* A callback runs on once a frame has arrived.
FairSpec == Spec /\ WF_vars(Running)

-----------------------------------------------------------------------------
TypeOK ==
    /\ pc \in {"idle", "inflate", "inflateEnd", "relayed", "failed", "undefined"}
    /\ ended \in BOOLEAN /\ whole \in BOOLEAN /\ calling \in BOOLEAN /\ finished \in BOOLEAN
    /\ inflater \in BOOLEAN /\ replaced \in BOOLEAN
    /\ received \in Nat /\ payload \in Nat /\ told \in Nat /\ availIn \in 0..told
    /\ pending \in Nat /\ produced \in Nat
    /\ buff \in Seq(Nat) /\ size \in 0..Len(buff) /\ used \in 0..Len(buff)

(***************************************************************************)
(* While zlib has decoded no more than the one step the buffer begins with *)
(* no call reads behind the payload, however the body is cut into frames:  *)
(* payloadsize is what is left whenever the loop turns.                    *)
(***************************************************************************)
WithinPayload == produced <= Step => pc # "undefined"

(***************************************************************************)
(* A body of at most three steps that is relayed is intact, whatever calls *)
(* it took, unless bytes followed the end of its stream: the buffer grows  *)
(* to two and to four steps and no unit in it is lost or overwritten.      *)
(***************************************************************************)
Intact == used = produced /\ \A k \in 1..used : buff[k] = k
GrowthKeepsBody ==
    pc = "relayed" /\ received > 0 /\ payload = 0 /\ produced <= 3 * Step =>
       replaced /\ Intact

(***************************************************************************)
(* The loops end: the response is relayed once its last frame has come.    *)
(* While a loop turns the whole proxy waits.  A larger body may fill the   *)
(* buffer to its last element; payloadsize is then 0 for ever.             *)
(***************************************************************************)
BodyEnds == ended ~> pc \in {"relayed", "failed", "undefined"} \/ produced > 3 * Step

(***************************************************************************)
(* "Replace the payload by the decompressed data" (the comment in          *)
(* inflateEnd): a message that is relayed carries every unit of the body,  *)
(* in order and unchanged, or had no body.                                 *)
(***************************************************************************)
BodyIntact == pc = "relayed" /\ received > 0 => replaced /\ Intact
=============================================================================
