---------------------------- MODULE GzipBody_proofs ----------------------------
(***************************************************************************)
(* Proofs about GzipBody, for every step of the buffer, every expansion of *)
(* the bytes and every way the body may be cut into frames.                *)
(***************************************************************************)
EXTENDS GzipBody, SequenceTheorems, TLAPS

(***************************************************************************)
(* The inductive invariant.  A call is told at most what it can find as    *)
(* long as everything decoded fits the first step; the buffer has the      *)
(* sizes the vector takes when it grows by a step; zlib's stream ends with *)
(* a byte that stands for nothing, so when it is over nothing is pending.  *)
(***************************************************************************)
CallsRun ==
    /\ calling => pc \in {"inflate", "inflateEnd"} /\ payload > 0 /\ Taken <= payload
    /\ ~calling => availIn = 0
Told ==
    produced <= Step =>
       /\ pc # "undefined"
       /\ pc \in {"inflate", "inflateEnd"} /\ payload > 0 /\ ~finished => told = payload
StreamEnds ==
    /\ finished => pending = 0
    /\ whole /\ ~finished => payload > 0 /\ (calling => Taken < payload)
    /\ ended => whole \/ received = 0
    /\ pc \in {"inflateEnd", "relayed"} => ended
    /\ received > 0 => inflater
    /\ pc = "relayed" /\ received > 0 /\ payload = 0 => replaced
BufferGrows ==
    /\ used + pending = produced
    /\ Step <= Len(buff)
    /\ produced <= 3 * Step =>
         /\ \/ size = Step /\ Len(buff) = Step
            \/ size = 2 * Step /\ Len(buff) = 2 * Step
            \/ size = 3 * Step /\ Len(buff) = 4 * Step
         /\ \A k \in 1..used : buff[k] = k
IInv == TypeOK /\ CallsRun /\ Told /\ StreamEnds /\ BufferGrows

\* resize keeps what the vector knows of and gives at least a step more.
LEMMA GrownKeeps ==
    ASSUME NEW b \in Seq(Nat), NEW s \in 0..Len(b)
    PROVE  /\ Grown(b, s) \in Seq(Nat)
           /\ Len(Grown(b, s)) = Capacity(b, s)
           /\ Capacity(b, s) >= s + Step /\ Capacity(b, s) >= Len(b)
           /\ \A k \in 1..s : Grown(b, s)[k] = b[k]
<1>1. Len(b) \in Nat /\ s \in Nat /\ Step \in Nat \ {0}
  BY LenProperties, ConstantsAssumption
<1>2. /\ Capacity(b, s) \in Nat
      /\ Capacity(b, s) >= s + Step /\ Capacity(b, s) >= Len(b)
      /\ Capacity(b, s) = Len(b) \/ Capacity(b, s) > Len(b)
  BY <1>1 DEF Capacity
<1>3. \A k \in 1..Len(b) : b[k] \in Nat
  BY ElementOfSeq
<1> DEFINE e(k) == IF k <= s \/ (s + Step < k /\ Capacity(b, s) = Len(b)) THEN b[k] ELSE 0
<1>4. \A k \in 1..Capacity(b, s) : e(k) \in Nat
  BY <1>1, <1>2, <1>3
<1>5. Grown(b, s) = [k \in 1..Capacity(b, s) |-> e(k)]
  BY DEF Grown
<1> HIDE DEF e
<1>6. Grown(b, s) \in Seq(Nat) /\ Len(Grown(b, s)) = Capacity(b, s)
  BY <1>2, <1>4, <1>5, IsASeq
<1>7. ASSUME NEW k \in 1..s PROVE Grown(b, s)[k] = b[k]
  <2>1. k \in 1..Capacity(b, s)
    BY <1>1, <1>2
  <2> QED
    BY <1>1, <1>5, <2>1 DEF e
<1> QED
  BY <1>2, <1>6, <1>7

-----------------------------------------------------------------------------
LEMMA IInvInit == Init => IInv
<1> SUFFICES ASSUME Init PROVE IInv
  OBVIOUS
<1>1. Step \in Nat \ {0}
  BY ConstantsAssumption
<1>2. buff \in Seq(Nat) /\ Len(buff) = Step
  BY <1>1 DEF Init, Zeros
<1>3. TypeOK
  <2>1. size \in 0..Len(buff) /\ used \in 0..Len(buff) /\ availIn \in 0..told
    BY <1>1, <1>2 DEF Init
  <2>2. /\ pc \in {"idle", "inflate", "inflateEnd", "relayed", "failed", "undefined"}
        /\ ended = FALSE /\ whole = FALSE /\ calling = FALSE /\ finished = FALSE
        /\ inflater = FALSE /\ replaced = FALSE
        /\ received = 0 /\ payload = 0 /\ told = 0 /\ pending = 0 /\ produced = 0
    BY DEF Init
  <2> QED
    BY <1>2, <2>1, <2>2 DEF TypeOK
<1>4. CallsRun /\ Told /\ StreamEnds
  BY DEF Init, CallsRun, Told, StreamEnds
<1>5. BufferGrows
  BY <1>1, <1>2 DEF Init, BufferGrows
<1> QED
  BY <1>3, <1>4, <1>5 DEF IInv

LEMMA IInvDataFrame == IInv /\ DataFrame => IInv'
<1> SUFFICES ASSUME IInv, DataFrame PROVE IInv'
  OBVIOUS
<1> USE ConstantsAssumption DEF DataFrame, Ask, IInv, TypeOK, CallsRun
<1>1. PICK n \in FrameSizes, e \in BOOLEAN, w \in BOOLEAN :
        /\ n = 0 => w = whole
        /\ whole => w
        /\ e => w \/ received + n = 0
        /\ received' = received + n
        /\ payload' = payload + n
        /\ whole' = w
        /\ ended' = e
        /\ told' = payload + n
  OBVIOUS
<1>2. n \in Nat
  OBVIOUS
<1>3. TypeOK' /\ CallsRun'
  BY <1>1, <1>2 DEF bufferVars, zlibVars
<1>4. Told'
  BY <1>1, <1>2 DEF Told, zlibVars
<1>5. StreamEnds'
  <2>1. /\ pc' = "inflate" /\ finished' = finished /\ calling' = FALSE /\ pending' = pending
        /\ inflater' = (inflater \/ payload' > 0)
        /\ payload \in Nat /\ received \in Nat
    BY DEF zlibVars
  <2> HIDE DEF DataFrame, IInv, TypeOK, CallsRun
  <2>2. StreamEnds
    BY DEF IInv
  <2>3. n = 0 => payload' = payload /\ received' = received
    BY <1>1, <2>1
  <2>4. n # 0 => payload' > 0
    BY <1>1, <1>2, <2>1
  <2>5. whole' /\ ~finished' => payload' > 0
    BY <1>1, <2>1, <2>2, <2>3, <2>4, Zenon DEF StreamEnds
  <2>6. ended' => whole' \/ received' = 0
    BY <1>1, Zenon
  <2>7. received' > 0 => inflater'
    BY <2>1, <2>2, <2>3, <2>4, Zenon DEF StreamEnds
  <2> QED
    BY <2>1, <2>2, <2>5, <2>6, <2>7 DEF StreamEnds
<1>6. BufferGrows'
  BY DEF BufferGrows, zlibVars
<1> QED
  BY <1>3, <1>4, <1>5, <1>6

LEMMA IInvCall == IInv /\ Call => IInv'
<1> SUFFICES ASSUME IInv, Call PROVE IInv'
  OBVIOUS
<1> USE DEF Call, Looping, IInv, TypeOK, CallsRun, inputVars, bufferVars
<1>1. TypeOK' /\ CallsRun'
  BY DEF Taken
<1>2. Told'
  BY DEF Told
<1>3. StreamEnds'
  BY DEF StreamEnds, Taken
<1>4. BufferGrows'
  BY DEF BufferGrows
<1> QED
  BY <1>1, <1>2, <1>3, <1>4

LEMMA IInvZlibTakes == IInv /\ ZlibTakes => IInv'
<1> SUFFICES ASSUME IInv, ZlibTakes PROVE IInv'
  OBVIOUS
<1> USE ConstantsAssumption DEF ZlibTakes, ZlibReadsOn, Taken, IInv, TypeOK, CallsRun,
        inputVars, bufferVars
<1>1. PICK e \in Expansions :
        /\ pending' = e /\ produced' = produced + e
        /\ finished' \in BOOLEAN
        /\ whole /\ Taken + 1 = payload => finished'
        /\ finished' => e = 0
  OBVIOUS
<1>2. e \in Nat
  OBVIOUS
<1>3. TypeOK' /\ CallsRun'
  BY <1>1, <1>2
<1>4. Told'
  BY <1>1, <1>2 DEF Told
<1>5. StreamEnds'
  BY <1>1, <1>2 DEF StreamEnds
<1>6. BufferGrows'
  BY <1>1, <1>2 DEF BufferGrows
<1> QED
  BY <1>3, <1>4, <1>5, <1>6

\* A call that is told what there is comes to its end before it could read on.
LEMMA IInvZlibReadsBehind == IInv /\ ZlibReadsBehind => IInv'
<1> SUFFICES ASSUME IInv, ZlibReadsBehind PROVE IInv'
  OBVIOUS
<1> USE DEF ZlibReadsBehind, ZlibReadsOn, Taken, IInv, TypeOK, CallsRun, inputVars, bufferVars
<1>1. TypeOK' /\ CallsRun'
  <2>1. /\ pc' = "undefined" /\ calling' = FALSE /\ availIn' = 0 /\ told' = told /\ told \in Nat
        /\ 0 \in 0..told
    OBVIOUS
  <2> QED
    BY <2>1
<1>2. ~(produced <= Step)
  BY DEF Told
<1>3. Told'
  BY <1>2 DEF Told
<1>4. StreamEnds'
  BY DEF StreamEnds
<1>5. BufferGrows'
  BY DEF BufferGrows
<1> QED
  BY <1>1, <1>3, <1>4, <1>5

LEMMA IInvZlibWrites == IInv /\ ZlibWrites => IInv'
<1> SUFFICES ASSUME IInv, ZlibWrites PROVE IInv'
  OBVIOUS
<1> USE DEF ZlibWrites, IInv, TypeOK, CallsRun, inputVars
<1>1. used + 1 \in 1..Len(buff) /\ used' = used + 1 /\ pending' = pending - 1
  BY LenProperties
<1>2. used + 1 = produced - pending + 1 /\ produced - pending + 1 \in Nat
  BY DEF BufferGrows
<1>3. /\ buff' \in Seq(Nat) /\ Len(buff') = Len(buff)
      /\ \A k \in 1..Len(buff) : buff'[k] = IF k = used + 1 THEN used + 1 ELSE buff[k]
  <2>1. buff' = [buff EXCEPT ![used + 1] = used + 1] /\ buff \in Seq(Nat) /\ used + 1 \in Nat
    BY <1>2
  <2> HIDE DEF ZlibWrites, IInv, TypeOK, CallsRun
  <2> QED
    BY <1>1, <2>1, ExceptSeq
<1>4. TypeOK' /\ CallsRun'
  BY <1>1, <1>3 DEF Taken
<1>5. Told'
  BY <1>1 DEF Told
<1>6. StreamEnds'
  BY <1>1 DEF StreamEnds, Taken
<1>7. BufferGrows'
  BY <1>1, <1>3 DEF BufferGrows
<1> QED
  BY <1>4, <1>5, <1>6, <1>7

(***************************************************************************)
(* A call returns.  If it stopped because the buffer is full, more than a  *)
(* step has been decoded; and the buffer grows only by the steps it takes  *)
(* while no more than three have been.                                     *)
(***************************************************************************)
LEMMA IInvReturn == IInv /\ Return => IInv'
<1> SUFFICES ASSUME IInv, Return PROVE IInv'
  OBVIOUS
<1> USE ConstantsAssumption DEF Return, Drain, IInv, TypeOK, CallsRun, inputVars
<1>1. /\ Taken \in Nat /\ payload - Taken \in Nat
      /\ told' = Taken /\ payload' = payload - Taken
      /\ availIn' = 0 /\ calling' = FALSE
  BY DEF Taken
<1>2. Len(buff) \in Nat
  BY LenProperties
<1>3. \/ buff' = buff /\ size' = size
      \/ /\ buff' = Grown(buff, size) /\ size' = size + Step
         /\ Len(buff) - used < Step
  OBVIOUS
<1>4. /\ buff' \in Seq(Nat)
      /\ Len(buff) <= Len(buff') /\ size' \in 0..Len(buff') /\ used' \in 0..Len(buff')
  <2>1. CASE buff' = buff /\ size' = size
    BY <1>2, <2>1
  <2>2. CASE buff' = Grown(buff, size) /\ size' = size + Step
    <3>1. /\ buff \in Seq(Nat) /\ size \in 0..Len(buff) /\ used \in 0..Len(buff) /\ used' = used
          /\ Step \in Nat
      OBVIOUS
    <3> HIDE DEF Return, Drain, IInv, TypeOK, CallsRun
    <3>2. /\ buff' \in Seq(Nat) /\ Len(buff') \in Nat
          /\ Len(buff') >= size + Step /\ Len(buff') >= Len(buff)
      BY <2>2, <3>1, GrownKeeps, LenProperties
    <3>3. size + Step \in Nat /\ size + Step <= Len(buff') /\ used <= Len(buff') /\ used \in Nat
      BY <1>2, <3>1, <3>2
    <3> QED
      BY <2>2, <3>1, <3>2, <3>3
  <2> QED
    BY <1>3, <2>1, <2>2
<1>5. TypeOK' /\ CallsRun'
  <2>1. /\ pc' = pc /\ ended' = ended /\ whole' = whole /\ finished' = finished
        /\ inflater' = inflater /\ replaced' = replaced /\ received' = received
        /\ pending' = pending /\ produced' = produced /\ TypeOK
    OBVIOUS
  <2> HIDE DEF Return, Drain, IInv, TypeOK, CallsRun
  <2>2. availIn' \in 0..told'
    BY <1>1
  <2>3. CallsRun'
    BY <1>1 DEF CallsRun
  <2> QED
    BY <1>1, <1>4, <2>1, <2>2, <2>3 DEF TypeOK
<1>6. Told'
  <2>1. CASE pending = 0 /\ (availIn = 0 \/ finished)
    <3>1. /\ told \in Nat /\ availIn \in Nat /\ payload > 0 /\ pc \in {"inflate", "inflateEnd"}
          /\ payload \in Nat /\ Told /\ pc' = pc /\ produced' = produced /\ finished' = finished
      OBVIOUS
    <3> HIDE DEF Return, Drain, IInv, TypeOK, CallsRun
    <3>2. ASSUME produced <= Step, ~finished
          PROVE  payload' = 0
      <4>1. told = payload
        BY <3>1, <3>2 DEF Told
      <4> QED
        BY <1>1, <2>1, <3>1, <3>2, <4>1 DEF Taken
    <3> QED
      BY <3>1, <3>2 DEF Told
  <2>2. CASE pending > 0 /\ used = Len(buff)
    BY <1>2, <2>2 DEF Told, BufferGrows
  <2> QED
    BY <2>1, <2>2
<1>7. StreamEnds'
  BY <1>1 DEF StreamEnds
<1>8. BufferGrows'
  <2>1. CASE buff' = buff /\ size' = size
    BY <2>1 DEF BufferGrows
  <2>2. CASE buff' = Grown(buff, size) /\ size' = size + Step /\ Len(buff) - used < Step
    <3>1. used' + pending' = produced' /\ Step <= Len(buff') /\ produced' = produced
          /\ used' = used
      BY <1>2, <1>4 DEF BufferGrows
    <3>2. /\ buff \in Seq(Nat) /\ size \in 0..Len(buff) /\ used \in 0..Len(buff)
          /\ Step \in Nat \ {0} /\ produced \in Nat /\ pending \in Nat /\ BufferGrows
      OBVIOUS
    <3> HIDE DEF Return, Drain, IInv, TypeOK, CallsRun
    <3>3. ASSUME produced <= 3 * Step
          PROVE  /\ \/ size' = 2 * Step /\ Len(buff') = 2 * Step
                    \/ size' = 3 * Step /\ Len(buff') = 4 * Step
                 /\ size = Len(buff)
      <4>1. Len(buff') = Capacity(buff, size)
        BY <2>2, <3>2, GrownKeeps
      <4>2. used <= 3 * Step
        BY <1>2, <3>3, <3>2 DEF BufferGrows
      <4>3. CASE size = Step /\ Len(buff) = Step
        BY <2>2, <3>2, <4>1, <4>3 DEF Capacity
      <4>4. CASE size = 2 * Step /\ Len(buff) = 2 * Step
        BY <2>2, <3>2, <4>1, <4>4 DEF Capacity
      <4>5. ~(size = 3 * Step /\ Len(buff) = 4 * Step)
        BY <2>2, <3>2, <4>2
      <4> QED
        BY <3>2, <3>3, <4>3, <4>4, <4>5 DEF BufferGrows
    <3>4. ASSUME produced <= 3 * Step, NEW k \in 1..used
          PROVE  buff'[k] = k
      <4>1. k \in 1..size
        BY <1>2, <3>3, <3>4, <3>2
      <4>2. buff[k] = k
        BY <3>4, <3>2 DEF BufferGrows
      <4> QED
        BY <2>2, <3>2, <4>1, <4>2, GrownKeeps
    <3> QED
      BY <3>1, <3>3, <3>4 DEF BufferGrows
  <2> QED
    BY <1>3, <2>1, <2>2
<1> QED
  BY <1>5, <1>6, <1>7, <1>8

LEMMA IInvLoopsEnd == IInv /\ (InflateReturns \/ InflateEndReturns) => IInv'
<1> SUFFICES ASSUME IInv, InflateReturns \/ InflateEndReturns PROVE IInv'
  OBVIOUS
<1> USE DEF InflateReturns, InflateEndReturns, LoopFails, LoopEnds, Looping, IInv, TypeOK,
        CallsRun, inputVars, zlibVars, bufferVars
<1>1. TypeOK' /\ CallsRun'
  BY DEF Taken
<1>2. Told'
  BY DEF Told
<1>3. StreamEnds'
  BY DEF StreamEnds
<1>4. BufferGrows'
  BY DEF BufferGrows
<1> QED
  BY <1>1, <1>2, <1>3, <1>4

LEMMA IInvStutter == IInv /\ UNCHANGED vars => IInv'
BY DEF IInv, TypeOK, CallsRun, Told, StreamEnds, BufferGrows, Taken, vars

LEMMA IInvStep == IInv /\ [Next]_vars => IInv'
BY IInvDataFrame, IInvCall, IInvZlibTakes, IInvZlibReadsBehind, IInvZlibWrites, IInvReturn,
   IInvLoopsEnd, IInvStutter DEF Next, Running

THEOREM IInvCorrect == Spec => []IInv
BY IInvInit, IInvStep, PTL DEF Spec

-----------------------------------------------------------------------------
(***************************************************************************)
(* The types: in particular the vector's size and the used part of its     *)
(* memory never exceed its capacity, and no more is drained from the       *)
(* payload than is there.                                                  *)
(***************************************************************************)
THEOREM TypeCorrect == Spec => []TypeOK
<1>1. IInv => TypeOK
  BY DEF IInv
<1> QED
  BY <1>1, IInvCorrect, PTL

(***************************************************************************)
(* A response that decodes to no more than one step (16384 bytes) is       *)
(* inflated without ever reading behind its payload.                       *)
(***************************************************************************)
THEOREM WithinPayloadCorrect == Spec => []WithinPayload
<1>1. IInv => WithinPayload
  BY DEF IInv, Told, WithinPayload
<1> QED
  BY <1>1, IInvCorrect, PTL

(***************************************************************************)
(* A response of at most three steps that is relayed, and whose stream is  *)
(* followed by nothing, carries the whole body: when the loop ends zlib is *)
(* at the end of its stream, and every unit it wrote is in the buffer.     *)
(***************************************************************************)
THEOREM GrowthKeepsBodyCorrect == Spec => []GrowthKeepsBody
<1>1. IInv => GrowthKeepsBody
  <2> SUFFICES ASSUME IInv, pc = "relayed", received > 0, payload = 0, produced <= 3 * Step
               PROVE  replaced /\ Intact
    BY DEF GrowthKeepsBody
  <2>1. finished /\ replaced
    BY DEF IInv, TypeOK, StreamEnds
  <2>2. used = produced
    BY <2>1 DEF IInv, TypeOK, StreamEnds, BufferGrows
  <2> QED
    BY <2>1, <2>2 DEF IInv, BufferGrows, Intact
<1> QED
  BY <1>1, IInvCorrect, PTL
=============================================================================
