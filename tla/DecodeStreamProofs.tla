------------------------- MODULE DecodeStreamProofs -------------------------
(***************************************************************************)
(* Two facts about every stream.  However it is cut into pieces, until the *)
(* first byte is dropped the decoder has handed over exactly the complete  *)
(* frames.  And if every piece ends at most seven bytes beyond the start   *)
(* of a frame, no byte is dropped and a peer is rejected only for a        *)
(* protocol header.  TLC refutes StaysAligned for other pieces             *)
(* (DecodeStreamLost.cfg).                                                 *)
(***************************************************************************)
EXTENDS DecodeStream, TLAPS

\* The hypothesis on the pieces.
KindPieces == \A s \in Streams : Splits[s] \subseteq KindSplits(s)

Inv == TypeOK /\ FramesHandedOver

\* What holds besides, when the pieces are kind: until a first buffer was
\* decoded nothing was handed over, and a protocol header is never decoded.
Aligned ==
    /\ StaysAligned
    /\ first /\ status = "reading" => handed = 0
    /\ start \in Headers /\ status = "reading" => first /\ arrived < EmptyFrameSize
    /\ RejectedIsHeader

-----------------------------------------------------------------------------
LEMMA StreamFacts ==
    ASSUME NEW s \in Streams
    PROVE  /\ Frames \in Nat \ {0}
           /\ s \in [0..Frames -> Nat]
           /\ s[0] = 0
           /\ \A j, k \in 0..Frames : j < k => s[j] + EmptyFrameSize <= s[k]
           /\ s \notin Headers => s[1] > EmptyFrameSize
           /\ Total(s) \in Nat
BY DecodeStreamAssumption DEF DecodeStreamAssumption, Total, EmptyFrameSize

LEMMA StreamMonotone ==
    ASSUME NEW s \in Streams, NEW j \in 0..Frames, NEW k \in 0..Frames, j <= k
    PROVE  s[j] <= s[k]
<1>1. s[j] \in Nat /\ s[k] \in Nat
  BY StreamFacts
<1>2. CASE j = k
  BY <1>1, <1>2
<1>3. CASE j < k
  <2>1. s[j] + EmptyFrameSize <= s[k]
    BY <1>3, StreamFacts
  <2> QED
    BY <1>1, <2>1 DEF EmptyFrameSize
<1>4. j \in Int /\ k \in Int
  BY StreamFacts
<1> QED
  BY <1>2, <1>3, <1>4

LEMMA InvInit == ASSUME Init PROVE Inv
<1>1. Total(start) \in Nat /\ Frames \in Nat \ {0} /\ start[0] = 0
  BY StreamFacts DEF Init
<1>2. 1 \in 0..Frames /\ start[1] > 0
  BY StreamFacts, <1>1 DEF Init, EmptyFrameSize
<1> QED
  BY <1>1, <1>2 DEF Init, Inv, TypeOK, FramesHandedOver, LastStart, EmptyFrameSize

LEMMA InvNext == ASSUME Inv, [Next]_vars PROVE Inv'
<1> USE DEF EmptyFrameSize
<1>0. /\ start \in Streams /\ Frames \in Nat \ {0} /\ Total(start) \in Nat
      /\ start \in [0..Frames -> Nat]
      /\ \A j, k \in 0..Frames : j < k => start[j] + EmptyFrameSize <= start[k]
  BY StreamFacts DEF Inv, TypeOK
<1>1. CASE UNCHANGED vars
  BY <1>1 DEF vars, Inv, TypeOK, FramesHandedOver, LastStart, Total
<1>2. ASSUME NEW n \in 1..(Total(start) - arrived),
             WriteShort(n) \/ WriteRejected(n) \/ WriteDecode(n) \/ WriteGarbage(n)
      PROVE  Inv'
  <2> USE DEF Inv
  <2>1. /\ arrived' = arrived + n /\ start' = start
        /\ arrived \in Nat /\ n \in Nat \ {0} /\ arrived + n <= Total(start)
    BY <1>0, <1>2 DEF TypeOK, WriteShort, WriteRejected, WriteDecode, WriteGarbage, Piece
  <2>2. Total(start') = Total(start) /\ arrived' \in 0..Total(start)
    BY <1>0, <2>1
  <2>3. CASE WriteShort(n)
    <3>1. TypeOK'
      BY <1>0, <2>1, <2>2, <2>3 DEF WriteShort, TypeOK
    <3>2. cached' = arrived' - start'[handed'] /\ cached' < EmptyFrameSize
      BY <1>0, <2>1, <2>3 DEF WriteShort, TypeOK, FramesHandedOver
    <3>3. handed \in 0..Frames /\ handed' = handed /\ start[handed] \in Nat
      BY <1>0, <2>3 DEF WriteShort, TypeOK
    <3>4. start[handed] <= arrived + n
      BY <1>0, <2>1, <2>3, <3>3 DEF WriteShort, TypeOK, FramesHandedOver
    <3>5. handed # Frames => start[handed + 1] > arrived + n
      <4> SUFFICES ASSUME handed # Frames PROVE start[handed + 1] > arrived + n
        OBVIOUS
      <4>1. handed + 1 \in 0..Frames /\ handed < handed + 1
        BY <1>0, <3>3
      <4>2. start[handed] + EmptyFrameSize <= start[handed + 1]
        BY <1>0, <3>3, <4>1
      <4>3. start[handed + 1] \in Nat
        BY <1>0, <4>1
      <4> QED
        BY <2>1, <3>2, <3>3, <4>2, <4>3
    <3> QED
      BY <2>1, <3>1, <3>2, <3>3, <3>4, <3>5 DEF FramesHandedOver, LastStart
  <2>4. CASE WriteRejected(n)
    BY <1>0, <2>1, <2>2, <2>4 DEF WriteRejected, TypeOK, FramesHandedOver
  <2>5. CASE WriteDecode(n)
    <3>1. PICK k \in 0..Frames :
             /\ LastStart(n, k)
             /\ handed' = k
             /\ IF Cached(arrived + n - start[k])
                THEN cached' = arrived + n - start[k] /\ status' = status
                ELSE cached' = 0 /\ status' = "misaligned"
      BY <2>5 DEF WriteDecode
    <3>2. start[k] \in Nat /\ start[k] <= arrived + n
      BY <1>0, <3>1 DEF LastStart
    <3>3. cached' \in 0..(EmptyFrameSize - 1)
      BY <2>1, <3>1, <3>2 DEF Cached
    <3>4. TypeOK'
      BY <1>0, <2>1, <2>2, <2>5, <3>1, <3>3 DEF WriteDecode, TypeOK
    <3>5. LastStart(0, k)'
      BY <2>1, <3>1 DEF LastStart
    <3>6. status' = "reading" => cached' = arrived' - start'[k]
      <4>1. status' = "reading" => cached' = arrived + n - start[k]
        BY <3>1
      <4>2. arrived' - start'[k] = (arrived + n) - start[k]
        BY <2>1, Zenon
      <4>3. (arrived + n) - start[k] = arrived + n - start[k]
        BY <2>1, <3>2
      <4> QED
        BY <4>1, <4>2, <4>3, Zenon
    <3>7. FramesHandedOver' <=>
            (status' = "reading" => LastStart(0, k)' /\ cached' = arrived' - start'[k])
      BY <3>1 DEF FramesHandedOver, LastStart
    <3> QED
      BY <3>4, <3>5, <3>6, <3>7
  <2>6. CASE WriteGarbage(n)
    BY <1>0, <2>1, <2>2, <2>6 DEF WriteGarbage, TypeOK, FramesHandedOver
  <2> QED
    BY <1>2, <2>3, <2>4, <2>5, <2>6
<1> QED
  BY <1>1, <1>2 DEF Next

LEMMA InvAlways == Spec => []Inv
<1>1. Init => Inv
  BY InvInit
<1>2. Inv /\ [Next]_vars => Inv'
  BY InvNext
<1> QED
  BY <1>1, <1>2, PTL DEF Spec

(* For every stream and every way to cut it: at most seven bytes are ever  *)
(* cached, and no frame is handed over twice.                              *)
THEOREM DecodeStreamTypeOK == Spec => []TypeOK
<1>1. Inv => TypeOK
  BY DEF Inv
<1> QED
  BY <1>1, InvAlways, PTL

(* Whatever the pieces, as long as the reader is aligned it has handed     *)
(* over every complete frame and cached the rest.                          *)
THEOREM CompleteFramesHandedOver == Spec => []FramesHandedOver
<1>1. Inv => FramesHandedOver
  BY DEF Inv
<1> QED
  BY <1>1, InvAlways, PTL

-----------------------------------------------------------------------------
LEMMA AlignedNext ==
    ASSUME KindPieces, Inv, Aligned, [Next]_vars
    PROVE  Aligned'
<1> USE DEF EmptyFrameSize, Inv
<1>0. /\ start \in Streams /\ Frames \in Nat \ {0} /\ Total(start) \in Nat
      /\ start \in [0..Frames -> Nat] /\ start[0] = 0
      /\ \A j, k \in 0..Frames : j < k => start[j] + EmptyFrameSize <= start[k]
      /\ start \notin Headers => start[1] > EmptyFrameSize
  BY StreamFacts DEF TypeOK
<1>1. CASE UNCHANGED vars
  BY <1>1 DEF vars, Aligned, StaysAligned, RejectedIsHeader
<1>2. ASSUME NEW n \in 1..(Total(start) - arrived),
             WriteShort(n) \/ WriteRejected(n) \/ WriteDecode(n) \/ WriteGarbage(n)
      PROVE  Aligned'
  <2>1. /\ arrived' = arrived + n /\ start' = start
        /\ arrived \in Nat /\ n \in Nat \ {0} /\ arrived + n <= Total(start)
    BY <1>0, <1>2 DEF TypeOK, WriteShort, WriteRejected, WriteDecode, WriteGarbage, Piece
  <2>2. PICK j \in 0..Frames : start[j] <= arrived + n /\ arrived + n < start[j] + EmptyFrameSize
    <3>1. arrived + n \in Splits[start]
      BY <1>2 DEF WriteShort, WriteRejected, WriteDecode, WriteGarbage, Piece
    <3> QED
      BY <1>0, <3>1 DEF KindPieces, KindSplits
  <2>3. start[j] \in Nat
    BY <1>0
  <2>4. first /\ status = "reading" => cached = arrived
    BY <1>0, <2>1 DEF Aligned, FramesHandedOver
  <2>5. CASE WriteShort(n)
    BY <2>1, <2>4, <2>5 DEF WriteShort, Aligned, StaysAligned, RejectedIsHeader, TypeOK
  <2>6. CASE WriteRejected(n)
    <3>1. arrived + n = EmptyFrameSize
      BY <2>1, <2>4, <2>6 DEF WriteRejected, HeaderSize
    <3>2. start \in Headers
      <4> SUFFICES ASSUME start \notin Headers PROVE FALSE
        OBVIOUS
      <4>1. j # 0
        BY <1>0, <2>2, <3>1
      <4>2. 1 \in 0..Frames /\ start[1] \in Nat /\ start[1] > EmptyFrameSize
        BY <1>0
      <4>3. start[1] <= start[j]
        BY <1>0, <2>3, <4>1, <4>2
      <4> QED
        BY <2>2, <2>3, <3>1, <4>2, <4>3
    <3> QED
      BY <2>1, <2>6, <3>2 DEF WriteRejected, Aligned, StaysAligned, RejectedIsHeader
  <2>7. CASE WriteDecode(n)
    <3>1. PICK k \in 0..Frames :
             /\ LastStart(n, k)
             /\ IF Cached(arrived + n - start[k])
                THEN cached' = arrived + n - start[k] /\ status' = status
                ELSE cached' = 0 /\ status' = "misaligned"
      BY <2>7 DEF WriteDecode
    <3>2. ~(k < j)
      <4> SUFFICES ASSUME k < j PROVE FALSE
        OBVIOUS
      <4>1. k + 1 \in 0..Frames /\ k # Frames
        BY <1>0
      <4>2. start[k + 1] \in Nat /\ start[k + 1] > arrived + n
        BY <1>0, <3>1, <4>1 DEF LastStart
      <4>3. start[k + 1] <= start[j]
        BY <1>0, <4>1, StreamMonotone
      <4> QED
        BY <2>1, <2>2, <2>3, <4>2, <4>3
    <3>3. start[k] \in Nat /\ start[j] <= start[k]
      <4>1. j <= k
        BY <1>0, <3>2
      <4> QED
        BY <1>0, <4>1, StreamMonotone
    <3>4. Cached(arrived + n - start[k])
      BY <2>1, <2>2, <2>3, <3>3 DEF Cached
    <3>5. status = "reading" /\ status' = "reading" /\ first' = FALSE
      BY <2>7, <3>1, <3>4 DEF WriteDecode
    <3>6. start \notin Headers
      <4> SUFFICES ASSUME start \in Headers PROVE FALSE
        OBVIOUS
      <4>1. first /\ cached = arrived
        BY <2>4, <3>5 DEF Aligned
      <4>2. arrived + n <= EmptyFrameSize
        BY <2>1 DEF Total
      <4> QED
        BY <2>1, <2>7, <4>1, <4>2 DEF WriteDecode, HeaderSize
    <3> QED
      BY <2>1, <3>5, <3>6 DEF Aligned, StaysAligned, RejectedIsHeader
  <2>8. CASE WriteGarbage(n)
    BY <2>8 DEF WriteGarbage, Aligned, StaysAligned
  <2> QED
    BY <1>2, <2>5, <2>6, <2>7, <2>8
<1> QED
  BY <1>1, <1>2 DEF Next

(* If every piece ends at most seven bytes beyond a frame start, no byte   *)
(* is ever dropped, and only a protocol header is taken for one.           *)
THEOREM KindPiecesStayAligned ==
    ASSUME KindPieces PROVE Spec => [](StaysAligned /\ RejectedIsHeader)
<1>1. Init => Aligned
  BY DEF Init, Aligned, StaysAligned, RejectedIsHeader, EmptyFrameSize
<1>2. Inv /\ Aligned /\ [Next]_vars => Aligned'
  BY AlignedNext, KindPieces
<1>3. Aligned => StaysAligned /\ RejectedIsHeader
  BY DEF Aligned
<1> QED
  BY <1>1, <1>2, <1>3, InvAlways, PTL DEF Spec
=============================================================================
