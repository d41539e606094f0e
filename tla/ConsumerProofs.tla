--------------------------- MODULE ConsumerProofs ---------------------------
(***************************************************************************)
(* For any number of messages of any size and any prefetch: ConsumeStream  *)
(* never meets a chunk that it does not expect, and what it hands out are  *)
(* the messages of the queue, in order and whole.                          *)
(*                                                                         *)
(* What is on its way to the stream is spread over three places: chunks of *)
(* the input, frames that wait for their ticks, frames in the socket.  The *)
(* invariant says that there is a way of reading all of it that begins     *)
(* with the message in the making and ends where the broker stands         *)
(* (Coming); once the input has ended, its chunks alone can be read        *)
(* (Ahead).                                                                *)
(***************************************************************************)
EXTENDS Consumer, SequenceTheorems, FiniteSetTheorems, TLAPS

Kinds == {"deliver", "header", "body"}

Chunks == [f : Kinds \cup {"cancel", "close_ok"}, d : Nat]

PeerFrames == [f : {"close", "ack"}, d : Nat]

States == [tag : Nat, place : {"idle", "header", "body", "over"}, left : Nat]

\* between two messages, after the one with this tag
Idle(tag) == [tag |-> tag, place |-> "idle", left |-> 0]

\* s reads the chunk and is t
Accepts(s, chunk, t) ==
    \/ /\ chunk.f = "deliver" /\ s.place = "idle"
       /\ chunk.d = s.tag + 1 /\ chunk.d \in Tags
       /\ t = [tag |-> chunk.d, place |-> "header", left |-> 0]
    \/ /\ chunk.f = "header" /\ s.place = "header" /\ chunk.d = s.tag
       /\ t = IF Pieces[s.tag] = 0 THEN Idle(s.tag)
              ELSE [tag |-> s.tag, place |-> "body", left |-> Pieces[s.tag]]
    \/ /\ chunk.f = "body" /\ s.place = "body" /\ chunk.d = s.tag
       /\ t = IF s.left = 1 THEN Idle(s.tag)
              ELSE [tag |-> s.tag, place |-> "body", left |-> s.left - 1]
    \/ chunk.f = "cancel" /\ s.place # "over" /\ t.place = "over"

Parsed(s, line) ==
    /\ s \in [0..Len(line) -> States]
    /\ \A i \in 1..Len(line) : Accepts(s[i - 1], line[i], s[i])

-----------------------------------------------------------------------------
\* the states in which a part of what was read is read
LEMMA FirstPart ==
    ASSUME NEW a \in Seq(Chunks), NEW b \in Seq(Chunks), NEW s, Parsed(s, a \o b)
    PROVE  \E t : Parsed(t, a) /\ t[0] = s[0]
<1> DEFINE t == [i \in 0..Len(a) |-> s[i]]
<1>1. Len(a) \in Nat /\ Len(b) \in Nat /\ Len(a \o b) = Len(a) + Len(b)
      /\ \A i \in 1..Len(a) : (a \o b)[i] = a[i]
  BY ConcatProperties, LenProperties
<1>2. t \in [0..Len(a) -> States] /\ t[0] = s[0]
  BY <1>1 DEF Parsed
<1>3. ASSUME NEW i \in 1..Len(a) PROVE Accepts(t[i - 1], a[i], t[i])
  <2>1. i \in 1..Len(a \o b) /\ i - 1 \in 0..Len(a) /\ i \in 0..Len(a)
    BY <1>1
  <2>2. Accepts(s[i - 1], (a \o b)[i], s[i])
    BY <2>1 DEF Parsed
  <2> QED
    BY <1>1, <2>1, <2>2
<1> QED
  BY <1>2, <1>3 DEF Parsed

LEMMA RestOfIt ==
    ASSUME NEW a \in Seq(Chunks), NEW s, a # <<>>, Parsed(s, a)
    PROVE  /\ Accepts(s[0], Head(a), s[1])
           /\ \E t : Parsed(t, Tail(a)) /\ t[0] = s[1] /\ t[Len(Tail(a))] = s[Len(a)]
<1> DEFINE t == [i \in 0..Len(Tail(a)) |-> s[i + 1]]
<1>1. /\ Len(a) \in Nat \ {0} /\ Head(a) = a[1] /\ Len(Tail(a)) = Len(a) - 1
      /\ \A i \in 1..Len(Tail(a)) : Tail(a)[i] = a[i + 1]
  BY EmptySeq, HeadTailProperties
<1>2. Accepts(s[0], Head(a), s[1])
  <2>1. 1 \in 1..Len(a) /\ 1 - 1 = 0
    BY <1>1
  <2> QED
    BY <1>1, <2>1 DEF Parsed
<1>3. t \in [0..Len(Tail(a)) -> States] /\ t[0] = s[1] /\ t[Len(Tail(a))] = s[Len(a)]
  BY <1>1 DEF Parsed
<1>4. ASSUME NEW i \in 1..Len(Tail(a)) PROVE Accepts(t[i - 1], Tail(a)[i], t[i])
  <2>1. i + 1 \in 1..Len(a) /\ i - 1 \in 0..Len(Tail(a)) /\ i \in 0..Len(Tail(a)) /\ (i + 1) - 1 = (i - 1) + 1
    BY <1>1
  <2>2. Accepts(s[(i + 1) - 1], a[i + 1], s[i + 1])
    BY <2>1 DEF Parsed
  <2> QED
    BY <1>1, <2>1, <2>2
<1> QED
  BY <1>2, <1>3, <1>4 DEF Parsed

LEMMA Joined ==
    ASSUME NEW a \in Seq(Chunks), NEW b \in Seq(Chunks), NEW s, NEW t,
           Parsed(s, a), Parsed(t, b), s[Len(a)] = t[0]
    PROVE  \E u : Parsed(u, a \o b) /\ u[0] = s[0] /\ u[Len(a \o b)] = t[Len(b)]
<1> DEFINE n == Len(a)
           u == [i \in 0..(n + Len(b)) |-> IF i <= n THEN s[i] ELSE t[i - n]]
<1>1. n \in Nat /\ Len(b) \in Nat /\ Len(a \o b) = n + Len(b)
      /\ \A i \in 1..(n + Len(b)) : (a \o b)[i] = IF i <= n THEN a[i] ELSE b[i - n]
  BY ConcatProperties, LenProperties
<1>2. u \in [0..(n + Len(b)) -> States] /\ u[0] = s[0] /\ u[n + Len(b)] = t[Len(b)]
  BY <1>1 DEF Parsed
<1>3. ASSUME NEW i \in 1..(n + Len(b)) PROVE Accepts(u[i - 1], (a \o b)[i], u[i])
  <2>1. CASE i <= n
    <3>1. i \in 1..n /\ u[i - 1] = s[i - 1] /\ u[i] = s[i] /\ (a \o b)[i] = a[i]
      BY <1>1, <2>1
    <3> QED
      BY <3>1 DEF Parsed
  <2>2. CASE i > n
    <3>1. i - n \in 1..Len(b) /\ u[i] = t[i - n] /\ (a \o b)[i] = b[i - n]
      BY <1>1, <2>2
    <3>2. u[i - 1] = t[(i - n) - 1]
      BY <1>1, <2>2
    <3> QED
      BY <3>1, <3>2 DEF Parsed
  <2> QED
    BY <1>1, <2>1, <2>2
<1> QED
  BY <1>1, <1>2, <1>3 DEF Parsed

\* the frames of a delivery
Delivery(tag) ==
    <<[f |-> "deliver", d |-> tag], [f |-> "header", d |-> tag]>>
        \o [i \in 1..Pieces[tag] |-> [f |-> "body", d |-> tag]]

LEMMA DeliveryParsed ==
    ASSUME NEW tag \in Tags
    PROVE  /\ Delivery(tag) \in Seq(Chunks)
           /\ \A line \in Seq(Chunks) :
                line \o <<[f |-> "deliver", d |-> tag], [f |-> "header", d |-> tag]>>
                     \o [i \in 1..Pieces[tag] |-> [f |-> "body", d |-> tag]] = line \o Delivery(tag)
           /\ \E t : Parsed(t, Delivery(tag)) /\ t[0] = Idle(tag - 1) /\ t[Len(Delivery(tag))] = Idle(tag)
<1> DEFINE n == Pieces[tag]
           two == <<[f |-> "deliver", d |-> tag], [f |-> "header", d |-> tag]>>
           bodies == [i \in 1..n |-> [f |-> "body", d |-> tag]]
           t == [i \in 0..(n + 2) |->
                   IF i = 0 THEN Idle(tag - 1)
                   ELSE IF i = 1 THEN [tag |-> tag, place |-> "header", left |-> 0]
                   ELSE IF i = n + 2 THEN Idle(tag)
                   ELSE [tag |-> tag, place |-> "body", left |-> n + 2 - i]]
<1>1. n \in Nat /\ tag \in Nat /\ tag - 1 \in Nat
  BY ConsumerAssumption DEF Tags
<1>2. two \in Seq(Chunks) /\ Len(two) = 2 /\ two[1] = [f |-> "deliver", d |-> tag] /\ two[2] = [f |-> "header", d |-> tag]
  BY <1>1 DEF Chunks, Kinds
<1>3. bodies \in Seq(Chunks) /\ Len(bodies) = n
  <2>1. \A i \in 1..n : [f |-> "body", d |-> tag] \in Chunks
    BY <1>1 DEF Chunks, Kinds
  <2> QED
    BY <1>1, <2>1
<1>4. /\ Delivery(tag) \in Seq(Chunks) /\ Len(Delivery(tag)) = n + 2
      /\ Delivery(tag)[1] = [f |-> "deliver", d |-> tag] /\ Delivery(tag)[2] = [f |-> "header", d |-> tag]
      /\ \A i \in 3..(n + 2) : Delivery(tag)[i] = [f |-> "body", d |-> tag]
  <2> HIDE DEF n, two, bodies
  <2>0. Delivery(tag) = two \o bodies
    BY DEF Delivery, two, bodies, n
  <2>1. /\ two \o bodies \in Seq(Chunks) /\ Len(two \o bodies) = Len(two) + Len(bodies)
        /\ \A i \in 1..(Len(two) + Len(bodies)) :
              (two \o bodies)[i] = IF i <= Len(two) THEN two[i] ELSE bodies[i - Len(two)]
    BY <1>2, <1>3, ConcatProperties, Zenon
  <2>2. Delivery(tag) \in Seq(Chunks) /\ Len(Delivery(tag)) = 2 + n
        /\ \A i \in 1..(2 + n) : Delivery(tag)[i] = IF i <= 2 THEN two[i] ELSE bodies[i - 2]
    BY <1>2, <1>3, <2>0, <2>1, Zenon
  <2>3. \A i \in 1..n : bodies[i] = [f |-> "body", d |-> tag]
    BY DEF bodies
  <2> QED
    BY <1>1, <1>2, <2>2, <2>3
<1>9. \A line \in Seq(Chunks) : (line \o two) \o bodies = line \o Delivery(tag)
  <2> HIDE DEF two, bodies
  <2>1. Delivery(tag) = two \o bodies
    BY DEF Delivery, two, bodies, n
  <2> QED
    BY <1>2, <1>3, <2>1, ConcatAssociative
<1>5. t \in [0..(n + 2) -> States]
  BY <1>1 DEF States, Idle
<1>6. ASSUME NEW i \in 1..(n + 2) PROVE Accepts(t[i - 1], Delivery(tag)[i], t[i])
  <2>1. CASE i = 1
    <3>1. t[i - 1] = Idle(tag - 1) /\ t[i] = [tag |-> tag, place |-> "header", left |-> 0]
      BY <1>1, <2>1
    <3>2. Delivery(tag)[i] = [f |-> "deliver", d |-> tag] /\ tag = (tag - 1) + 1
      BY <1>1, <1>4, <2>1
    <3> HIDE DEF t
    <3> QED
      BY <1>1, <3>1, <3>2 DEF Accepts, Idle
  <2>2. CASE i = 2
    <3>1. /\ t[i - 1] = [tag |-> tag, place |-> "header", left |-> 0]
          /\ t[i] = IF n = 0 THEN Idle(tag) ELSE [tag |-> tag, place |-> "body", left |-> n]
      BY <1>1, <2>2
    <3>2. Delivery(tag)[i] = [f |-> "header", d |-> tag]
      BY <1>4, <2>2
    <3> HIDE DEF t
    <3> QED
      BY <3>1, <3>2 DEF Accepts, Idle
  <2>3. CASE i > 2
    <3>1. /\ t[i - 1] = [tag |-> tag, place |-> "body", left |-> n + 3 - i]
          /\ t[i] = IF i = n + 2 THEN Idle(tag) ELSE [tag |-> tag, place |-> "body", left |-> n + 2 - i]
      BY <1>1, <2>3
    <3>2. (n + 3 - i = 1) = (i = n + 2) /\ (n + 3 - i) - 1 = n + 2 - i
      BY <1>1
    <3>3. Delivery(tag)[i] = [f |-> "body", d |-> tag]
      BY <1>1, <1>4, <2>3
    <3> HIDE DEF t
    <3> QED
      BY <3>1, <3>2, <3>3 DEF Accepts, Idle
  <2> QED
    BY <1>1, <2>1, <2>2, <2>3
<1>7. t[0] = Idle(tag - 1) /\ t[n + 2] = Idle(tag)
  BY <1>1
<1> HIDE DEF t
<1>8. Parsed(t, Delivery(tag))
  <2> HIDE DEF n
  <2> QED
    BY <1>4, <1>5, <1>6 DEF Parsed
<1>10. \E u : Parsed(u, Delivery(tag)) /\ u[0] = Idle(tag - 1) /\ u[Len(Delivery(tag))] = Idle(tag)
  <2> HIDE DEF n
  <2> QED
    BY <1>4, <1>7, <1>8
<1> QED
  BY <1>4, <1>9, <1>10

-----------------------------------------------------------------------------
(* The invariant.                                                          *)

Handed == Len(given) + Len(output)

\* where the message in the making stands
Here == [tag   |-> IF current # NoMessage /\ ~header THEN Handed + 1 ELSE Handed,
         place |-> IF current = NoMessage THEN "idle" ELSE IF header THEN "body" ELSE "header",
         left  |-> waitSize]

Line == input \o (ticks \o toClient)

Shape ==
    /\ input \in Seq(Chunks) /\ ticks \in Seq(Chunks) /\ toClient \in Seq(Chunks)
    /\ \A i \in 1..Len(input) : input[i].f \in Kinds
    /\ next \in Nat

Closed ==
    /\ destroyed => cancelled
    /\ cancelled => inputEnd # "open"
    /\ toPeer \in Seq(PeerFrames)
    /\ \A i \in 1..Len(toPeer) : toPeer[i].f = "close" => destroyed

\* what is in the input fits the message in the making
Ahead == \E s : Parsed(s, input) /\ s[0] = Here

\* the end of what is on its way is where the broker stands, unless it cancels
Meets(end) == end = Idle(next - 1) \/ (next \notin Tags /\ (end.place = "over" \/ cancelling))

\* what is on its way fits too, and the next delivery fits what is on its way
Coming == inputEnd = "open" => \E s : Parsed(s, Line) /\ s[0] = Here /\ Meets(s[Len(Line)])

Making ==
    /\ header \in BOOLEAN /\ body \in [Tags -> Nat]
    /\ \/ current = NoMessage /\ ~header /\ waitSize = 0
       \/ current = Handed + 1 /\ current \in Tags /\ ~header /\ waitSize = 0
       \/ /\ current = Handed /\ current \in Tags /\ header
          /\ waitSize \in Nat \ {0} /\ body[current] + waitSize = Pieces[current]

\* what was handed out, and is whole when its body has ended
Whole ==
    /\ given \in Seq(Nat) /\ output \in Seq(Nat)
    /\ \A i \in 1..Len(given) : given[i] = i
    /\ \A i \in 1..Len(output) : output[i] = Len(given) + i
    /\ \A d \in Tags : d > Handed => body[d] = 0
    /\ \A d \in ended : d \in Tags /\ d <= Handed /\ d # current /\ body[d] = Pieces[d]

Inv == Shape /\ Closed /\ Ahead /\ Coming /\ Making /\ Whole

-----------------------------------------------------------------------------
\* what comes before the input moves along without a change of the whole
LEMMA TickMoves ==
    ASSUME Shape, ticks # <<>>
    PROVE  /\ Tail(ticks) \in Seq(Chunks) /\ Head(ticks) \in Chunks
           /\ Append(input, Head(ticks)) \in Seq(Chunks)
           /\ Append(input, Head(ticks)) \o (Tail(ticks) \o toClient) = Line
<1> DEFINE h == Head(ticks)
           rest == Tail(ticks)
<1>1. h \in Chunks /\ rest \in Seq(Chunks) /\ input \in Seq(Chunks) /\ toClient \in Seq(Chunks)
  BY HeadTailProperties DEF Shape
<1>2. <<h>> \in Seq(Chunks) /\ Append(input, h) = input \o <<h>> /\ rest \o toClient \in Seq(Chunks)
  BY <1>1, AppendIsConcat, ConcatProperties
<1>3. ticks = <<h>> \o rest
  <2>1. ticks \in Seq(Chunks) /\ Len(ticks) \in Nat \ {0}
    BY EmptySeq DEF Shape
  <2>2. SubSeq(ticks, 1, Len(ticks)) = <<ticks[1]>> \o SubSeq(ticks, 2, Len(ticks))
    BY <2>1, SubSeqRecursiveFirst
  <2> QED
    BY <2>1, <2>2, SubSeqFull, TailIsSubSeq
<1>4. ticks \o toClient = <<h>> \o (rest \o toClient)
  BY <1>1, <1>2, <1>3, ConcatAssociative
<1> HIDE DEF h, rest
<1>5. (input \o <<h>>) \o (rest \o toClient) = input \o (<<h>> \o (rest \o toClient))
  BY <1>1, <1>2, ConcatAssociative
<1>6. Append(input, h) \in Seq(Chunks)
  BY <1>1, <1>2, ConcatProperties
<1> QED
  BY <1>1, <1>2, <1>4, <1>5, <1>6 DEF Line, h, rest

LEMMA PieceMoves ==
    ASSUME Shape, NEW k \in 1..Len(toClient)
    PROVE  /\ ticks \o SubSeq(toClient, 1, k) \in Seq(Chunks)
           /\ SubSeq(toClient, k + 1, Len(toClient)) \in Seq(Chunks)
           /\ input \o ((ticks \o SubSeq(toClient, 1, k)) \o SubSeq(toClient, k + 1, Len(toClient))) = Line
<1> DEFINE a == SubSeq(toClient, 1, k)
           b == SubSeq(toClient, k + 1, Len(toClient))
<1>0. ticks \in Seq(Chunks) /\ toClient \in Seq(Chunks) /\ Len(toClient) \in Nat
      /\ \A i \in 1..Len(toClient) : toClient[i] \in Chunks
  BY ElementOfSeq, LenProperties DEF Shape
<1>1. a \in Seq(Chunks) /\ b \in Seq(Chunks)
  BY <1>0, SubSeqProperties
<1>2. a \o b = toClient
  BY <1>0, ConcatAdjacentSubSeq, SubSeqFull
<1> HIDE DEF a, b
<1>3. (ticks \o a) \o b = ticks \o (a \o b) /\ ticks \o a \in Seq(Chunks)
  BY <1>0, <1>1, ConcatAssociative, ConcatProperties
<1> QED
  BY <1>1, <1>2, <1>3 DEF Line, a, b

\* the end of the input needs nothing of what is on its way
LEMMA InputDone ==
    ASSUME Inv, UNCHANGED <<input, assembly, given>>, inputEnd' # "open", Shape', Closed'
    PROVE  Inv'
<1>1. Here' = Here
  BY DEF Here, Handed, assembly
<1>2. Ahead' /\ Coming'
  BY <1>1 DEF Inv, Ahead, Coming
<1>3. Making' /\ Whole'
  BY DEF Inv, Making, Whole, Handed, assembly
<1> QED
  BY <1>2, <1>3 DEF Inv

\* nor does what leaves it as it is
LEMMA LineKept ==
    ASSUME Inv, UNCHANGED <<input, assembly, given, next, cancelling>>, Line' = Line,
           inputEnd' = "open" => inputEnd = "open", Shape', Closed'
    PROVE  Inv'
<1>1. Here' = Here
  BY DEF Here, Handed, assembly
<1>2. Ahead' /\ Coming'
  BY <1>1 DEF Inv, Ahead, Coming, Meets
<1>3. Making' /\ Whole'
  BY DEF Inv, Making, Whole, Handed, assembly
<1> QED
  BY <1>2, <1>3 DEF Inv

\* every destroy ends the input
LEMMA DestroyedEnds ==
    ASSUME Inv, DestroyConnection, UNCHANGED <<input, assembly, given, ticks, next>>
    PROVE  Inv'
<1>1. inputEnd' # "open" /\ cancelled' /\ destroyed' /\ toPeer' = toPeer
  BY DEF DestroyConnection, Inv, Closed
<1>2. Shape' /\ Closed'
  BY <1>1 DEF Inv, Shape, Closed, DestroyConnection
<1> QED
  BY <1>1, <1>2, InputDone

LEMMA InvInit == ASSUME Init PROVE Inv
<1>1. input = <<>> /\ ticks = <<>> /\ toClient = <<>> /\ toPeer = <<>> /\ next = 1
      /\ given = <<>> /\ output = <<>> /\ current = NoMessage /\ header = FALSE /\ waitSize = 0
      /\ body = [d \in Tags |-> 0] /\ ended = {} /\ ~destroyed /\ ~cancelled
  BY DEF Init, LoopInit
<1>2. Shape /\ Closed
  BY <1>1 DEF Shape, Closed
<1>3. Making /\ Whole
  <2>1. Len(given) = 0 /\ Len(output) = 0 /\ given \in Seq(Nat) /\ output \in Seq(Nat)
    BY <1>1
  <2>2. Handed = 0
    BY <2>1 DEF Handed
  <2>3. Making
    <3>1. body \in [Tags -> Nat]
      BY <1>1
    <3> QED
      BY <1>1, <3>1 DEF Making
  <2>4. Whole
    BY <1>1, <2>1, <2>2 DEF Whole
  <2> QED
    BY <2>3, <2>4
<1>4. Line = <<>> /\ Len(Line) = 0 /\ Here = Idle(0) /\ Len(input) = 0
  BY <1>1, ConcatEmptySeq DEF Line, Here, Handed, Idle
<1>5. Parsed([i \in 0..0 |-> Idle(0)], <<>>)
  BY DEF Parsed, States, Idle
<1>6. Ahead /\ Coming
  <2> DEFINE s == [i \in 0..0 |-> Idle(0)]
  <2>1. s[0] = Idle(0) /\ Parsed(s, <<>>)
    BY <1>5
  <2> HIDE DEF s
  <2>2. next - 1 = 0
    BY <1>1
  <2> QED
    BY <1>1, <1>4, <2>1, <2>2 DEF Ahead, Coming, Meets
<1> QED
  BY <1>2, <1>3, <1>6 DEF Inv

-----------------------------------------------------------------------------
(* ConsumeStream. *)

LEMMA ReadFits ==
    ASSUME Making, NEW chunk, NEW t, chunk.f \in Kinds, Accepts(Here, chunk, t)
    PROVE  Fits(chunk)
<1>1. /\ Here.place = IF current = NoMessage THEN "idle" ELSE IF header THEN "body" ELSE "header"
  BY DEF Here
<1> QED
  BY <1>1 DEF Making, Accepts, Fits, Kinds, NoMessage

LEMMA Taken ==
    ASSUME Making, Whole, NEW chunk, NEW t, chunk.f \in Kinds, Accepts(Here, chunk, t), given' = given,
           TakeDeliver(chunk) \/ TakeHeader(chunk) \/ TakeBody(chunk)
    PROVE  t = Here' /\ Making' /\ Whole'
<1>0. /\ given \in Seq(Nat) /\ output \in Seq(Nat) /\ Len(given) \in Nat /\ Len(output) \in Nat
      /\ Handed = Len(given) + Len(output)
      /\ Pieces \in [Tags -> Nat] /\ Tags \subseteq Nat \ {0}
  BY ConsumerAssumption DEF Whole, Handed, Tags
<1>4. /\ Here.tag = IF current # NoMessage /\ ~header THEN Handed + 1 ELSE Handed
      /\ Here.place = IF current = NoMessage THEN "idle" ELSE IF header THEN "body" ELSE "header"
      /\ Here.left = waitSize
  BY DEF Here
<1>1. CASE TakeDeliver(chunk)
  <2>1. /\ current' = chunk.d /\ header' = FALSE /\ UNCHANGED <<waitSize, output, body, ended>>
        /\ chunk.f = "deliver" /\ Handed' = Handed
    BY <1>1 DEF TakeDeliver, Handed
  <2>2. current = NoMessage /\ ~header /\ waitSize = 0 /\ chunk.d = Handed + 1 /\ chunk.d \in Tags
        /\ t = [tag |-> chunk.d, place |-> "header", left |-> 0]
    <3>1. Here.place = "idle" /\ chunk.d = Here.tag + 1 /\ chunk.d \in Tags
          /\ t = [tag |-> chunk.d, place |-> "header", left |-> 0]
      BY <2>1 DEF Accepts
    <3>2. current = NoMessage /\ Here.tag = Handed
      BY <1>4, <3>1
    <3>3. ~header /\ waitSize = 0
      BY <1>0, <3>2 DEF Making, NoMessage
    <3> QED
      BY <3>1, <3>2, <3>3
  <2>3. current' # NoMessage
    BY <1>0, <2>1, <2>2 DEF NoMessage
  <2>4. t = Here'
    BY <2>1, <2>2, <2>3 DEF Here
  <2>5. Making'
    BY <2>1, <2>2 DEF Making
  <2>6. Whole'
    BY <1>0, <2>1, <2>2 DEF Whole
  <2> QED
    BY <2>4, <2>5, <2>6
<1>2. CASE TakeHeader(chunk)
  <2>1. chunk.f = "header" /\ output' = Append(output, current) /\ body' = body
    BY <1>2 DEF TakeHeader
  <2>2. /\ current = Handed + 1 /\ current \in Tags /\ ~header /\ waitSize = 0 /\ chunk.d = current
        /\ current # NoMessage
        /\ t = IF Pieces[current] = 0 THEN Idle(current)
               ELSE [tag |-> current, place |-> "body", left |-> Pieces[current]]
    BY <1>0, <2>1, <1>4 DEF Accepts, Making, NoMessage
  <2>3. /\ output' \in Seq(Nat) /\ Len(output') = Len(output) + 1
        /\ \A i \in 1..Len(output) : output'[i] = output[i]
        /\ output'[Len(output) + 1] = current
    BY <1>0, <2>1, <2>2, AppendProperties
  <2>4. Handed' = Handed + 1 /\ Handed' = current /\ Handed \in Nat
    BY <1>0, <2>2, <2>3 DEF Handed
  <2>5. \A i \in 1..Len(output') : output'[i] = Len(given') + i
    <3> SUFFICES ASSUME NEW i \in 1..Len(output') PROVE output'[i] = Len(given) + i
      OBVIOUS
    <3>1. CASE i = Len(output) + 1
      BY <1>0, <2>2, <2>3, <3>1
    <3>2. CASE i # Len(output) + 1
      <4>1. i \in 1..Len(output)
        BY <1>0, <2>3, <3>2
      <4> QED
        BY <2>3, <4>1 DEF Whole
    <3> QED
      BY <3>1, <3>2
  <2>6. body[current] = 0
    BY <1>0, <2>2 DEF Whole
  <2>9. given' \in Seq(Nat) /\ (\A i \in 1..Len(given') : given'[i] = i)
        /\ \A d \in Tags : d > Handed' => body'[d] = 0
    BY <1>0, <2>1, <2>4 DEF Whole
  <2>7. CASE Pieces[current] = 0
    <3>1. current' = NoMessage /\ header' = FALSE /\ waitSize' = 0 /\ ended' = ended \cup {current}
      BY <1>2, <2>2, <2>7 DEF TakeHeader
    <3>2. t = Here'
      BY <2>2, <2>4, <2>7, <3>1 DEF Here, Idle
    <3>3. Making'
      BY <2>1, <3>1 DEF Making
    <3>4. \A d \in ended' : d \in Tags /\ d <= Handed' /\ d # current' /\ body'[d] = Pieces[d]
      <4>1. \A d \in ended : d \in Tags /\ d <= Handed /\ body[d] = Pieces[d]
        BY DEF Whole
      <4>2. current \in Tags /\ current <= Handed' /\ body'[current] = Pieces[current]
        BY <1>0, <2>1, <2>2, <2>4, <2>6, <2>7
      <4>3. \A d \in ended : d <= Handed' /\ body'[d] = Pieces[d]
        <5> SUFFICES ASSUME NEW d \in ended PROVE d <= Handed'
          BY <2>1, <4>1
        <5>1. d \in Nat /\ d <= Handed
          BY <1>0, <4>1
        <5> QED
          BY <2>4, <5>1
      <4>4. \A d \in Tags : d # current'
        BY <1>0, <3>1 DEF NoMessage
      <4> QED
        BY <3>1, <4>1, <4>2, <4>3, <4>4
    <3>5. Whole'
      BY <2>3, <2>5, <2>9, <3>4 DEF Whole
    <3> QED
      BY <3>2, <3>3, <3>5
  <2>8. CASE Pieces[current] # 0
    <3>1. header' = TRUE /\ waitSize' = Pieces[current] /\ current' = current /\ ended' = ended
      BY <1>2, <2>2, <2>8 DEF TakeHeader
    <3>2. t = Here'
      BY <2>2, <2>4, <2>8, <3>1 DEF Here
    <3>3. Making'
      BY <1>0, <2>1, <2>2, <2>4, <2>6, <2>8, <3>1 DEF Making
    <3>4. \A d \in ended' : d \in Tags /\ d <= Handed' /\ d # current' /\ body'[d] = Pieces[d]
      <4>1. \A d \in ended : d \in Tags /\ d <= Handed /\ d # current /\ body[d] = Pieces[d]
        BY DEF Whole
      <4>2. ASSUME NEW d \in ended PROVE d <= Handed'
        <5>1. d \in Nat /\ d <= Handed
          BY <1>0, <4>1
        <5> QED
          BY <2>4, <5>1
      <4> QED
        BY <2>1, <3>1, <4>1, <4>2
    <3>5. Whole'
      BY <2>3, <2>5, <2>9, <3>4 DEF Whole
    <3> QED
      BY <3>2, <3>3, <3>5
  <2> QED
    BY <2>7, <2>8
<1>3. CASE TakeBody(chunk)
  <2>1. chunk.f = "body" /\ output' = output /\ body' = [body EXCEPT ![current] = body[current] + 1]
    BY <1>3 DEF TakeBody
  <2>2. /\ current = Handed /\ current \in Tags /\ header /\ waitSize \in Nat \ {0}
        /\ body[current] + waitSize = Pieces[current] /\ chunk.d = current /\ current # NoMessage
        /\ body[current] \in Nat
        /\ t = IF waitSize = 1 THEN Idle(current)
               ELSE [tag |-> current, place |-> "body", left |-> waitSize - 1]
    BY <1>0, <2>1, <1>4 DEF Accepts, Making, NoMessage
  <2>3. Handed' = Handed
    BY <2>1 DEF Handed
  <2>4. body' \in [Tags -> Nat] /\ body'[current] = body[current] + 1
        /\ \A d \in Tags : d # current => body'[d] = body[d]
    BY <2>1, <2>2 DEF Making
  <2>5. \A d \in Tags : d > Handed => body'[d] = 0
    BY <1>0, <2>2, <2>4 DEF Whole
  <2>6. \A d \in ended : d \in Tags /\ d <= Handed /\ d # current /\ body'[d] = Pieces[d]
    BY <2>4 DEF Whole
  <2>7. CASE waitSize = 1
    <3>1. current' = NoMessage /\ header' = FALSE /\ waitSize' = 0 /\ ended' = ended \cup {current}
      BY <1>3, <2>7 DEF TakeBody, LastPiece
    <3>2. t = Here'
      BY <2>2, <2>3, <2>7, <3>1 DEF Here, Idle
    <3>3. Making'
      BY <2>4, <3>1 DEF Making
    <3>4. body'[current] = Pieces[current]
      BY <2>2, <2>4, <2>7
    <3>5. Whole'
      BY <1>0, <2>1, <2>2, <2>3, <2>5, <2>6, <3>1, <3>4 DEF Whole, NoMessage
    <3> QED
      BY <3>2, <3>3, <3>5
  <2>8. CASE waitSize # 1
    <3>1. waitSize' = waitSize - 1 /\ UNCHANGED <<current, header, ended>>
      BY <1>3, <2>8 DEF TakeBody, LastPiece
    <3>2. t = Here'
      BY <2>2, <2>3, <2>8, <3>1 DEF Here
    <3>3. body'[current] + waitSize' = Pieces[current] /\ waitSize' \in Nat \ {0}
      BY <2>2, <2>4, <2>8, <3>1
    <3>4. Making'
      BY <2>2, <2>3, <2>4, <3>1, <3>3 DEF Making
    <3>5. Whole'
      BY <1>0, <2>1, <2>3, <2>5, <2>6, <3>1 DEF Whole
    <3> QED
      BY <3>2, <3>4, <3>5
  <2> QED
    BY <2>7, <2>8
<1> QED
  BY <1>1, <1>2, <1>3

LEMMA LineTail ==
    ASSUME Shape, input # <<>>
    PROVE  /\ Line \in Seq(Chunks) /\ Line # <<>> /\ Head(Line) = Head(input)
           /\ Tail(Line) = Tail(input) \o (ticks \o toClient)
           /\ Tail(input) \in Seq(Chunks) /\ Head(input) = input[1] /\ 1 \in 1..Len(input)
<1> DEFINE h == Head(input)
           rest == Tail(input)
           later == ticks \o toClient
<1>1. h \in Chunks /\ rest \in Seq(Chunks) /\ later \in Seq(Chunks) /\ <<h>> \in Seq(Chunks)
      /\ Len(input) \in Nat \ {0} /\ h = input[1]
  BY HeadTailProperties, ConcatProperties, EmptySeq DEF Shape
<1>2. input = <<h>> \o rest
  <2>1. SubSeq(input, 1, Len(input)) = <<input[1]>> \o SubSeq(input, 2, Len(input))
    BY <1>1, SubSeqRecursiveFirst DEF Shape
  <2> QED
    BY <1>1, <2>1, SubSeqFull, TailIsSubSeq DEF Shape
<1> HIDE DEF h, rest, later
<1>3. Line = <<h>> \o (rest \o later) /\ rest \o later \in Seq(Chunks)
  <2>1. Line = input \o later
    BY DEF Line, later
  <2> QED
    BY <1>1, <1>2, <2>1, ConcatAssociative, ConcatProperties
<1>4. Line \in Seq(Chunks) /\ Line # <<>> /\ Head(Line) = h
  <2>1. Line \in Seq(Chunks) /\ Len(Line) = 1 + Len(rest \o later) /\ Line[1] = h
    BY <1>1, <1>3, ConcatProperties
  <2>2. Len(rest \o later) \in Nat
    BY <1>3, LenProperties
  <2>3. Line # <<>>
    BY <2>1, <2>2
  <2> QED
    BY <2>1, <2>3
<1>5. Tail(Line) = rest \o later
  <2>1. Tail(Line) \in Seq(Chunks) /\ Len(Tail(Line)) = Len(Line) - 1
        /\ \A i \in 1..Len(Tail(Line)) : Tail(Line)[i] = Line[i + 1]
    BY <1>4, HeadTailProperties
  <2>2. Len(Line) = 1 + Len(rest \o later) /\ Len(rest \o later) \in Nat
        /\ \A i \in 1..Len(rest \o later) : Line[i + 1] = (rest \o later)[i]
    BY <1>1, <1>3, ConcatProperties, LenProperties
  <2> QED
    BY <1>3, <2>1, <2>2, SeqEqual
<1> QED
  BY <1>1, <1>4, <1>5 DEF h, rest, later

\* the head of the input is read as the message in the making needs it
LEMMA WriteInv == ASSUME Inv, Write PROVE Inv'
<1> DEFINE chunk == Head(input)
<1>1. input # <<>> /\ input' = Tail(input) /\ UNCHANGED <<given, ticks, next>> /\ stream = "running"
  BY DEF Write, Writes, broker
<1>2. PICK s : Parsed(s, input) /\ s[0] = Here
  BY DEF Inv, Ahead
<1>3. /\ Accepts(Here, chunk, s[1]) /\ \E t : Parsed(t, Tail(input)) /\ t[0] = s[1]
      /\ chunk.f \in Kinds
  BY <1>1, <1>2, RestOfIt, LineTail DEF Inv, Shape
<1>4. Fits(chunk)
  BY <1>3, ReadFits DEF Inv
<1>5. /\ TakeDeliver(chunk) \/ TakeHeader(chunk) \/ TakeBody(chunk)
      /\ UNCHANGED <<inputEnd, channel, toClient, toPeer>>
  BY <1>4 DEF Write
<1> HIDE DEF chunk
<1>6. Making' /\ Whole' /\ \A t : Accepts(Here, chunk, t) => t = Here'
  BY <1>1, <1>3, <1>5, Taken DEF Inv
<1>7. Ahead'
  BY <1>1, <1>3, <1>6 DEF Ahead
<1>8. Coming'
  <2> SUFFICES ASSUME inputEnd = "open"
               PROVE  \E t : Parsed(t, Line') /\ t[0] = Here' /\ Meets(t[Len(Line')])
    BY <1>1, <1>5 DEF Coming, Meets, channel
  <2>1. PICK u : Parsed(u, Line) /\ u[0] = Here /\ Meets(u[Len(Line)])
    BY DEF Inv, Coming
  <2>2. /\ Line \in Seq(Chunks) /\ Line # <<>> /\ Head(Line) = chunk
        /\ Line' = Tail(Line)
    BY <1>1, <1>5, LineTail DEF Inv, Line, chunk
  <2>3. /\ Accepts(Here, chunk, u[1])
        /\ \E t : Parsed(t, Tail(Line)) /\ t[0] = u[1] /\ t[Len(Tail(Line))] = u[Len(Line)]
    BY <2>1, <2>2, RestOfIt
  <2>4. u[1] = Here'
    BY <1>6, <2>3
  <2> QED
    BY <2>1, <2>2, <2>3, <2>4
<1>9. Shape' /\ Closed'
  <2>1. Tail(input) \in Seq(Chunks) /\ Len(Tail(input)) = Len(input) - 1
        /\ \A i \in 1..Len(Tail(input)) : Tail(input)[i] = input[i + 1] /\ i + 1 \in 1..Len(input)
    BY <1>1, HeadTailProperties, LenProperties DEF Inv, Shape
  <2> QED
    BY <1>1, <1>5, <2>1 DEF Inv, Shape, Closed, channel
<1> QED
  BY <1>6, <1>7, <1>8, <1>9 DEF Inv

-----------------------------------------------------------------------------
(* The channel. *)

LEMMA PushInv == ASSUME Inv, ticks # <<>>, PushFrame(Head(ticks)) PROVE Inv'
<1> DEFINE job == Head(ticks)
<1>1. /\ ticks' = Tail(ticks) /\ job.f \in Kinds
      /\ UNCHANGED <<assembly, given, next, toClient, toPeer, cancelled, destroyed, cancelling>>
  BY DEF PushFrame, Kinds, channel, broker
<1>2. /\ Tail(ticks) \in Seq(Chunks) /\ Append(input, job) \in Seq(Chunks)
      /\ Append(input, job) \o (Tail(ticks) \o toClient) = Line /\ job \in Chunks
  BY TickMoves DEF Inv
<1>3. \/ UNCHANGED input /\ inputEnd' # "open"
      \/ inputEnd = "open" /\ input' = Append(input, job) /\ inputEnd' = "open"
  <2>1. CASE job.f = "deliver" /\ destroyed
    BY <2>1 DEF PushFrame, Inv, Closed
  <2>2. CASE ~(job.f = "deliver" /\ destroyed)
    BY <2>2 DEF PushFrame, Push
  <2> QED
    BY <2>1, <2>2
<1> HIDE DEF job
<1>4. CASE UNCHANGED input /\ inputEnd' # "open"
  <2>1. Shape' /\ Closed'
    BY <1>1, <1>2, <1>4 DEF Inv, Shape, Closed
  <2> QED
    BY <1>1, <1>4, <2>1, InputDone
<1>5. CASE inputEnd = "open" /\ input' = Append(input, job) /\ inputEnd' = "open"
  <2>1. Line' = Line
    BY <1>1, <1>2, <1>5 DEF Line
  <2>2. \A i \in 1..Len(input') : input'[i].f \in Kinds
    <3>1. input \in Seq(Chunks) /\ Len(input) \in Nat /\ \A i \in 1..Len(input) : input[i].f \in Kinds
      BY LenProperties DEF Inv, Shape
    <3>2. /\ Len(input') = Len(input) + 1 /\ input'[Len(input) + 1] = job
          /\ \A i \in 1..Len(input) : input'[i] = input[i]
      BY <1>2, <1>5, <3>1, AppendProperties
    <3> QED
      BY <1>1, <3>1, <3>2
  <2>3. Shape' /\ Closed'
    BY <1>1, <1>2, <1>5, <2>2 DEF Inv, Shape, Closed
  <2>4. Here' = Here
    BY <1>1 DEF Here, Handed, assembly
  <2>5. Coming'
    BY <1>1, <1>5, <2>1, <2>4 DEF Inv, Coming, Meets
  <2>6. Ahead'
    <3>1. PICK s : Parsed(s, Line) /\ s[0] = Here
      BY <1>5 DEF Inv, Coming
    <3>2. input' \in Seq(Chunks) /\ ticks' \o toClient' \in Seq(Chunks) /\ Line = input' \o (ticks' \o toClient')
      BY <2>1, <2>3, ConcatProperties DEF Shape, Line
    <3>3. \E t : Parsed(t, input') /\ t[0] = s[0]
      BY <3>1, <3>2, FirstPart
    <3> QED
      BY <2>4, <3>1, <3>3 DEF Ahead
  <2>7. Making' /\ Whole'
    BY <1>1 DEF Inv, Making, Whole, Handed, assembly
  <2> QED
    BY <2>3, <2>5, <2>6, <2>7 DEF Inv
<1> QED
  BY <1>3, <1>4, <1>5

\* a cancel comes last: what follows could not be read
LEMMA CancelIsLast ==
    ASSUME Inv, inputEnd = "open", ticks # <<>>, Head(ticks).f = "cancel"
    PROVE  next \notin Tags /\ Tail(ticks) \o toClient = <<>>
<1> DEFINE job == Head(ticks)
           rest == Tail(ticks) \o toClient
           n == Len(input)
<1>1. PICK s : Parsed(s, Line) /\ s[0] = Here /\ Meets(s[Len(Line)])
  BY DEF Inv, Coming
<1>2. /\ input \in Seq(Chunks) /\ Append(input, job) \in Seq(Chunks) /\ rest \in Seq(Chunks)
      /\ Line = Append(input, job) \o rest /\ n \in Nat /\ job \in Chunks
  <2>1. Tail(ticks) \in Seq(Chunks) /\ toClient \in Seq(Chunks) /\ input \in Seq(Chunks)
    BY TickMoves DEF Inv, Shape
  <2> QED
    BY <2>1, TickMoves, ConcatProperties, LenProperties DEF Inv
<1> HIDE DEF job, rest, n
<1>3. /\ Len(Append(input, job)) = n + 1 /\ Append(input, job)[n + 1] = job
  BY <1>2, AppendProperties DEF n
<1>4. /\ Len(rest) \in Nat /\ Len(Line) = n + 1 + Len(rest)
      /\ Line[n + 1] = job /\ \A i \in 1..Len(rest) : Line[n + 1 + i] = rest[i]
  <2>1. /\ Len(Line) = Len(Append(input, job)) + Len(rest)
        /\ \A i \in 1..(Len(Append(input, job)) + Len(rest)) :
              Line[i] = IF i <= Len(Append(input, job)) THEN Append(input, job)[i]
                        ELSE rest[i - Len(Append(input, job))]
    BY <1>2, ConcatProperties
  <2>2. Len(rest) \in Nat
    BY <1>2, LenProperties
  <2> QED
    BY <1>2, <1>3, <2>1, <2>2
<1>5. s[n + 1].place = "over"
  <2>1. n + 1 \in 1..Len(Line)
    BY <1>2, <1>4
  <2>2. Accepts(s[(n + 1) - 1], Line[n + 1], s[n + 1])
    BY <1>1, <2>1 DEF Parsed
  <2>3. job.f = "cancel"
    BY DEF job
  <2> QED
    BY <1>4, <2>2, <2>3 DEF Accepts
<1>6. Len(rest) = 0
  <2> SUFFICES ASSUME Len(rest) # 0 PROVE FALSE
    OBVIOUS
  <2>1. n + 2 \in 1..Len(Line) /\ (n + 2) - 1 = n + 1
    BY <1>2, <1>4
  <2>2. Accepts(s[n + 1], Line[n + 2], s[n + 2])
    BY <1>1, <2>1 DEF Parsed
  <2> QED
    BY <1>5, <2>2 DEF Accepts
<1>7. rest = <<>>
  BY <1>2, <1>6, EmptySeq
<1>8. next \notin Tags
  <2> SUFFICES ASSUME next \in Tags PROVE FALSE
    OBVIOUS
  <2>1. s[n + 1] = Idle(next - 1)
    BY <1>1, <1>2, <1>4, <1>6 DEF Meets
  <2> QED
    BY <1>5, <2>1 DEF Idle
<1> QED
  BY <1>7, <1>8 DEF rest

LEMMA CancelInv == ASSUME Inv, ticks # <<>>, HandleCancel(Head(ticks)) PROVE Inv'
<1>1. /\ ticks' = Tail(ticks) /\ Head(ticks).f = "cancel"
      /\ UNCHANGED <<input, inputEnd, assembly, given, next, toClient, toPeer, cancelled, destroyed>>
  BY DEF HandleCancel, broker
<1>2. Shape' /\ Closed'
  BY <1>1, TickMoves DEF Inv, Shape, Closed
<1>3. CASE inputEnd # "open"
  BY <1>1, <1>2, <1>3, InputDone
<1>4. CASE inputEnd = "open"
  <2>1. next \notin Tags /\ Tail(ticks) \o toClient = <<>>
    BY <1>1, <1>4, CancelIsLast
  <2>2. Line' = input
    BY <1>1, <2>1, ConcatEmptySeq DEF Line, Inv, Shape
  <2>3. Here' = Here
    BY <1>1 DEF Here, Handed, assembly
  <2>4. cancelling'
    BY <1>4 DEF HandleCancel, Inv, Closed
  <2>6. Ahead' /\ Coming'
    BY <1>1, <2>1, <2>2, <2>3, <2>4 DEF Inv, Ahead, Coming, Meets
  <2>5. Making' /\ Whole'
    BY <1>1 DEF Inv, Making, Whole, Handed, assembly
  <2> QED
    BY <1>2, <2>5, <2>6 DEF Inv
<1> QED
  BY <1>3, <1>4

-----------------------------------------------------------------------------
(* The broker. *)

\* what is sent takes the broker from one delivery to the next, or is a cancel
Onward(more, after) ==
    \E t : /\ Parsed(t, more) /\ t[0] = Idle(next - 1)
           /\ t[Len(more)] = Idle(after - 1) \/ (after \notin Tags /\ t[Len(more)].place = "over")

\* what it sends is joined to what is on its way
LEMMA SentInv ==
    ASSUME Inv, next \in Tags, next' \in Nat, NEW more \in Seq(Chunks), toClient' = toClient \o more,
           UNCHANGED <<input, inputEnd, assembly, given, ticks, toPeer, cancelled, destroyed>>,
           Onward(more, next')
    PROVE  Inv'
<1>1. Shape' /\ Closed'
  <2>1. toClient' \in Seq(Chunks)
    BY ConcatProperties DEF Inv, Shape
  <2> QED
    BY <2>1 DEF Inv, Shape, Closed
<1>2. CASE inputEnd # "open"
  BY <1>1, <1>2, InputDone
<1>3. CASE inputEnd = "open"
  <2>1. PICK s : Parsed(s, Line) /\ s[0] = Here /\ s[Len(Line)] = Idle(next - 1)
    BY <1>3 DEF Inv, Coming, Meets
  <2>2. PICK t : /\ Parsed(t, more) /\ t[0] = Idle(next - 1)
                 /\ t[Len(more)] = Idle(next' - 1) \/ (next' \notin Tags /\ t[Len(more)].place = "over")
    BY DEF Onward
  <2>8. Parsed(t, more) /\ t[0] = Idle(next - 1)
    BY <2>2
  <2>3. Line \in Seq(Chunks) /\ Line' = Line \o more
    <3>1. input \in Seq(Chunks) /\ ticks \in Seq(Chunks) /\ toClient \in Seq(Chunks)
          /\ ticks \o toClient \in Seq(Chunks) /\ more \in Seq(Chunks)
      BY ConcatProperties DEF Inv, Shape
    <3>2. ticks \o (toClient \o more) = (ticks \o toClient) \o more
      BY <3>1, ConcatAssociative
    <3>3. input \o ((ticks \o toClient) \o more) = (input \o (ticks \o toClient)) \o more
      BY <3>1, ConcatAssociative
    <3> QED
      BY <3>1, <3>2, <3>3, ConcatProperties DEF Line
  <2>4. PICK u : Parsed(u, Line \o more) /\ u[0] = Here /\ u[Len(Line \o more)] = t[Len(more)]
    BY <2>1, <2>8, <2>3, Joined
  <2>5. Here' = Here
    BY DEF Here, Handed, assembly
  <2>6. Coming'
    BY <2>2, <2>3, <2>4, <2>5 DEF Coming, Meets
  <2>7. Ahead' /\ Making' /\ Whole'
    BY <2>5 DEF Inv, Ahead, Making, Whole, Handed, assembly
  <2> QED
    BY <1>1, <2>6, <2>7 DEF Inv
<1> QED
  BY <1>2, <1>3

LEMMA DeliverInv == ASSUME Inv, Deliver PROVE Inv'
<1>1. /\ next \in Tags /\ next' = next + 1 /\ next \in Nat
      /\ UNCHANGED <<input, inputEnd, assembly, given, ticks, toPeer, cancelled, destroyed>>
  BY DEF Deliver, channel, Inv, Shape
<1>2. toClient' = toClient \o Delivery(next) /\ Delivery(next) \in Seq(Chunks)
  BY <1>1, DeliveryParsed DEF Deliver, Inv, Shape
<1>3. \E t : Parsed(t, Delivery(next)) /\ t[0] = Idle(next - 1) /\ t[Len(Delivery(next))] = Idle(next)
  BY <1>1, DeliveryParsed
<1>4. next' \in Nat /\ next' - 1 = next
  BY <1>1
<1>5. Onward(Delivery(next), next')
  BY <1>3, <1>4 DEF Onward
<1> QED
  BY <1>1, <1>2, <1>4, <1>5, SentInv

LEMMA CancelSentInv == ASSUME Inv, Cancel PROVE Inv'
<1> DEFINE frame == [f |-> "cancel", d |-> NoMessage]
           t == [i \in 0..1 |-> IF i = 0 THEN Idle(next - 1) ELSE [Idle(next - 1) EXCEPT !.place = "over"]]
<1>1. /\ next \in Tags /\ next' = Deliveries + 1 /\ next \in Nat \ {0}
      /\ UNCHANGED <<input, inputEnd, assembly, given, ticks, toPeer, cancelled, destroyed>>
      /\ toClient' = Append(toClient, frame)
  BY ConsumerAssumption DEF Cancel, channel, Inv, Shape, Tags
<1>2. next' \in Nat /\ next' \notin Tags
  BY <1>1, ConsumerAssumption DEF Tags
<1>3. frame \in Chunks /\ <<frame>> \in Seq(Chunks) /\ Len(<<frame>>) = 1 /\ <<frame>>[1] = frame
  BY DEF Chunks, NoMessage
<1>4. toClient' = toClient \o <<frame>>
  BY <1>1, <1>3, AppendIsConcat DEF Inv, Shape
<1>5. t \in [0..1 -> States] /\ t[0] = Idle(next - 1) /\ t[1].place = "over"
  BY <1>1 DEF States, Idle
<1>6. Accepts(t[0], frame, t[1])
  BY <1>5 DEF Accepts, Idle
<1> HIDE DEF t
<1>7. Parsed(t, <<frame>>)
  <2>1. \A i \in 1..1 : i = 1 /\ i - 1 = 0
    OBVIOUS
  <2> HIDE DEF frame
  <2> QED
    BY <1>3, <1>5, <1>6, <2>1 DEF Parsed
<1>8. Onward(<<frame>>, next')
  <2> HIDE DEF frame
  <2> QED
    BY <1>2, <1>3, <1>5, <1>7 DEF Onward
<1> HIDE DEF frame
<1> QED
  BY <1>1, <1>2, <1>3, <1>4, <1>8, SentInv

LEMMA BrokerReadsInv == ASSUME Inv, BrokerReads PROVE Inv'
<1> DEFINE f == Head(toPeer)
<1>1. /\ toPeer # <<>> /\ toPeer' = Tail(toPeer)
      /\ UNCHANGED <<input, inputEnd, assembly, given, ticks, cancelled, destroyed, cancelling>>
  BY DEF BrokerReads, channel
<1>2. /\ Tail(toPeer) \in Seq(PeerFrames)
      /\ f = toPeer[1] /\ 1 \in 1..Len(toPeer) /\ Len(Tail(toPeer)) = Len(toPeer) - 1
      /\ \A i \in 1..Len(Tail(toPeer)) : Tail(toPeer)[i] = toPeer[i + 1] /\ i + 1 \in 1..Len(toPeer)
  BY <1>1, HeadTailProperties, EmptySeq DEF Inv, Closed
<1>3. Closed'
  BY <1>1, <1>2 DEF Inv, Closed
<1>4. CASE f.f = "close"
  <2>1. inputEnd' # "open"
    BY <1>1, <1>2, <1>4 DEF Inv, Closed
  <2>2. next' = Deliveries + 1 /\ (toClient' = toClient \/ toClient' = Append(toClient, [f |-> "close_ok", d |-> NoMessage]))
    BY <1>4 DEF BrokerReads
  <2>3. [f |-> "close_ok", d |-> NoMessage] \in Chunks
    BY DEF Chunks, NoMessage
  <2>4. Shape'
    <3>1. toClient' \in Seq(Chunks)
      BY <2>2, <2>3, AppendProperties DEF Inv, Shape
    <3>2. next' \in Nat
      BY <2>2, ConsumerAssumption
    <3> QED
      BY <1>1, <3>1, <3>2 DEF Inv, Shape
  <2> QED
    BY <1>1, <1>3, <2>1, <2>4, InputDone
<1>5. CASE f.f # "close"
  <2>1. next' = next /\ toClient' = toClient
    BY <1>5 DEF BrokerReads
  <2>2. Line' = Line /\ Shape'
    BY <1>1, <2>1 DEF Line, Inv, Shape
  <2> QED
    BY <1>1, <1>3, <2>1, <2>2, LineKept
<1> QED
  BY <1>4, <1>5

-----------------------------------------------------------------------------
LEMMA DecodeInv == ASSUME Inv, Decode PROVE Inv'
<1>1. PICK k \in 1..Len(toClient) :
        /\ ticks' = ticks \o SubSeq(toClient, 1, k)
        /\ toClient' = SubSeq(toClient, k + 1, Len(toClient))
  BY DEF Decode
<1>2. UNCHANGED <<input, inputEnd, assembly, given, next, cancelled, destroyed, cancelling, toPeer>>
  BY DEF Decode, channel, broker
<1>3. Line' = Line /\ ticks' \in Seq(Chunks) /\ toClient' \in Seq(Chunks)
  BY <1>1, <1>2, PieceMoves DEF Line, Inv
<1>4. Shape' /\ Closed'
  BY <1>2, <1>3 DEF Inv, Shape, Closed
<1> QED
  BY <1>2, <1>3, <1>4, LineKept

LEMMA CancelOkInv == ASSUME Inv, CancelOkWritten PROVE Inv'
<1>1. /\ UNCHANGED <<input, assembly, given, ticks, toClient, next>>
      /\ destroyed' /\ cancelled' /\ inputEnd' # "open"
      /\ toPeer' = toPeer \/ toPeer' = Append(toPeer, [f |-> "close", d |-> NoMessage])
  BY DEF CancelOkWritten, DestroyChannel, broker, Inv, Closed
<1>2. [f |-> "close", d |-> NoMessage] \in PeerFrames
  BY DEF PeerFrames, NoMessage
<1>3. toPeer' \in Seq(PeerFrames)
  <2>1. toPeer \in Seq(PeerFrames)
    BY DEF Inv, Closed
  <2>2. Append(toPeer, [f |-> "close", d |-> NoMessage]) \in Seq(PeerFrames)
    BY <1>2, <2>1, AppendProperties
  <2> QED
    BY <1>1, <2>1, <2>2
<1>4. Shape' /\ Closed'
  BY <1>1, <1>3 DEF Inv, Shape, Closed
<1> QED
  BY <1>1, <1>4, InputDone

LEMMA AckInv == ASSUME Inv, NEW d \in Tags, Ack(d) PROVE Inv'
<1>1. /\ UNCHANGED <<input, inputEnd, assembly, given, ticks, toClient, next, cancelled, destroyed, cancelling>>
      /\ toPeer' = toPeer \/ toPeer' = Append(toPeer, [f |-> "ack", d |-> d])
  BY DEF Ack, channel, broker
<1>2. [f |-> "ack", d |-> d] \in PeerFrames
  BY DEF PeerFrames, Tags
<1>3. Closed'
  <2>1. CASE toPeer' = toPeer
    BY <1>1, <2>1 DEF Inv, Closed
  <2>2. CASE toPeer' = Append(toPeer, [f |-> "ack", d |-> d])
    <3>1. /\ toPeer' \in Seq(PeerFrames) /\ Len(toPeer') = Len(toPeer) + 1
          /\ \A i \in 1..Len(toPeer) : toPeer'[i] = toPeer[i]
          /\ toPeer'[Len(toPeer) + 1] = [f |-> "ack", d |-> d] /\ Len(toPeer) \in Nat
      BY <1>2, <2>2, AppendProperties, LenProperties DEF Inv, Closed
    <3>2. \A i \in 1..Len(toPeer') : toPeer'[i].f = "close" => destroyed'
      BY <1>1, <3>1 DEF Inv, Closed
    <3> QED
      BY <1>1, <3>1, <3>2 DEF Inv, Closed
  <2> QED
    BY <1>1, <2>1, <2>2
<1>4. Shape' /\ Line' = Line
  BY <1>1 DEF Inv, Shape, Line
<1> QED
  BY <1>1, <1>3, <1>4, LineKept

LEMMA ReadInv == ASSUME Inv, Read PROVE Inv'
<1>1. /\ output # <<>> /\ given' = Append(given, Head(output)) /\ output' = Tail(output)
      /\ UNCHANGED <<input, inputEnd, current, header, waitSize, body, ended, ticks, toClient, toPeer,
                     next, cancelled, destroyed, cancelling>>
  BY DEF Read, channel, broker
<1>2. /\ given \in Seq(Nat) /\ output \in Seq(Nat) /\ Len(given) \in Nat /\ Len(output) \in Nat \ {0}
      /\ \A i \in 1..Len(given) : given[i] = i
      /\ \A i \in 1..Len(output) : output[i] = Len(given) + i
  BY <1>1, EmptySeq, LenProperties DEF Inv, Whole
<1>3. /\ Head(output) = output[1] /\ Head(output) = Len(given) + 1 /\ Tail(output) \in Seq(Nat)
      /\ Len(output') = Len(output) - 1
      /\ \A i \in 1..Len(output') : output'[i] = output[i + 1]
  BY <1>1, <1>2, HeadTailProperties
<1>4. /\ given' \in Seq(Nat) /\ Len(given') = Len(given) + 1
      /\ \A i \in 1..Len(given) : given'[i] = given[i]
      /\ given'[Len(given) + 1] = Len(given) + 1
  BY <1>1, <1>2, <1>3, AppendProperties
<1>5. Handed' = Handed
  BY <1>2, <1>3, <1>4 DEF Handed
<1>6. Here' = Here /\ Line' = Line
  BY <1>1, <1>5 DEF Here, Line
<1>7. \A i \in 1..Len(given') : given'[i] = i
  <2> SUFFICES ASSUME NEW i \in 1..Len(given') PROVE given'[i] = i
    OBVIOUS
  <2>1. i = Len(given) + 1 \/ i \in 1..Len(given)
    BY <1>2, <1>4
  <2> QED
    BY <1>2, <1>4, <2>1
<1>8. \A i \in 1..Len(output') : output'[i] = Len(given') + i
  BY <1>2, <1>3, <1>4
<1>9. Whole'
  BY <1>1, <1>3, <1>4, <1>5, <1>7, <1>8 DEF Inv, Whole
<1>10. Shape' /\ Closed' /\ Ahead' /\ Coming' /\ Making'
  BY <1>1, <1>5, <1>6 DEF Inv, Shape, Closed, Ahead, Coming, Meets, Making
<1> QED
  BY <1>9, <1>10 DEF Inv

LEMMA InvNext == ASSUME Inv, [Next]_vars PROVE Inv'
<1>1. CASE Ticks
  BY <1>1, PushInv, CancelInv DEF Ticks
<1>2. CASE Write
  BY <1>2, WriteInv
<1>3. CASE InputEnds \/ InputBreaks
  <2>1. /\ UNCHANGED <<input, assembly, given, ticks, next>>
        /\ DestroyConnection \/ UNCHANGED <<inputEnd, channel, toClient, toPeer>>
    BY <1>3 DEF InputEnds, InputBreaks, PipelineEnds, broker
  <2>2. CASE UNCHANGED <<inputEnd, channel, toClient, toPeer>>
    <3>1. Shape' /\ Closed' /\ Line' = Line
      BY <2>1, <2>2 DEF Inv, Shape, Closed, Line, channel
    <3> QED
      BY <2>1, <2>2, <3>1, LineKept DEF channel
  <2> QED
    BY <2>1, <2>2, DestroyedEnds
<1>4. CASE Decode
  BY <1>4, DecodeInv
<1>5. CASE DecodeUnknown \/ ConnectionFails
  BY <1>5, DestroyedEnds DEF DecodeUnknown, ConnectionFails, broker
<1>6. CASE CancelOkWritten
  BY <1>6, CancelOkInv
<1>7. CASE Unsubscribe
  <2>1. /\ UNCHANGED <<input, assembly, given, ticks, toClient, toPeer, next, destroyed>>
        /\ cancelled' /\ inputEnd' # "open"
    BY <1>7 DEF Unsubscribe, broker
  <2>2. Shape' /\ Closed'
    BY <2>1 DEF Inv, Shape, Closed
  <2> QED
    BY <2>1, <2>2, InputDone
<1>8. CASE Read
  BY <1>8, ReadInv
<1>9. CASE \E d \in Tags : Ack(d)
  BY <1>9, AckInv
<1>10. CASE Deliver
  BY <1>10, DeliverInv
<1>11. CASE Cancel
  BY <1>11, CancelSentInv
<1>12. CASE BrokerReads
  BY <1>12, BrokerReadsInv
<1>13. CASE UNCHANGED vars
  <2>1. Shape' /\ Closed' /\ Line' = Line
    BY <1>13 DEF Inv, Shape, Closed, Line, vars, channel, broker
  <2> QED
    BY <1>13, <2>1, LineKept DEF vars, broker, channel
<1> QED
  BY <1>1, <1>2, <1>3, <1>4, <1>5, <1>6, <1>7, <1>8, <1>9, <1>10, <1>11, <1>12, <1>13 DEF Next, Continues

LEMMA InvAlways == Spec => []Inv
<1> QED
  BY InvInit, InvNext, PTL DEF Spec

(* For any number of messages of any size, any prefetch and any way to cut *)
(* the stream: no "Unexpected ..." error of ConsumeStream._writeAsync is   *)
(* ever reached, also when the input ends in the middle of a message.      *)
THEOREM ConsumerChunksFit == Spec => []ChunksFit
<1>1. Inv => ChunksFit
  <2> SUFFICES ASSUME Inv, input # <<>> PROVE Fits(Head(input))
    BY DEF ChunksFit
  <2>1. PICK s : Parsed(s, input) /\ s[0] = Here
    BY DEF Inv, Ahead
  <2>2. Accepts(Here, Head(input), s[1]) /\ Head(input).f \in Kinds
    BY <2>1, RestOfIt, LineTail DEF Inv, Shape
  <2> QED
    BY <2>2, ReadFits DEF Inv
<1> QED
  BY <1>1, InvAlways, PTL

-----------------------------------------------------------------------------
(* What the user is given. *)

InQueueOrder == given \o output = [i \in 1..Len(given \o output) |-> i]
EndedIsWhole == \A d \in ended : body[d] = Pieces[d]

LEMMA InOrderAndWhole == Spec => [](InQueueOrder /\ EndedIsWhole)
<1>1. Inv => InQueueOrder
  <2> SUFFICES ASSUME Inv PROVE InQueueOrder
    OBVIOUS
  <2> DEFINE n == Len(given \o output)
             all == [i \in 1..n |-> i]
  <2>1. /\ given \in Seq(Nat) /\ output \in Seq(Nat) /\ Len(given) \in Nat /\ Len(output) \in Nat
        /\ \A i \in 1..Len(given) : given[i] = i
        /\ \A i \in 1..Len(output) : output[i] = Len(given) + i
    BY LenProperties DEF Inv, Whole
  <2>2. /\ given \o output \in Seq(Nat) /\ n = Len(given) + Len(output)
        /\ \A i \in 1..n : (given \o output)[i] = IF i <= Len(given) THEN given[i] ELSE output[i - Len(given)]
    BY <2>1, ConcatProperties
  <2>3. ASSUME NEW i \in 1..n PROVE (given \o output)[i] = i
    <3>1. CASE i <= Len(given)
      BY <2>1, <2>2, <3>1
    <3>2. CASE ~(i <= Len(given))
      <4>1. i - Len(given) \in 1..Len(output)
        BY <2>1, <2>2, <3>2
      <4> QED
        BY <2>1, <2>2, <3>2, <4>1
    <3> QED
      BY <3>1, <3>2
  <2>4. all \in Seq(Nat) /\ Len(all) = n
    BY <2>1, <2>2
  <2>5. given \o output = all
    <3> HIDE DEF n
    <3> QED
      BY <2>2, <2>3, <2>4, SeqEqual DEF n
  <2> QED
    BY <2>5 DEF InQueueOrder
<1>2. Inv => EndedIsWhole
  BY DEF Inv, Whole, EndedIsWhole
<1> QED
  BY <1>1, <1>2, InvAlways, PTL

-----------------------------------------------------------------------------
(* What the user acknowledges. *)

Owed == unacked \cup called

\* the deliveries on their way have not been forgotten by the broker
Known(line) == \A i \in 1..Len(line) : line[i].f = "deliver" => line[i].d \in Owed

AcksAwaited ==
    /\ \A i \in 1..Len(toPeer) : toPeer[i].f = "ack" => toPeer[i].d \in unacked \cap called
    /\ \A i, j \in 1..Len(toPeer) :
          toPeer[i].f = "ack" /\ toPeer[j].f = "ack" /\ toPeer[i].d = toPeer[j].d => i = j

\* as long as the channel lives, every message that the user has or will have is one that the
\* broker waits for, until it is acknowledged
Acks ==
    destroyed \/ ( /\ Known(input) /\ Known(ticks) /\ Known(toClient)
                   /\ \A d \in Tags : d <= Here.tag => d \in Owed
                   /\ AcksAwaited /\ ~offence )

LEMMA KnownTail ==
    ASSUME NEW line \in Seq(Chunks), line # <<>>, Known(line)
    PROVE  Known(Tail(line)) /\ (Head(line).f = "deliver" => Head(line).d \in Owed)
BY HeadTailProperties, EmptySeq DEF Known

LEMMA KnownAppend ==
    ASSUME NEW line \in Seq(Chunks), NEW chunk \in Chunks, Known(line),
           chunk.f = "deliver" => chunk.d \in Owed
    PROVE  Known(Append(line, chunk))
<1>1. /\ Len(Append(line, chunk)) = Len(line) + 1 /\ Len(line) \in Nat
      /\ \A i \in 1..Len(line) : Append(line, chunk)[i] = line[i]
      /\ Append(line, chunk)[Len(line) + 1] = chunk
  BY AppendProperties, LenProperties
<1> SUFFICES ASSUME NEW i \in 1..Len(Append(line, chunk)), Append(line, chunk)[i].f = "deliver"
             PROVE  Append(line, chunk)[i].d \in Owed
  BY DEF Known
<1>2. i \in 1..Len(line) \/ i = Len(line) + 1
  BY <1>1
<1> QED
  BY <1>1, <1>2 DEF Known

LEMMA KnownConcat ==
    ASSUME NEW a \in Seq(Chunks), NEW b \in Seq(Chunks), Known(a), Known(b)
    PROVE  Known(a \o b)
<1>1. /\ Len(a \o b) = Len(a) + Len(b) /\ Len(a) \in Nat /\ Len(b) \in Nat
      /\ \A i \in 1..(Len(a) + Len(b)) : (a \o b)[i] = IF i <= Len(a) THEN a[i] ELSE b[i - Len(a)]
  BY ConcatProperties, LenProperties
<1> SUFFICES ASSUME NEW i \in 1..Len(a \o b), (a \o b)[i].f = "deliver"
             PROVE  (a \o b)[i].d \in Owed
  BY DEF Known
<1>2. CASE i <= Len(a)
  BY <1>1, <1>2 DEF Known
<1>3. CASE ~(i <= Len(a))
  <2>1. i - Len(a) \in 1..Len(b) /\ (a \o b)[i] = b[i - Len(a)]
    BY <1>1, <1>3
  <2> QED
    BY <2>1 DEF Known
<1> QED
  BY <1>2, <1>3

LEMMA KnownPiece ==
    ASSUME NEW line \in Seq(Chunks), NEW k \in 1..Len(line), Known(line)
    PROVE  Known(SubSeq(line, 1, k)) /\ Known(SubSeq(line, k + 1, Len(line)))
<1>1. Len(line) \in Nat /\ \A i \in 1..Len(line) : line[i] \in Chunks
  BY ElementOfSeq, LenProperties
<1>2. /\ Len(SubSeq(line, 1, k)) = k
      /\ \A i \in 1..k : SubSeq(line, 1, k)[i] = line[i]
  BY <1>1, SubSeqProperties
<1>3. /\ Len(SubSeq(line, k + 1, Len(line))) = Len(line) - k
      /\ \A i \in 1..(Len(line) - k) : SubSeq(line, k + 1, Len(line))[i] = line[k + i]
  BY <1>1, SubSeqProperties
<1> QED
  BY <1>1, <1>2, <1>3 DEF Known

\* a step by which the broker forgets nothing
LEMMA AcksGrow ==
    ASSUME Acks, ~destroyed, Owed \subseteq Owed', Here.tag' = Here.tag,
           Known(input'), Known(ticks'), Known(toClient'), AcksAwaited', ~offence'
    PROVE  Acks'
<1>1. Known(input)' /\ Known(ticks)' /\ Known(toClient)'
  BY DEF Known
<1>2. \A d \in Tags : d <= Here.tag' => d \in Owed'
  BY DEF Acks
<1> QED
  BY <1>1, <1>2 DEF Acks

\* a step that does not change what is acknowledged
LEMMA AcksKept ==
    ASSUME Acks, ~destroyed, UNCHANGED <<unacked, called, offence, toPeer>>, Here.tag' = Here.tag,
           Known(input'), Known(ticks'), Known(toClient')
    PROVE  Acks'
<1>1. Owed' = Owed
  BY DEF Owed
<1>2. AcksAwaited' /\ ~offence'
  BY DEF Acks, AcksAwaited
<1> QED
  BY <1>1, <1>2, AcksGrow

LEMMA AcksInit == ASSUME Init PROVE Acks
<1>1. /\ input = <<>> /\ ticks = <<>> /\ toClient = <<>> /\ toPeer = <<>> /\ offence = FALSE
      /\ Len(given) = 0 /\ Len(output) = 0 /\ current = NoMessage
  BY DEF Init, LoopInit
<1>2. Here.tag = 0
  BY <1>1 DEF Here, Handed
<1>3. \A d \in Tags : ~(d <= Here.tag)
  BY <1>2, ConsumerAssumption DEF Tags
<1> QED
  BY <1>1, <1>3 DEF Acks, Known, AcksAwaited

LEMMA TickAcks ==
    ASSUME Inv, Acks, ~destroyed, ticks # <<>>, PushFrame(Head(ticks)) \/ HandleCancel(Head(ticks))
    PROVE  Acks'
<1> DEFINE job == Head(ticks)
<1>1. /\ ticks' = Tail(ticks)
      /\ UNCHANGED <<assembly, given, called, toClient, toPeer, unacked, offence>>
      /\ input' = input \/ input' = Append(input, job)
  BY DEF PushFrame, Push, HandleCancel, broker
<1>2. input \in Seq(Chunks) /\ ticks \in Seq(Chunks) /\ job \in Chunks
  BY TickMoves DEF Inv, Shape
<1>3. Known(ticks') /\ (job.f = "deliver" => job.d \in Owed)
  BY <1>1, <1>2, KnownTail DEF Acks
<1> HIDE DEF job
<1>4. Known(input') /\ Known(toClient')
  BY <1>1, <1>2, <1>3, KnownAppend DEF Acks
<1>5. Here.tag' = Here.tag
  BY <1>1 DEF Here, Handed, assembly
<1> QED
  BY <1>1, <1>3, <1>4, <1>5, AcksKept

LEMMA WriteAcks == ASSUME Inv, Acks, ~destroyed, Write PROVE Acks'
<1> DEFINE chunk == Head(input)
<1>1. input # <<>> /\ input' = Tail(input) /\ UNCHANGED <<given, called, ticks, unacked, offence>>
  BY DEF Write, Writes, broker
<1>2. PICK s : Parsed(s, input) /\ s[0] = Here
  BY DEF Inv, Ahead
<1>3. Accepts(Here, chunk, s[1]) /\ chunk.f \in Kinds
  BY <1>1, <1>2, RestOfIt, LineTail DEF Inv, Shape
<1>4. Fits(chunk)
  BY <1>3, ReadFits DEF Inv
<1>5. /\ TakeDeliver(chunk) \/ TakeHeader(chunk) \/ TakeBody(chunk)
      /\ UNCHANGED <<toClient, toPeer>>
  BY <1>4 DEF Write
<1>6. Known(Tail(input)) /\ (chunk.f = "deliver" => chunk.d \in Owed)
  BY <1>1, KnownTail DEF Acks, Inv, Shape
<1> HIDE DEF chunk
<1>7. Accepts(Here, chunk, Here')
  BY <1>1, <1>3, <1>5, Taken DEF Inv
<1>8. Here'.tag = Here.tag \/ (chunk.f = "deliver" /\ chunk.d = Here.tag + 1 /\ Here'.tag = chunk.d)
  BY <1>3, <1>7 DEF Accepts, Idle, Kinds
<1>9. \A d \in Tags : d <= Here'.tag => d \in Owed
  <2>1. Tags \subseteq Nat /\ Here.tag \in Nat
    BY ConsumerAssumption, LenProperties DEF Tags, Inv, Whole, Handed, Here
  <2>2. \A d \in Tags : d <= Here.tag => d \in Owed
    BY DEF Acks
  <2> QED
    BY <1>6, <1>8, <2>1, <2>2
<1>10. Owed' = Owed /\ AcksAwaited' /\ ~offence'
  BY <1>1, <1>5 DEF Owed, Acks, AcksAwaited
<1>11. Known(input)' /\ Known(ticks)' /\ Known(toClient)'
  BY <1>1, <1>5, <1>6, <1>10 DEF Known, Acks
<1> QED
  BY <1>9, <1>10, <1>11 DEF Acks

LEMMA DecodeAcks == ASSUME Inv, Acks, ~destroyed, Decode PROVE Acks'
<1>1. PICK k \in 1..Len(toClient) :
        /\ ticks' = ticks \o SubSeq(toClient, 1, k)
        /\ toClient' = SubSeq(toClient, k + 1, Len(toClient))
  BY DEF Decode
<1>2. UNCHANGED <<input, assembly, given, called, toPeer, unacked, offence>>
  BY DEF Decode, broker
<1>3. input \in Seq(Chunks) /\ ticks \in Seq(Chunks) /\ toClient \in Seq(Chunks)
  BY DEF Inv, Shape
<1>4. SubSeq(toClient, 1, k) \in Seq(Chunks)
  <2>1. Len(toClient) \in Nat /\ \A i \in 1..Len(toClient) : toClient[i] \in Chunks
    BY <1>3, ElementOfSeq, LenProperties
  <2> QED
    BY <1>3, <2>1, SubSeqProperties
<1>5. Known(SubSeq(toClient, 1, k)) /\ Known(toClient')
  BY <1>1, <1>3, KnownPiece DEF Acks
<1>6. Known(ticks') /\ Known(input')
  BY <1>1, <1>2, <1>3, <1>4, <1>5, KnownConcat DEF Acks
<1>7. Here.tag' = Here.tag
  BY <1>2 DEF Here, Handed, assembly
<1> QED
  BY <1>2, <1>5, <1>6, <1>7, AcksKept

LEMMA ReadAcks == ASSUME Inv, Acks, ~destroyed, Read PROVE Acks'
<1>1. /\ output # <<>> /\ given' = Append(given, Head(output)) /\ output' = Tail(output)
      /\ UNCHANGED <<input, current, header, called, ticks, toClient, toPeer, unacked, offence>>
  BY DEF Read, broker
<1>2. given \in Seq(Nat) /\ output \in Seq(Nat) /\ Len(given) \in Nat /\ Len(output) \in Nat \ {0}
  BY <1>1, EmptySeq, LenProperties DEF Inv, Whole
<1>3. Head(output) \in Nat /\ Len(output') = Len(output) - 1
  BY <1>1, <1>2, HeadTailProperties
<1>4. Len(given') = Len(given) + 1
  BY <1>1, <1>2, <1>3, AppendProperties
<1>5. Here.tag' = Here.tag
  BY <1>1, <1>2, <1>3, <1>4 DEF Here, Handed
<1>6. Known(input') /\ Known(ticks') /\ Known(toClient')
  BY <1>1 DEF Acks
<1> QED
  BY <1>1, <1>5, <1>6, AcksKept

\* a message that the user has is one that the broker waits for, and no other ack of it is sent
LEMMA AckAcks == ASSUME Inv, Acks, ~destroyed, NEW d \in Tags, Ack(d) PROVE Acks'
<1> DEFINE frame == [f |-> "ack", d |-> d]
<1>1. /\ d \in ToSet(given) /\ d \notin called /\ called' = called \cup {d}
      /\ UNCHANGED <<input, assembly, given, ticks, toClient, unacked, offence>>
      /\ toPeer' = toPeer \/ toPeer' = Append(toPeer, frame)
  BY DEF Ack, broker
<1>2. d <= Here.tag
  <2>1. Len(given) \in Nat /\ Len(output) \in Nat /\ \A i \in 1..Len(given) : given[i] = i
    BY LenProperties DEF Inv, Whole
  <2>2. d \in 1..Len(given)
    BY <1>1, <2>1 DEF ToSet
  <2> QED
    BY <2>1, <2>2 DEF Here, Handed
<1>3. d \in unacked
  BY <1>1, <1>2 DEF Acks, Owed
<1>4. Owed \subseteq Owed' /\ ~offence'
  BY <1>1 DEF Owed, Acks
<1>5. AcksAwaited'
  <2>1. CASE toPeer' = toPeer
    BY <1>1, <2>1 DEF Acks, AcksAwaited
  <2>2. CASE toPeer' = Append(toPeer, frame)
    <3>1. frame \in PeerFrames /\ toPeer \in Seq(PeerFrames)
      BY DEF PeerFrames, Tags, Inv, Closed
    <3>2. /\ Len(toPeer') = Len(toPeer) + 1 /\ Len(toPeer) \in Nat
          /\ \A i \in 1..Len(toPeer) : toPeer'[i] = toPeer[i]
          /\ toPeer'[Len(toPeer) + 1] = frame
      BY <2>2, <3>1, AppendProperties, LenProperties
    <3>3. \A i \in 1..Len(toPeer') : i \in 1..Len(toPeer) \/ i = Len(toPeer) + 1
      BY <3>2
    <3>4. \A i \in 1..Len(toPeer) : toPeer'[i].f = "ack" =>
              toPeer'[i].d \in unacked' \cap called' /\ toPeer'[i].d # d
      BY <1>1, <3>2 DEF Acks, AcksAwaited
    <3>5. toPeer'[Len(toPeer) + 1].d = d /\ d \in unacked' \cap called'
      BY <1>1, <1>3, <3>2
    <3>6. \A i \in 1..Len(toPeer') : toPeer'[i].f = "ack" => toPeer'[i].d \in unacked' \cap called'
      BY <3>3, <3>4, <3>5
    <3>7. ASSUME NEW i \in 1..Len(toPeer'), NEW j \in 1..Len(toPeer'),
                 toPeer'[i].f = "ack", toPeer'[j].f = "ack", toPeer'[i].d = toPeer'[j].d
          PROVE  i = j
      <4>1. CASE i \in 1..Len(toPeer) /\ j \in 1..Len(toPeer)
        BY <3>2, <3>7, <4>1 DEF Acks, AcksAwaited
      <4> QED
        BY <3>3, <3>4, <3>5, <3>7, <4>1
    <3> QED
      BY <3>6, <3>7 DEF AcksAwaited
  <2> QED
    BY <1>1, <2>1, <2>2
<1>6. Here.tag' = Here.tag /\ Known(input') /\ Known(ticks') /\ Known(toClient')
  BY <1>1 DEF Here, Handed, assembly, Acks
<1> QED
  BY <1>4, <1>5, <1>6, AcksGrow

LEMMA DeliverAcks == ASSUME Inv, Acks, ~destroyed, Deliver PROVE Acks'
<1>1. /\ next \in Tags /\ unacked' = unacked \cup {next}
      /\ UNCHANGED <<input, assembly, given, called, ticks, toPeer, offence>>
  BY DEF Deliver
<1>2. toClient' = toClient \o Delivery(next) /\ Delivery(next) \in Seq(Chunks) /\ toClient \in Seq(Chunks)
  BY <1>1, DeliveryParsed DEF Deliver, Inv, Shape
<1>3. Owed' = Owed \cup {next}
  BY <1>1 DEF Owed
<1>4. \A i \in 1..Len(Delivery(next)) : Delivery(next)[i].d = next
  <2>1. PICK t : Parsed(t, Delivery(next)) /\ t[0] = Idle(next - 1)
    BY <1>1, DeliveryParsed
  <2>2. next \in Nat /\ Pieces[next] \in Nat
    BY <1>1, ConsumerAssumption DEF Tags
  <2> DEFINE two == <<[f |-> "deliver", d |-> next], [f |-> "header", d |-> next]>>
             bodies == [i \in 1..Pieces[next] |-> [f |-> "body", d |-> next]]
  <2>3. /\ two \in Seq(Chunks) /\ Len(two) = 2 /\ \A i \in 1..2 : two[i].d = next
    BY <2>2 DEF Chunks, Kinds
  <2>4. bodies \in Seq(Chunks) /\ Len(bodies) = Pieces[next] /\ \A i \in 1..Pieces[next] : bodies[i].d = next
    <3>1. \A i \in 1..Pieces[next] : [f |-> "body", d |-> next] \in Chunks
      BY <2>2 DEF Chunks, Kinds
    <3> QED
      BY <2>2, <3>1
  <2>5. Delivery(next) = two \o bodies
    BY DEF Delivery
  <2> HIDE DEF two, bodies
  <2>6. /\ Len(two \o bodies) = Len(two) + Len(bodies)
        /\ \A i \in 1..(Len(two) + Len(bodies)) :
              (two \o bodies)[i] = IF i <= Len(two) THEN two[i] ELSE bodies[i - Len(two)]
    BY <2>3, <2>4, ConcatProperties, Zenon
  <2>7. ASSUME NEW i \in 1..Len(Delivery(next)) PROVE Delivery(next)[i].d = next
    <3>1. CASE i <= 2
      BY <2>2, <2>3, <2>4, <2>5, <2>6, <3>1
    <3>2. CASE i > 2
      <4>1. i - 2 \in 1..Pieces[next] /\ Delivery(next)[i] = bodies[i - 2]
        BY <2>2, <2>3, <2>4, <2>5, <2>6, <3>2
      <4> QED
        BY <2>4, <4>1
    <3> QED
      BY <2>3, <2>4, <2>5, <2>6, <2>2, <3>1, <3>2
  <2> QED
    BY <2>7
<1>5. Known(toClient)'
  <2>1. /\ Len(toClient') = Len(toClient) + Len(Delivery(next))
        /\ Len(toClient) \in Nat /\ Len(Delivery(next)) \in Nat
        /\ \A i \in 1..Len(toClient') :
              toClient'[i] = IF i <= Len(toClient) THEN toClient[i] ELSE Delivery(next)[i - Len(toClient)]
    BY <1>2, ConcatProperties, LenProperties
  <2>2. ASSUME NEW i \in 1..Len(toClient'), toClient'[i].f = "deliver" PROVE toClient'[i].d \in Owed'
    <3>1. CASE i <= Len(toClient)
      BY <1>3, <2>1, <2>2, <3>1 DEF Acks, Known
    <3>2. CASE ~(i <= Len(toClient))
      <4>1. i - Len(toClient) \in 1..Len(Delivery(next))
        BY <2>1, <3>2
      <4> QED
        BY <1>3, <1>4, <2>1, <3>2, <4>1
    <3> QED
      BY <3>1, <3>2
  <2> QED
    BY <2>2 DEF Known
<1>6. Known(input)' /\ Known(ticks)'
  BY <1>1, <1>3 DEF Acks, Known
<1>7. Here.tag' = Here.tag
  BY <1>1 DEF Here, Handed, assembly
<1>8. AcksAwaited' /\ ~offence' /\ \A d \in Tags : d <= Here.tag' => d \in Owed'
  BY <1>1, <1>3, <1>7 DEF Acks, AcksAwaited
<1> QED
  BY <1>5, <1>6, <1>8 DEF Acks

LEMMA CancelAcks == ASSUME Inv, Acks, ~destroyed, Cancel PROVE Acks'
<1> DEFINE frame == [f |-> "cancel", d |-> NoMessage]
<1>1. /\ UNCHANGED <<input, assembly, given, called, ticks, toPeer, unacked, offence>>
      /\ toClient' = Append(toClient, frame)
  BY DEF Cancel
<1>2. frame \in Chunks /\ frame.f # "deliver"
  BY DEF Chunks, NoMessage
<1>3. toClient \in Seq(Chunks)
  BY DEF Inv, Shape
<1> HIDE DEF frame
<1>4. Known(toClient') /\ Known(input') /\ Known(ticks')
  BY <1>1, <1>2, <1>3, KnownAppend DEF Acks
<1>5. Here.tag' = Here.tag
  BY <1>1 DEF Here, Handed, assembly
<1> QED
  BY <1>1, <1>4, <1>5, AcksKept

\* an ack that is read is awaited, and the others stay so
LEMMA BrokerReadsAcks == ASSUME Inv, Acks, ~destroyed, BrokerReads PROVE Acks'
<1> DEFINE f == Head(toPeer)
<1>1. /\ toPeer # <<>> /\ toPeer' = Tail(toPeer)
      /\ UNCHANGED <<input, assembly, given, called, ticks>>
  BY DEF BrokerReads
<1>2. /\ f = toPeer[1] /\ 1 \in 1..Len(toPeer) /\ f.f \in {"close", "ack"}
      /\ \A i \in 1..Len(toPeer') : toPeer'[i] = toPeer[i + 1] /\ i + 1 \in 1..Len(toPeer) /\ i + 1 # 1
  <2>1. toPeer \in Seq(PeerFrames) /\ Len(toPeer) \in Nat \ {0}
    BY <1>1, EmptySeq, LenProperties DEF Inv, Closed
  <2>2. /\ Head(toPeer) = toPeer[1] /\ toPeer[1] \in PeerFrames /\ Len(Tail(toPeer)) = Len(toPeer) - 1
        /\ \A i \in 1..Len(Tail(toPeer)) : Tail(toPeer)[i] = toPeer[i + 1]
    BY <1>1, <2>1, HeadTailProperties, ElementOfSeq
  <2> QED
    BY <1>1, <2>1, <2>2 DEF PeerFrames
<1>3. f.f = "ack"
  BY <1>2 DEF Inv, Closed
<1>4. /\ unacked' = unacked \ {f.d} /\ offence' = (offence \/ f.d \notin unacked)
      /\ toClient' = toClient
  BY <1>3 DEF BrokerReads
<1>5. f.d \in unacked /\ f.d \in called /\ ~offence'
  BY <1>2, <1>3, <1>4 DEF Acks, AcksAwaited
<1>6. Owed' = Owed
  BY <1>1, <1>4, <1>5 DEF Owed
<1>7. AcksAwaited'
  <2>1. \A i \in 1..Len(toPeer') : toPeer'[i].f = "ack" => toPeer'[i].d \in unacked' \cap called'
    <3> SUFFICES ASSUME NEW i \in 1..Len(toPeer'), toPeer'[i].f = "ack"
                 PROVE  toPeer'[i].d \in unacked' \cap called'
      OBVIOUS
    <3>1. toPeer[i + 1].d \in unacked \cap called
      BY <1>2 DEF Acks, AcksAwaited
    <3>2. toPeer[i + 1].d # f.d
      BY <1>2, <1>3 DEF Acks, AcksAwaited
    <3> QED
      BY <1>1, <1>2, <1>4, <3>1, <3>2
  <2>2. ASSUME NEW i \in 1..Len(toPeer'), NEW j \in 1..Len(toPeer'),
               toPeer'[i].f = "ack", toPeer'[j].f = "ack", toPeer'[i].d = toPeer'[j].d
        PROVE  i = j
    <3>1. i + 1 = j + 1
      BY <1>2, <2>2 DEF Acks, AcksAwaited
    <3> QED
      BY <3>1
  <2> QED
    BY <2>1, <2>2 DEF AcksAwaited
<1>8. Here.tag' = Here.tag /\ Known(input') /\ Known(ticks') /\ Known(toClient')
  BY <1>1, <1>4 DEF Here, Handed, assembly, Acks
<1> QED
  BY <1>5, <1>6, <1>7, <1>8, AcksGrow

\* a destroyed channel stays so
LEMMA StaysDestroyed == ASSUME destroyed, [Next]_vars PROVE destroyed'
BY DEF Next, Ticks, Continues, PushFrame, HandleCancel, Write, InputEnds, InputBreaks, PipelineEnds,
       Decode, DecodeUnknown, CancelOkWritten, ConnectionFails, Unsubscribe, Read, Ack, Deliver, Cancel,
       BrokerReads, DestroyChannel, DestroyConnection, vars, channel

LEMMA AcksNext == ASSUME Inv, Acks, [Next]_vars PROVE Acks'
<1>1. CASE destroyed
  BY <1>1, StaysDestroyed DEF Acks
<1>2. CASE ~destroyed
  <2>1. CASE Ticks
    BY <1>2, <2>1, TickAcks DEF Ticks
  <2>2. CASE Write
    BY <1>2, <2>2, WriteAcks
  <2>3. CASE InputEnds \/ InputBreaks \/ DecodeUnknown \/ ConnectionFails \/ CancelOkWritten
    <3>1. destroyed'
      BY <1>2, <2>3 DEF InputEnds, InputBreaks, PipelineEnds, DecodeUnknown, ConnectionFails,
                        CancelOkWritten, DestroyChannel, DestroyConnection
    <3> QED
      BY <3>1 DEF Acks
  <2>4. CASE Decode
    BY <1>2, <2>4, DecodeAcks
  <2>5. CASE Unsubscribe \/ UNCHANGED vars
    <3>1. UNCHANGED <<input, assembly, given, called, ticks, toClient, toPeer, unacked, offence>>
      BY <2>5 DEF Unsubscribe, vars, broker
    <3>2. Here.tag' = Here.tag /\ Known(input') /\ Known(ticks') /\ Known(toClient')
      BY <1>2, <3>1 DEF Here, Handed, assembly, Acks
    <3> QED
      BY <1>2, <3>1, <3>2, AcksKept
  <2>6. CASE Read
    BY <1>2, <2>6, ReadAcks
  <2>7. CASE \E d \in Tags : Ack(d)
    BY <1>2, <2>7, AckAcks
  <2>8. CASE Deliver
    BY <1>2, <2>8, DeliverAcks
  <2>9. CASE Cancel
    BY <1>2, <2>9, CancelAcks
  <2>10. CASE BrokerReads
    BY <1>2, <2>10, BrokerReadsAcks
  <2> QED
    BY <2>1, <2>2, <2>3, <2>4, <2>5, <2>6, <2>7, <2>8, <2>9, <2>10 DEF Next, Continues
<1> QED
  BY <1>1, <1>2

(* For any number of messages and any prefetch: what the user of the       *)
(* ConsumeStream has read are the first messages of the queue, in its      *)
(* order; the body stream of a message ends only after all of its frames,  *)
(* whatever ends the consumer meanwhile; and while the channel is open, no *)
(* ack() is sent that the broker does not wait for.                        *)
THEOREM ConsumerHandedWhole == Spec => []HandedWhole
<1>1. Spec => []Acks
  BY InvAlways, AcksInit, AcksNext, PTL DEF Spec
<1>2. InQueueOrder /\ EndedIsWhole /\ Acks => HandedWhole
  BY DEF InQueueOrder, EndedIsWhole, Acks, HandedWhole
<1> QED
  BY <1>1, <1>2, InOrderAndWhole, PTL

-----------------------------------------------------------------------------
(* The types. *)

Types ==
    /\ inputEnd \in {"open", "ended", "destroyed"} /\ stream \in {"running", "finished", "errored"}
    /\ called \subseteq ToSet(given) /\ unacked \subseteq Tags /\ next \in 1..(Deliveries + 1)
    /\ Len(output) <= Prefetch /\ Handed <= Deliveries
    /\ \A d \in Tags : d <= Handed => d \in ended \/ d = current

\* what does not hand out or end a message
LEMMA TypesKept ==
    ASSUME Types, UNCHANGED <<output, given, current, ended>>,
           inputEnd' \in {"open", "ended", "destroyed"}, stream' \in {"running", "finished", "errored"},
           called' \subseteq ToSet(given), unacked' \subseteq Tags, next' \in 1..(Deliveries + 1)
    PROVE  Types'
BY DEF Types, Handed

LEMMA TypesInit == ASSUME Init PROVE Types
<1>1. Len(given) = 0 /\ Len(output) = 0 /\ Deliveries \in Nat /\ Prefetch \in Nat
  BY ConsumerAssumption DEF Init
<1>2. Handed = 0
  BY <1>1 DEF Handed
<1>3. \A d \in Tags : ~(d <= Handed)
  BY <1>1, <1>2 DEF Tags
<1> QED
  BY <1>1, <1>2, <1>3 DEF Init, Types

LEMMA WriteTypes == ASSUME Inv, Types, Write PROVE Types'
<1> DEFINE chunk == Head(input)
<1>1. UNCHANGED <<given, called, unacked, next>> /\ Len(output) < Prefetch
  BY DEF Write, Writes, broker
<1>2. CASE ~Fits(chunk)
  <2>1. UNCHANGED <<output, given, current, ended, called, unacked, next>> /\ stream' = "errored"
        /\ inputEnd' \in {inputEnd, "ended"}
    BY <1>2 DEF Write, DestroyConnection, assembly, broker
  <2> QED
    BY <2>1, TypesKept DEF Types
<1>3. CASE Fits(chunk)
  <2>1. /\ TakeDeliver(chunk) \/ TakeHeader(chunk) \/ TakeBody(chunk)
        /\ stream' = stream /\ inputEnd' = inputEnd
    BY <1>3 DEF Write
  <2> HIDE DEF chunk
  <2>2. /\ given \in Seq(Nat) /\ output \in Seq(Nat) /\ Len(given) \in Nat /\ Len(output) \in Nat
        /\ Handed = Len(given) + Len(output) /\ Tags = 1..Deliveries /\ Deliveries \in Nat /\ Prefetch \in Nat
    BY LenProperties, ConsumerAssumption DEF Inv, Whole, Handed, Tags
  <2>3. CASE TakeDeliver(chunk)
    <3>1. chunk.f = "deliver" /\ output' = output /\ ended' = ended /\ Handed' = Handed
      BY <1>1, <2>3 DEF TakeDeliver, Handed
    <3>2. current = NoMessage
      BY <1>3, <3>1 DEF Fits
    <3>3. \A d \in Tags : d <= Handed => d \in ended
      BY <2>2, <3>2 DEF Types, NoMessage
    <3> QED
      BY <1>1, <2>1, <3>1, <3>3 DEF Types
  <2>4. CASE TakeHeader(chunk)
    <3>1. /\ chunk.f = "header" /\ output' = Append(output, current)
          /\ (current' = current /\ ended' = ended) \/ ended' = ended \cup {current}
      BY <2>4 DEF TakeHeader
    <3>2. current = Handed + 1 /\ current \in Tags
      BY <1>3, <3>1 DEF Fits, Inv, Making
    <3>3. Len(output') = Len(output) + 1 /\ Handed' = Handed + 1
      <4>1. current \in Nat
        BY <2>2, <3>2
      <4>2. Len(output') = Len(output) + 1
        BY <2>2, <3>1, <4>1, AppendProperties
      <4> QED
        BY <1>1, <2>2, <4>2 DEF Handed
    <3>4. ASSUME NEW d \in Tags, d <= Handed' PROVE d \in ended' \/ d = current'
      <4>1. d <= Handed \/ d = current
        BY <2>2, <3>2, <3>3, <3>4
      <4> QED
        BY <2>2, <3>1, <3>2, <4>1 DEF Types
    <3> QED
      BY <1>1, <2>1, <2>2, <3>2, <3>3, <3>4 DEF Types
  <2>5. CASE TakeBody(chunk)
    <3>1. /\ output' = output /\ Handed' = Handed
          /\ (current' = current /\ ended' = ended) \/ ended' = ended \cup {current}
      BY <1>1, <2>5 DEF TakeBody, Handed
    <3> QED
      BY <1>1, <2>1, <3>1 DEF Types
  <2> QED
    BY <2>1, <2>3, <2>4, <2>5
<1> QED
  BY <1>2, <1>3

LEMMA ReadTypes == ASSUME Inv, Types, Read PROVE Types'
<1>1. /\ output # <<>> /\ given' = Append(given, Head(output)) /\ output' = Tail(output)
      /\ UNCHANGED <<inputEnd, stream, current, ended, called, unacked, next>>
  BY DEF Read, broker
<1>2. given \in Seq(Nat) /\ output \in Seq(Nat) /\ Len(given) \in Nat /\ Len(output) \in Nat \ {0} /\ Prefetch \in Nat
  BY <1>1, EmptySeq, LenProperties, ConsumerAssumption DEF Inv, Whole
<1>3. Head(output) \in Nat /\ Len(output') = Len(output) - 1
  BY <1>1, <1>2, HeadTailProperties
<1>4. Len(given') = Len(given) + 1 /\ \A i \in 1..Len(given) : given'[i] = given[i]
  BY <1>1, <1>2, <1>3, AppendProperties
<1>5. Handed' = Handed
  BY <1>2, <1>3, <1>4 DEF Handed
<1>6. ToSet(given) \subseteq ToSet(given')
  <2>1. given' \in Seq(Nat)
    BY <1>1, <1>2, <1>3, AppendProperties
  <2>2. DOMAIN given = 1..Len(given) /\ DOMAIN given' = 1..(Len(given) + 1)
    BY <1>2, <1>4, <2>1
  <2>3. \A i \in DOMAIN given : i \in DOMAIN given' /\ given[i] = given'[i]
    BY <1>2, <1>4, <2>2
  <2> QED
    BY <2>3 DEF ToSet
<1> QED
  BY <1>1, <1>2, <1>3, <1>5, <1>6 DEF Types

LEMMA TypesNext == ASSUME Inv, Types, [Next]_vars PROVE Types'
<1>1. CASE Write
  BY <1>1, WriteTypes
<1>2. CASE Read
  BY <1>2, ReadTypes
<1>3. CASE \/ Ticks \/ InputEnds \/ InputBreaks \/ Decode \/ DecodeUnknown \/ CancelOkWritten
           \/ ConnectionFails \/ Unsubscribe \/ UNCHANGED vars
  <2>1. UNCHANGED <<output, given, current, ended, called, unacked, next>>
    BY <1>3 DEF Ticks, PushFrame, HandleCancel, InputEnds, InputBreaks, PipelineEnds, Decode, DecodeUnknown,
                CancelOkWritten, ConnectionFails, Unsubscribe, vars, assembly, broker
  <2>2. inputEnd' \in {inputEnd, "ended", "destroyed"} /\ stream' \in {stream, "finished", "errored"}
    BY <1>3 DEF Ticks, PushFrame, Push, HandleCancel, InputEnds, InputBreaks, PipelineEnds, Decode, DecodeUnknown,
                CancelOkWritten, ConnectionFails, Unsubscribe, DestroyChannel, DestroyConnection, vars
  <2> QED
    BY <2>1, <2>2, TypesKept DEF Types
<1>4. CASE (\E d \in Tags : Ack(d)) \/ Deliver \/ Cancel \/ BrokerReads
  <2>1. UNCHANGED <<output, given, current, ended, inputEnd, stream>>
    BY <1>4 DEF Ack, Deliver, Cancel, BrokerReads, assembly
  <2>2. called' \subseteq ToSet(given)
    BY <1>4 DEF Ack, Deliver, Cancel, BrokerReads, Types
  <2>3. Deliveries \in Nat /\ Tags = 1..Deliveries
    BY ConsumerAssumption DEF Tags
  <2>4. unacked' \subseteq Tags /\ next' \in 1..(Deliveries + 1)
    <3>1. CASE (\E d \in Tags : Ack(d)) \/ Cancel
      <4>1. unacked' = unacked /\ (next' = next \/ next' = Deliveries + 1)
        BY <3>1 DEF Ack, Cancel, broker
      <4> QED
        BY <2>3, <4>1 DEF Types
    <3>2. CASE Deliver
      BY <2>3, <3>2 DEF Deliver, Types
    <3>3. CASE BrokerReads
      <4>1. unacked' \subseteq unacked /\ (next' = next \/ next' = Deliveries + 1)
        BY <3>3 DEF BrokerReads
      <4> QED
        BY <2>3, <4>1 DEF Types
    <3> QED
      BY <1>4, <3>1, <3>2, <3>3
  <2> QED
    BY <2>1, <2>2, <2>4, TypesKept DEF Types
<1> QED
  BY <1>1, <1>2, <1>3, <1>4 DEF Next, Continues

(* For any number of messages and any prefetch: no more messages wait for  *)
(* the user than the high water mark of the ConsumeStream, a body stream   *)
(* never holds more than the body of its message, and no message is        *)
(* acknowledged that the user was not given.                               *)
THEOREM ConsumerTypeOK == Spec => []TypeOK
<1>1. Spec => []Types
  BY InvAlways, TypesInit, TypesNext, PTL DEF Spec
<1>2. Inv /\ Types => TypeOK
  <2> SUFFICES ASSUME Inv, Types PROVE TypeOK
    OBVIOUS
  <2>1. /\ given \in Seq(Nat) /\ output \in Seq(Nat) /\ Len(given) \in Nat /\ Len(output) \in Nat
        /\ Handed = Len(given) + Len(output) /\ Tags = 1..Deliveries /\ Deliveries \in Nat
        /\ Pieces \in [Tags -> Nat] /\ body \in [Tags -> Nat]
    BY LenProperties, ConsumerAssumption DEF Inv, Whole, Handed, Tags, Making
  <2>2. current \in Tags \cup {NoMessage} /\ header \in BOOLEAN
        /\ waitSize \in 0..(IF current = NoMessage THEN 0 ELSE Pieces[current])
    BY <2>1 DEF Inv, Making, NoMessage
  <2>3. ToSet(output) \subseteq Tags
    <3>1. \A i \in 1..Len(output) : output[i] = Len(given) + i
      BY DEF Inv, Whole
    <3>2. Len(given) + Len(output) <= Deliveries
      BY <2>1 DEF Types
    <3>3. ASSUME NEW i \in 1..Len(output) PROVE output[i] \in Tags
      <4>1. output[i] = Len(given) + i
        BY <3>1
      <4>2. Len(given) + i \in 1..Deliveries
        BY <2>1, <3>2
      <4> QED
        BY <2>1, <4>1, <4>2
    <3>4. DOMAIN output = 1..Len(output)
      BY <2>1
    <3> QED
      BY <3>3, <3>4 DEF ToSet
  <2>4. ASSUME NEW d \in Tags PROVE body[d] \in 0..Pieces[d]
    <3>1. CASE d > Handed
      BY <2>1, <3>1 DEF Inv, Whole
    <3>2. CASE d \in ended
      BY <2>1, <3>2 DEF Inv, Whole
    <3>3. CASE d = current /\ d <= Handed
      <4>1. body[current] + waitSize = Pieces[current] /\ waitSize \in Nat
        BY <2>1, <3>3 DEF Inv, Making, NoMessage
      <4> QED
        BY <2>1, <3>3, <4>1
    <3> QED
      BY <2>1, <3>1, <3>2, <3>3 DEF Types
  <2>5. ended \subseteq Tags
    BY DEF Inv, Whole
  <2> QED
    BY <2>2, <2>3, <2>4, <2>5 DEF TypeOK, Types
<1> QED
  BY <1>1, <1>2, InvAlways, PTL

-----------------------------------------------------------------------------
(* Nothing is stuck. *)

\* The loop, the broker or the user has something to do.
Runs ==
    \/ ticks # <<>> \/ Continuations \/ cancelling
    \/ toClient # <<>> \/ toPeer # <<>>
    \/ output # <<>> /\ stream # "errored"
    \/ ToSet(given) \ called # {}
    \/ next \in Tags /\ Cardinality(unacked) < Prefetch /\ socketOpen /\ ~offence

AllGiven == \A d \in Tags : d \in ToSet(given) /\ d \in ended

\* When nothing can move any more everything was consumed, or the consumer
\* that was cancelled has ended.
NothingStuck == Runs \/ IF cancelled THEN destroyed /\ stream # "running" ELSE AllGiven

\* as long as nobody ends the consumer everything is open
Opened ==
    /\ cancelled \/ inputEnd = "open"
    /\ stream # "running" => destroyed
    /\ destroyed \/ socketOpen

\* what the broker waits for was sent, and its ack is not lost
AckSent(d) == \E i \in 1..Len(toPeer) : toPeer[i].f = "ack" /\ toPeer[i].d = d
Waited ==
    destroyed \/ ( /\ \A d \in Owed : d \in Nat /\ d < next
                   /\ \A d \in unacked \cap called : AckSent(d) )

LEMMA OpenedNext == ASSUME Opened, [Next]_vars PROVE Opened'
<1>1. ASSUME DestroyConnection PROVE Opened'
  BY <1>1 DEF DestroyConnection, Opened
<1>2. ASSUME UNCHANGED <<inputEnd, stream, channel>> PROVE Opened'
  BY <1>2 DEF Opened, channel
<1>3. CASE Ticks
  <2>1. UNCHANGED <<stream, cancelled, destroyed, socketOpen>> /\ (inputEnd = "open" => inputEnd' = "open")
    BY <1>3 DEF Ticks, PushFrame, Push, HandleCancel, channel
  <2> QED
    BY <2>1 DEF Opened
<1>4. CASE Write
  <2>1. \/ UNCHANGED <<stream, inputEnd, channel>>
        \/ DestroyConnection
        \/ destroyed /\ UNCHANGED <<inputEnd, channel>>
    BY <1>4 DEF Write
  <2>2. ASSUME destroyed, UNCHANGED <<inputEnd, channel>> PROVE Opened'
    BY <2>2 DEF Opened, channel
  <2> QED
    BY <1>1, <1>2, <2>1, <2>2
<1>5. CASE InputEnds \/ InputBreaks
  <2>1. DestroyConnection \/ (destroyed /\ UNCHANGED <<inputEnd, channel>>)
    BY <1>5 DEF InputEnds, InputBreaks, PipelineEnds
  <2>2. ASSUME destroyed, UNCHANGED <<inputEnd, channel>> PROVE Opened'
    BY <2>2 DEF Opened, channel
  <2> QED
    BY <1>1, <2>1, <2>2
<1>6. CASE CancelOkWritten
  BY <1>6 DEF CancelOkWritten, DestroyChannel, Opened
<1>7. CASE Unsubscribe
  BY <1>7 DEF Unsubscribe, Opened
<1>8. CASE DecodeUnknown \/ ConnectionFails
  BY <1>1, <1>8 DEF DecodeUnknown, ConnectionFails
<1>9. CASE Decode \/ Read \/ Deliver \/ Cancel \/ BrokerReads \/ UNCHANGED vars \/ \E d \in Tags : Ack(d)
  BY <1>2, <1>9 DEF Decode, Read, Ack, Deliver, Cancel, BrokerReads, vars
<1> QED
  BY <1>3, <1>4, <1>5, <1>6, <1>7, <1>8, <1>9 DEF Next, Continues

\* the broker frees a delivery when it reads its ack
LEMMA WaitedNext == ASSUME Inv, Acks, Types, Opened, Waited, [Next]_vars PROVE Waited'
<1>1. CASE destroyed
  BY <1>1, StaysDestroyed DEF Waited
<1> SUFFICES ASSUME ~destroyed, ~destroyed' PROVE Waited'
  BY <1>1 DEF Waited
<1>2. /\ \A d \in Owed : d \in Nat /\ d < next
      /\ \A d \in unacked \cap called : AckSent(d)
  BY DEF Waited
<1>3. ASSUME UNCHANGED <<unacked, called, toPeer, next>> PROVE Waited'
  BY <1>2, <1>3 DEF Waited, Owed, AckSent
<1>4. CASE Ticks \/ Write \/ Decode \/ Unsubscribe \/ Read \/ UNCHANGED vars
  <2>1. UNCHANGED <<unacked, called, next>>
    BY <1>4 DEF Ticks, PushFrame, HandleCancel, Write, Decode, Unsubscribe, Read, vars, broker
  <2>2. toPeer' = toPeer
    BY <1>4 DEF Ticks, PushFrame, HandleCancel, Write, DestroyConnection, Decode, Unsubscribe, Read, vars
  <2> QED
    BY <1>3, <2>1, <2>2
<1>5. ~InputEnds /\ ~InputBreaks /\ ~DecodeUnknown /\ ~ConnectionFails /\ ~CancelOkWritten
  BY DEF InputEnds, InputBreaks, PipelineEnds, DecodeUnknown, ConnectionFails, CancelOkWritten,
         DestroyChannel, DestroyConnection
<1>6. ASSUME NEW d \in Tags, Ack(d) PROVE Waited'
  <2> DEFINE frame == [f |-> "ack", d |-> d]
  <2>1. /\ d \in ToSet(given) /\ d \notin called /\ called' = called \cup {d}
        /\ UNCHANGED <<unacked, next>> /\ toPeer' = Append(toPeer, frame)
    BY <1>6 DEF Ack, broker, Opened
  <2>2. d \in Owed
    <3>1. Len(given) \in Nat /\ Len(output) \in Nat /\ \A i \in 1..Len(given) : given[i] = i
      BY LenProperties DEF Inv, Whole
    <3>2. d \in 1..Len(given)
      BY <2>1, <3>1 DEF ToSet
    <3>3. d <= Here.tag
      BY <3>1, <3>2 DEF Here, Handed
    <3> QED
      BY <3>3 DEF Acks
  <2>3. frame \in PeerFrames /\ toPeer \in Seq(PeerFrames)
    BY DEF PeerFrames, Tags, Inv, Closed
  <2>4. /\ Len(toPeer') = Len(toPeer) + 1 /\ Len(toPeer) \in Nat
        /\ \A i \in 1..Len(toPeer) : toPeer'[i] = toPeer[i]
        /\ toPeer'[Len(toPeer) + 1] = frame
    BY <2>1, <2>3, AppendProperties, LenProperties
  <2>5. AckSent(d)'
    <3>1. Len(toPeer) + 1 \in 1..Len(toPeer') /\ frame.f = "ack" /\ frame.d = d
      BY <2>4
    <3> QED
      BY <2>4, <3>1 DEF AckSent
  <2>6. ASSUME NEW e, AckSent(e) PROVE AckSent(e)'
    <3>1. PICK i \in 1..Len(toPeer) : toPeer[i].f = "ack" /\ toPeer[i].d = e
      BY <2>6 DEF AckSent
    <3>2. i \in 1..Len(toPeer')
      BY <2>4
    <3> QED
      BY <2>4, <3>1, <3>2 DEF AckSent
  <2>7. \A e \in Owed' : e \in Nat /\ e < next'
    BY <1>2, <2>1, <2>2 DEF Owed
  <2>8. \A e \in unacked' \cap called' : e = d \/ e \in unacked \cap called
    BY <2>1
  <2> QED
    BY <1>2, <2>5, <2>6, <2>7, <2>8 DEF Waited
<1>7. CASE Deliver
  <2>1. /\ next \in Nat /\ next' = next + 1 /\ unacked' = unacked \cup {next}
        /\ UNCHANGED <<called, toPeer>>
    BY <1>7 DEF Deliver, Inv, Shape
  <2>2. next \notin Owed
    BY <1>2, <2>1
  <2>3. \A d \in Owed' : d \in Nat /\ d < next'
    BY <1>2, <2>1 DEF Owed
  <2>4. unacked' \cap called' = unacked \cap called
    BY <2>1, <2>2 DEF Owed
  <2> QED
    BY <1>2, <2>1, <2>3, <2>4 DEF Waited, AckSent
<1>8. CASE Cancel
  <2>1. /\ next' = Deliveries + 1 /\ next < next' /\ next' \in Nat /\ next \in Nat
        /\ UNCHANGED <<unacked, called, toPeer>>
    BY <1>8, ConsumerAssumption DEF Cancel, Inv, Shape, Tags
  <2>2. \A d \in Owed : d \in Nat /\ d < next'
    BY <1>2, <2>1
  <2> QED
    BY <1>2, <2>1, <2>2 DEF Waited, Owed, AckSent
<1>9. CASE BrokerReads
  <2> DEFINE f == Head(toPeer)
  <2>1. toPeer # <<>> /\ toPeer' = Tail(toPeer) /\ called' = called
    BY <1>9 DEF BrokerReads
  <2>2. /\ f = toPeer[1] /\ 1 \in 1..Len(toPeer) /\ Len(toPeer') = Len(toPeer) - 1 /\ Len(toPeer) \in Nat
        /\ \A i \in 1..Len(toPeer') : toPeer'[i] = toPeer[i + 1]
    BY <2>1, HeadTailProperties, EmptySeq, LenProperties DEF Inv, Closed
  <2>3. f.f # "close"
    BY <2>2 DEF Inv, Closed
  <2>4. unacked' = unacked \ {f.d} /\ next' = next
    BY <1>9, <2>3 DEF BrokerReads
  <2>5. ASSUME NEW d \in unacked' \cap called' PROVE AckSent(d)'
    <3>1. d # f.d /\ AckSent(d)
      BY <1>2, <2>1, <2>4, <2>5
    <3>2. PICK i \in 1..Len(toPeer) : toPeer[i].f = "ack" /\ toPeer[i].d = d
      BY <3>1 DEF AckSent
    <3>3. i # 1
      BY <2>2, <3>1, <3>2
    <3>4. i - 1 \in 1..Len(toPeer') /\ (i - 1) + 1 = i
      BY <2>2, <3>3
    <3>5. toPeer'[i - 1] = toPeer[i]
      BY <2>2, <3>4
    <3> QED
      BY <3>2, <3>4, <3>5 DEF AckSent
  <2>6. \A d \in Owed' : d \in Nat /\ d < next'
    BY <1>2, <2>1, <2>4 DEF Owed
  <2> QED
    BY <2>5, <2>6 DEF Waited
<1> QED
  BY <1>4, <1>5, <1>6, <1>7, <1>8, <1>9 DEF Next, Continues

\* the end of everything that is under way
LEMMA NothingStuckHolds == Inv /\ Acks /\ Types /\ Opened /\ Waited => NothingStuck
<1> SUFFICES ASSUME Inv, Acks, Types, Opened, Waited, ~Runs
             PROVE  IF cancelled THEN destroyed /\ stream # "running" ELSE AllGiven
  BY DEF NothingStuck
<1>1. Prefetch \in Nat \ {0} /\ Deliveries \in Nat /\ Tags = 1..Deliveries
  BY ConsumerAssumption DEF Tags
<1>2. /\ given \in Seq(Nat) /\ output \in Seq(Nat) /\ Len(given) \in Nat /\ Len(output) \in Nat
      /\ \A i \in 1..Len(given) : given[i] = i
  BY LenProperties DEF Inv, Whole
<1>3. ASSUME stream = "running"
      PROVE  output = <<>> /\ Len(output) = 0 /\ input = <<>> /\ inputEnd = "open"
  <2>1. output = <<>> /\ Len(output) < Prefetch
    <3>1. output = <<>>
      BY <1>3 DEF Runs
    <3>2. Len(output) = 0
      BY <3>1
    <3> QED
      BY <1>1, <3>1, <3>2
  <2>2. input = <<>>
    BY <1>3, <2>1 DEF Runs, Continuations, Writes
  <2>3. inputEnd # "ended" /\ inputEnd # "destroyed"
    BY <1>3, <2>1, <2>2 DEF Runs, Continuations, Ends, Breaks
  <2> QED
    BY <2>1, <2>2, <2>3 DEF Types
<1>4. CASE cancelled
  BY <1>3, <1>4 DEF Opened, Inv, Closed, Types
<1>5. CASE ~cancelled
  <2>1. ~destroyed /\ stream = "running" /\ socketOpen /\ ~offence
    BY <1>5 DEF Opened, Inv, Closed, Acks
  <2>2. /\ output = <<>> /\ Len(output) = 0 /\ input = <<>> /\ inputEnd = "open"
        /\ ticks = <<>> /\ toClient = <<>> /\ toPeer = <<>> /\ ~cancelling /\ ToSet(given) \subseteq called
    BY <1>3, <2>1 DEF Runs
  <2>3. Line = <<>> /\ Len(Line) = 0
    BY <2>2, ConcatEmptySeq DEF Line
  <2>4. Here = Idle(next - 1)
    <3>1. PICK s : s[0] = Here /\ Meets(s[Len(Line)])
      BY <2>2 DEF Inv, Coming
    <3>2. Here.place # "over"
      BY DEF Here
    <3> QED
      BY <2>2, <2>3, <3>1, <3>2 DEF Meets
  <2>5. current = NoMessage /\ Len(given) = next - 1
    <3>1. Here.place = "idle" /\ Here.tag = next - 1
      BY <2>4 DEF Idle
    <3>2. current = NoMessage
      BY <3>1 DEF Here
    <3>3. Handed = next - 1
      BY <3>1, <3>2 DEF Here
    <3> QED
      BY <1>2, <2>2, <3>2, <3>3 DEF Handed
  <2>6. \A d \in Nat \ {0} : d < next => d \in ToSet(given)
    <3>1. ASSUME NEW d \in Nat \ {0}, d < next PROVE d \in ToSet(given)
      <4>1. d \in 1..Len(given) /\ given[d] = d
        BY <1>2, <2>5, <3>1 DEF Types
      <4>2. DOMAIN given = 1..Len(given)
        BY <1>2
      <4> QED
        BY <4>1, <4>2 DEF ToSet
    <3> QED
      BY <3>1
  <2>7. unacked = {}
    <3>1. SUFFICES ASSUME NEW d \in unacked PROVE FALSE
      OBVIOUS
    <3>2. d \in Nat \ {0} /\ d < next
      BY <1>1, <2>1, <3>1 DEF Waited, Owed, Types
    <3>3. d \in called
      BY <2>2, <2>6, <3>2
    <3>4. AckSent(d)
      BY <2>1, <3>3 DEF Waited
    <3>5. Len(toPeer) = 0
      BY <2>2
    <3> QED
      BY <3>4, <3>5 DEF AckSent
  <2>8. Cardinality(unacked) < Prefetch
    BY <1>1, <2>7, FS_EmptySet
  <2>9. next = Deliveries + 1
    BY <1>1, <2>1, <2>8 DEF Runs, Types
  <2>10. ASSUME NEW d \in Tags PROVE d \in ToSet(given) /\ d \in ended
    <3>1. d \in Nat \ {0} /\ d < next /\ d <= Handed /\ d # NoMessage
      BY <1>1, <1>2, <2>2, <2>5, <2>9 DEF Handed, NoMessage
    <3> QED
      BY <2>5, <2>6, <3>1 DEF Types
  <2> QED
    BY <1>5, <2>10 DEF AllGiven
<1> QED
  BY <1>4, <1>5

(* Nothing of a consumer is stuck, for any number of messages, any         *)
(* prefetch and any pieces: when the event loop, the broker and the user   *)
(* have nothing left to do, everything in the queue was given to the user  *)
(* and every body has ended; or the consumer was cancelled, and then its   *)
(* stream has ended and its channel is destroyed.  So the broker never     *)
(* waits for an ack that is not coming while a chunk waits for room in the *)
(* output (ConsumeStream, consumer.ts:209).                                *)
THEOREM ConsumerNothingStuck == Spec => []NothingStuck
<1>1. Spec => [](Acks /\ Types)
  BY InvAlways, AcksInit, AcksNext, TypesInit, TypesNext, PTL DEF Spec
<1>2. Init => Opened /\ Waited
  <2>1. Init => Opened
    BY DEF Init, Opened
  <2>2. Init => Owed = {}
    BY DEF Init, Owed
  <2> QED
    BY <2>1, <2>2 DEF Waited, Owed
<1>3. Spec => [](Opened /\ Waited)
  BY <1>1, <1>2, InvAlways, OpenedNext, WaitedNext, PTL DEF Spec
<1> QED
  BY <1>1, <1>3, InvAlways, NothingStuckHolds, PTL
=============================================================================
