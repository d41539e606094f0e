--------------------------- MODULE PublisherProofs ---------------------------
(***************************************************************************)
(* For any messages, published at any time over a connection that may      *)
(* fail: what publish() reports is so and no two contents are mixed, as    *)
(* long as no return comes without its ack.                                *)
(*                                                                         *)
(* Nothing in an answer says which message it is about.  The proof follows *)
(* the message that is being written through the stages of its content     *)
(* (Phase): unsent, on its way, complete and answered, settled.  While the *)
(* answers stay whole the answer under way is that of this message, and    *)
(* the wire holds frames of this message alone (Wire), which is what the   *)
(* broker expects next.                                                    *)
(***************************************************************************)
EXTENDS Publisher, SequenceTheorems, TLAPS

Method(f, m) == [type |-> "method", f |-> f, m |-> m]
Jobs == [type : {"pipeline"}] \cup [type : {"register"}, m : Messages]
        \cup [type : {"method"}, f : {"return", "ack", "nack", "close"}, m : Messages \cup {None}]
FrameKinds == {"publish", "header", "body"}

Length(m) == IF m \in Bare THEN Pieces[m] + 1 ELSE Pieces[m] + 2

\* the i-th frame of a content, and of what the client writes for it
Full(i) == IF i = 1 THEN "publish" ELSE IF i = 2 THEN "header" ELSE "body"
Kind(m, i) == IF m \in Bare THEN (IF i = 1 THEN "publish" ELSE "body") ELSE Full(i)

-----------------------------------------------------------------------------
\* where a message is in the client
Stages ==
    /\ ticks \in Seq(Jobs) /\ draining \in BOOLEAN
    /\ toPeer \in Seq([m : Messages, f : FrameKinds])
    /\ toClient \in Seq([f : {"return", "ack", "nack", "close"}, m : Messages \cup {None}])
    /\ status \in [Messages -> {"new", "waiting", "resolved", "failed", "refused"}]
    /\ held \in Messages \cup {None} /\ current \in Messages \cup {None}
    /\ error \in BOOLEAN /\ closed \in BOOLEAN /\ down \in BOOLEAN
    /\ ending \in {"no", "asked", "finished"}
    /\ queue \in Seq(Messages)
    /\ channel \in {"none", "opening", "open"}
    /\ call \in [Messages -> {"none", "scheduled", "pending", "acked", "returned", "rejected"}]
    /\ sent \in [Messages -> Nat]
    /\ sending \subseteq Messages /\ taken \subseteq Messages
    /\ offence \in BOOLEAN /\ parted \in BOOLEAN /\ crashed \in BOOLEAN

Queued ==
    /\ \A i \in 1..Len(queue) : call[queue[i]] = "none" /\ queue[i] # current
    /\ \A i, j \in 1..Len(queue) : queue[i] = queue[j] => i = j
    /\ \A m \in Messages : status[m] = "new" =>
          call[m] = "none" /\ m # current /\ \A i \in 1..Len(queue) : queue[i] # m

Sent ==
    /\ \A m \in Messages : call[m] \in {"none", "scheduled"} => sent[m] = 0 /\ m \notin sending
    /\ \A m \in Messages : sent[m] <= Length(m)
    /\ \A m \in sending : sent[m] < Length(m)

\* only the call of the current message is open, and its tick is the only one
Scheduled ==
    /\ \A m \in Messages : call[m] \in {"scheduled", "pending"} => m = current
    /\ current # None /\ call[current] = "none" => channel # "open"
    /\ channel = "none" => current = None
    /\ channel = "opening" => current # None /\ call[current] = "none"
    /\ \A i \in 1..Len(ticks) : ticks[i].type = "register" =>
          ~down /\ current # None /\ call[current] = "scheduled" /\ ticks = <<Job("register", current)>>
    /\ draining /\ ticks # <<>> => down \/ ticks = <<Job("register", current)>>

-----------------------------------------------------------------------------
\* the broker and the wire
Read(m) == IF incoming = NoContent THEN 0 ELSE Pieces[m] + 2 - Len(incoming.left)

Receiving ==
    \/ incoming = NoContent
    \/ /\ incoming.m \in Messages /\ incoming = [m |-> incoming.m, left |-> incoming.left]
       /\ incoming.left \in Seq(FrameKinds)
       /\ Len(incoming.left) \in 1..(Pieces[incoming.m] + 1)
       /\ \A i \in 1..Len(incoming.left) : incoming.left[i] = Full(Read(incoming.m) + i)

WireFree == toPeer = <<>> /\ incoming = NoContent

\* the wire holds the content of m, from the frame the broker reads next
Carries(m) ==
    /\ incoming # NoContent => incoming.m = m
    /\ Read(m) + Len(toPeer) > 0
    /\ Read(m) + Len(toPeer) <= sent[m]
    /\ ~down => Read(m) + Len(toPeer) = sent[m]
    /\ Read(m) < Pieces[m] + 2
    /\ m \in Bare => Read(m) <= 1
    /\ \A i \in 1..Len(toPeer) : toPeer[i] = [m |-> m, f |-> Kind(m, Read(m) + i)]

Wire == parted \/ offence \/ WireFree \/ \E m \in Messages : Carries(m)

-----------------------------------------------------------------------------
\* the answers
NoAnswers == \A i \in 1..Len(ticks) : ticks[i].type = "register"
Coming(answer, jobs) ==
    \/ toClient = answer /\ NoAnswers
    \/ toClient = <<>> /\ ticks = jobs /\ ~draining
NothingComing == toClient = <<>> /\ NoAnswers

AnswerJobs(m) ==
    IF m \in Nacked THEN <<Method("nack", m)>>
    ELSE IF m \in Unroutable THEN <<Method("return", m), Method("ack", m)>>
    ELSE <<Method("ack", m)>>

Unsent ==
    /\ current = None \/ call[current] \in {"none", "scheduled"}
    /\ WireFree /\ ~offence /\ NothingComing /\ sending = {}

Sending ==
    /\ current # None /\ call[current] \in {"pending", "rejected"}
    /\ Carries(current) /\ ~offence /\ NothingComing /\ sending \subseteq {current}
    /\ call[current] = "rejected" => sent[current] < Length(current) /\ sending = {}

Offended ==
    /\ current # None /\ call[current] \in {"pending", "rejected"}
    /\ offence /\ Coming(<<[f |-> "close", m |-> None]>>, <<Method("close", None)>>)

Complete ==
    /\ WireFree /\ ~offence /\ sending = {}
    /\ current # None /\ sent[current] > 0

Confirmed(m) == m \in Unroutable \cup Nacked \/ m \in taken

Answering ==
    /\ Complete /\ call[current] = "pending"
    /\ Coming(Answer(current), AnswerJobs(current)) /\ Confirmed(current)

Returning ==
    /\ Complete /\ call[current] = "returned"
    /\ toClient = <<>> /\ ticks = <<Method("ack", current)>> /\ ~draining

Settling ==
    /\ Complete /\ call[current] \in {"acked", "returned"}
    /\ NothingComing

Phase ==
    parted \/ down \/ crashed
    \/ Unsent \/ Sending \/ Offended \/ Answering \/ Returning \/ Settling

-----------------------------------------------------------------------------
\* what is known of the outcomes
MayEnd == Begun(Nacked) \/ (down /\ Begun(Unspeakable))

Outcomes ==
    /\ taken \cap (Unroutable \cup Nacked) = {}
    /\ \/ parted
       \/ /\ \A m \in Messages : call[m] = "acked" \/ status[m] = "resolved" => m \in taken
          /\ \A m \in Messages : call[m] = "returned" => m \in Unroutable
          /\ \A m \in Messages : status[m] = "failed" => down \/ m \in Unroutable
          /\ crashed => MayEnd

\* a close that is refused is that of a message that was written
Doom ==
    /\ doomed \in BOOLEAN
    /\ \A m \in Messages : call[m] \in {"none", "scheduled"} \/ sent[m] > 0
    /\ doomed => down /\ Begun(Unspeakable)

Inv == Stages /\ Queued /\ Sent /\ Scheduled /\ Receiving /\ Wire /\ Phase /\ Outcomes /\ ContentsWhole
       /\ Doom
-----------------------------------------------------------------------------
LEMMA FramesOf ==
    ASSUME NEW m \in Messages
    PROVE  /\ Frames(m) \in Seq(FrameKinds) /\ Len(Frames(m)) = Length(m)
           /\ \A i \in 1..Length(m) : Frames(m)[i] = Kind(m, i)
           /\ Body(m) \in Seq(FrameKinds) /\ Len(Body(m)) = Pieces[m]
           /\ <<"header">> \o Body(m) \in Seq(FrameKinds)
           /\ Len(<<"header">> \o Body(m)) = Pieces[m] + 1
           /\ \A i \in 1..(Pieces[m] + 1) : (<<"header">> \o Body(m))[i] = Full(i + 1)
<1>1. Pieces[m] \in Nat
  BY PublisherAssumption
<1>2. /\ Body(m) \in Seq(FrameKinds) /\ Len(Body(m)) = Pieces[m]
      /\ \A i \in 1..Pieces[m] : Body(m)[i] = "body"
  BY <1>1 DEF Body, FrameKinds
<1>3. /\ <<"publish">> \in Seq(FrameKinds) /\ <<"header">> \in Seq(FrameKinds) /\ <<>> \in Seq(FrameKinds)
      /\ Len(<<"publish">>) = 1 /\ <<"publish">>[1] = "publish" /\ <<"header">>[1] = "header"
      /\ Len(<<"header">>) = 1
  BY DEF FrameKinds
<1>4. /\ <<"header">> \o Body(m) \in Seq(FrameKinds) /\ Len(<<"header">> \o Body(m)) = Pieces[m] + 1
      /\ \A i \in 1..(Pieces[m] + 1) : (<<"header">> \o Body(m))[i] = IF i = 1 THEN "header" ELSE "body"
  BY <1>1, <1>2, <1>3, ConcatProperties
<1> DEFINE middle == IF m \in Bare THEN <<>> ELSE <<"header">>
           rest == middle \o Body(m)
<1>5. /\ rest \in Seq(FrameKinds) /\ Len(rest) = Length(m) - 1
      /\ \A i \in 1..(Length(m) - 1) : rest[i] = Kind(m, i + 1)
  <2>1. CASE m \in Bare
    <3>1. rest = Body(m)
      BY <1>2, <2>1, ConcatEmptySeq
    <3> QED
      BY <1>1, <1>2, <2>1, <3>1 DEF Length, Kind
  <2>2. CASE m \notin Bare
    BY <1>1, <1>4, <2>2 DEF Length, Kind, Full
  <2> QED
    BY <2>1, <2>2
<1>6. Frames(m) = <<"publish">> \o rest
  BY <1>2, <1>3, ConcatAssociative DEF Frames
<1> HIDE DEF rest
<1>7. Length(m) \in Nat /\ Length(m) >= 1
  BY <1>1 DEF Length
<1>8. /\ Frames(m) \in Seq(FrameKinds) /\ Len(Frames(m)) = Length(m)
      /\ \A i \in 1..Length(m) : Frames(m)[i] = IF i = 1 THEN "publish" ELSE rest[i - 1]
  BY <1>3, <1>5, <1>6, <1>7, ConcatProperties
<1>9. \A i \in 1..Length(m) : Frames(m)[i] = Kind(m, i)
  <2>1. SUFFICES ASSUME NEW i \in 1..Length(m) PROVE Frames(m)[i] = Kind(m, i)
    OBVIOUS
  <2>2. CASE i = 1
    BY <1>8, <2>2 DEF Kind, Full
  <2>3. CASE i # 1
    <3>1. i - 1 \in 1..(Length(m) - 1) /\ (i - 1) + 1 = i
      BY <1>7, <2>3
    <3> QED
      BY <1>5, <1>8, <2>3, <3>1
  <2> QED
    BY <2>2, <2>3
<1> QED
  BY <1>1, <1>2, <1>4, <1>8, <1>9 DEF Full

\* the next frame of a content
LEMMA Writes ==
    ASSUME Stages, NEW m \in Messages, sent[m] < Length(m), WriteNext(m)
    PROVE  /\ toPeer' \in Seq([m : Messages, f : FrameKinds])
           /\ down => toPeer' = toPeer
           /\ ~down => toPeer' = Append(toPeer, [m |-> m, f |-> Kind(m, sent[m] + 1)])
           /\ sent' = [sent EXCEPT ![m] = @ + 1] /\ sent' \in [Messages -> Nat]
           /\ sending' = IF sent[m] + 1 = Length(m) THEN sending \ {m} ELSE sending \cup {m}
<1>1. Length(m) \in Nat /\ sent[m] \in Nat /\ sent[m] + 1 \in 1..Length(m)
  BY PublisherAssumption DEF Stages, Length
<1>2. Frames(m)[sent[m] + 1] = Kind(m, sent[m] + 1) /\ Len(Frames(m)) = Length(m)
  BY <1>1, FramesOf
<1>3. [m |-> m, f |-> Kind(m, sent[m] + 1)] \in [m : Messages, f : FrameKinds]
  BY DEF FrameKinds, Kind, Full
<1>4. /\ toPeer' = IF down THEN toPeer ELSE Append(toPeer, [m |-> m, f |-> Kind(m, sent[m] + 1)])
      /\ sent' = [sent EXCEPT ![m] = @ + 1]
      /\ sending' = IF sent[m] + 1 = Length(m) THEN sending \ {m} ELSE sending \cup {m}
  BY <1>2 DEF WriteNext, Write
<1>5. toPeer' \in Seq([m : Messages, f : FrameKinds])
  BY <1>3, <1>4, AppendProperties DEF Stages
<1>6. sent' \in [Messages -> Nat]
  BY <1>1, <1>4 DEF Stages
<1> QED
  BY <1>4, <1>5, <1>6

\* a tick takes the first job
LEMMA Ticked ==
    ASSUME Stages, NEW job, Tick(job)
    PROVE  /\ ~crashed /\ ticks # <<>> /\ job = Head(ticks) /\ job = ticks[1] /\ job \in Jobs
           /\ Len(ticks) \in Nat \ {0} /\ Tail(ticks) \in Seq(Jobs) /\ Len(Tail(ticks)) = Len(ticks) - 1
           /\ \A i \in 1..Len(Tail(ticks)) : Tail(ticks)[i] = ticks[i + 1]
           /\ draining' = FALSE
<1>1. ~crashed /\ ticks # <<>> /\ job = Head(ticks) /\ draining' = FALSE
  BY DEF Tick, RunTick
<1>2. Head(ticks) = ticks[1] /\ Len(ticks) \in Nat \ {0}
  BY <1>1, EmptySeq, LenProperties DEF Stages
<1> QED
  BY <1>1, <1>2, HeadTailProperties DEF Stages

\* the tick of a call is alone in the queue, and that call has written nothing
LEMMA Registers ==
    ASSUME Stages, Sent, Scheduled, NEW m \in Messages, Register(m)
    PROVE  /\ m = current /\ call[m] = "scheduled" /\ ~down /\ ~crashed
           /\ ticks = <<Job("register", m)>> /\ ticks' = <<>> /\ draining' = FALSE
           /\ sent[m] = 0 /\ m \notin sending /\ sent[m] < Length(m)
<1>1. Tick(Job("register", m)) /\ ticks' = Tail(ticks)
  BY DEF Register
<1>2. /\ ticks[1] = Job("register", m) /\ 1 \in 1..Len(ticks) /\ ~crashed /\ draining' = FALSE
  <2>1. Job("register", m) = ticks[1] /\ Len(ticks) \in Nat \ {0} /\ ~crashed /\ draining' = FALSE
    BY <1>1, Ticked
  <2> QED
    BY <2>1
<1>3. ~down /\ call[current] = "scheduled" /\ ticks = <<Job("register", current)>>
  BY <1>2 DEF Scheduled, Job
<1>4. m = current
  BY <1>2, <1>3 DEF Job
<1>5. ticks' = <<>>
  BY <1>1, <1>3
<1>6. 0 < Length(m)
  BY PublisherAssumption DEF Length
<1> QED
  BY <1>2, <1>3, <1>4, <1>5, <1>6 DEF Sent

\* what stops the client
LEMMA Downs ==
    ASSUME Stages, NEW rest \in Seq(Jobs), GoDown(rest)
    PROVE  /\ down' = TRUE /\ toClient' = <<>>
           /\ toClient' \in Seq([f : {"return", "ack", "nack", "close"}, m : Messages \cup {None}])
           /\ call' \in [Messages -> {"none", "scheduled", "pending", "acked", "returned", "rejected"}]
           /\ \A m \in Messages : call'[m] = IF call[m] = "pending" THEN "rejected" ELSE call[m]
           /\ ticks' \in Seq(Jobs)
           /\ \A i \in 1..Len(ticks') : ticks'[i].type = "pipeline" \/ (i \in 1..Len(rest) /\ ticks'[i] = rest[i])
<1>1. [type |-> "pipeline"] \in Jobs
  BY DEF Jobs
<1>2. /\ down' = TRUE /\ toClient' = <<>>
      /\ call' = [m \in Messages |-> IF call[m] = "pending" THEN "rejected" ELSE call[m]]
      /\ ticks' = IF down THEN rest ELSE Append(rest, [type |-> "pipeline"])
  BY DEF GoDown
<1>3. /\ ticks' \in Seq(Jobs)
      /\ \A i \in 1..Len(ticks') : ticks'[i].type = "pipeline" \/ (i \in 1..Len(rest) /\ ticks'[i] = rest[i])
  <2>1. CASE down
    BY <1>2, <2>1
  <2>2. CASE ~down
    BY <1>1, <1>2, <2>2, AppendProperties, LenProperties
  <2> QED
    BY <2>1, <2>2
<1> QED
  BY <1>2, <1>3, EmptySeq DEF Stages

-----------------------------------------------------------------------------
Answers == [f : {"return", "ack", "nack", "close"}, m : Messages \cup {None}]

\* what the broker sends
LEMMA Sends ==
    ASSUME Stages, NEW m \in Messages
    PROVE  /\ Answer(m) \in Seq(Answers) /\ Len(Answer(m)) \in 1..2
           /\ <<[f |-> "close", m |-> None]>> \in Seq(Answers)
           /\ toClient \o Answer(m) \in Seq(Answers)
           /\ toClient \o <<[f |-> "close", m |-> None]>> \in Seq(Answers)
<1>1. Answer(m) \in Seq(Answers) /\ Len(Answer(m)) \in 1..2
  <2>1. /\ [f |-> "nack", m |-> m] \in Answers /\ [f |-> "return", m |-> m] \in Answers
        /\ [f |-> "ack", m |-> m] \in Answers
    BY DEF Answers
  <2>2. CASE m \in Nacked
    BY <2>1, <2>2 DEF Answer
  <2>3. CASE m \notin Nacked /\ m \in Unroutable
    BY <2>1, <2>3 DEF Answer
  <2>4. CASE m \notin Nacked /\ m \notin Unroutable
    BY <2>1, <2>4 DEF Answer
  <2> QED
    BY <2>2, <2>3, <2>4
<1>2. <<[f |-> "close", m |-> None]>> \in Seq(Answers)
  BY DEF Answers
<1> QED
  BY <1>1, <1>2, ConcatProperties DEF Stages, Answers

\* a piece of the stream becomes jobs
LEMMA Decodes ==
    ASSUME Stages, Decode
    PROVE  \E k \in 1..Len(toClient) :
              /\ parted' = (parted \/ toClient[k].f = "return")
              /\ ticks = <<>> /\ ~crashed /\ draining' = FALSE
              /\ ticks' = [i \in 1..k |-> Method(toClient[i].f, toClient[i].m)]
              /\ toClient' = SubSeq(toClient, k + 1, Len(toClient))
              /\ ticks' \in Seq(Jobs) /\ toClient' \in Seq(Answers) /\ Len(ticks') = k
              /\ Len(toClient) \in Nat
<1>1. PICK k \in 1..Len(toClient) :
          /\ parted' = (parted \/ toClient[k].f = "return")
          /\ ticks' = ticks \o [i \in 1..k |-> [type |-> "method", f |-> toClient[i].f, m |-> toClient[i].m]]
          /\ toClient' = SubSeq(toClient, k + 1, Len(toClient))
  BY DEF Decode
<1>2. ticks = <<>> /\ ~crashed /\ draining' = FALSE
  BY DEF Decode, Turn, BeginTurn, Quiet
<1>3. Len(toClient) \in Nat /\ \A i \in 1..Len(toClient) : toClient[i] \in Answers
  BY ElementOfSeq, LenProperties DEF Stages, Answers
<1> DEFINE jobs == [i \in 1..k |-> Method(toClient[i].f, toClient[i].m)]
<1>4. jobs \in Seq(Jobs) /\ Len(jobs) = k
  <2>1. \A i \in 1..k : Method(toClient[i].f, toClient[i].m) \in Jobs
    BY <1>3 DEF Method, Jobs, Answers
  <2> QED
    BY <1>3, <2>1
<1>5. ticks' = jobs
  <2>1. ticks' = <<>> \o jobs
    BY <1>1, <1>2 DEF Method
  <2> QED
    BY <1>4, <2>1, ConcatEmptySeq
<1>6. toClient' \in Seq(Answers)
  <2>1. \A i \in (k + 1)..Len(toClient) : toClient[i] \in Answers
    BY <1>3
  <2> QED
    BY <1>1, <1>3, <2>1, SubSeqProperties
<1> QED
  BY <1>1, <1>2, <1>3, <1>4, <1>5, <1>6

LEMMA StagesNext == ASSUME Stages, Sent, Scheduled, [Next]_vars PROVE Stages'
<1>1. ASSUME NEW m \in Messages, Register(m) PROVE Stages'
  <2>1. ticks' = <<>> /\ draining' = FALSE /\ sent[m] < Length(m)
    BY <1>1, Registers
  <2>2. ticks' \in Seq(Jobs)
    <3>1. <<>> \in Seq(Jobs)
      BY EmptySeq
    <3> QED
      BY <2>1, <3>1
  <2>3. WriteNext(m)
    BY <1>1 DEF Register
  <2>4. /\ toPeer' \in Seq([m : Messages, f : FrameKinds]) /\ sent' \in [Messages -> Nat]
        /\ sending' = IF sent[m] + 1 = Length(m) THEN sending \ {m} ELSE sending \cup {m}
    BY <2>1, <2>3, Writes
  <2> QED
    BY <1>1, <2>1, <2>2, <2>4 DEF Stages, Register, helper, broker
<1>2. CASE PipelineEnds
  <2>1. Tail(ticks) \in Seq(Jobs) /\ draining' = FALSE
    <3>1. Tick([type |-> "pipeline"])
      BY <1>2 DEF PipelineEnds
    <3> QED
      BY <3>1, Ticked
  <2> QED
    BY <1>2, <2>1 DEF Stages, PipelineEnds, stream, broker
<1>3. ASSUME NEW job, HandleAnswer(job) PROVE Stages'
  <2>1. Tail(ticks) \in Seq(Jobs) /\ draining' = FALSE
    BY <1>3, Ticked DEF HandleAnswer
  <2> QED
    BY <1>3, <2>1 DEF Stages, HandleAnswer, Outcome, helper, broker
<1>4. ASSUME NEW job, HandleStray(job) PROVE Stages'
  <2>1. Tail(ticks) \in Seq(Jobs) /\ draining' = FALSE
    BY <1>4, Ticked DEF HandleStray
  <2>2. crashed' \in BOOLEAN
    BY <1>4 DEF HandleStray
  <2>3. ticks' = Tail(ticks) /\ UNCHANGED <<helper, stream, down, toPeer, toClient, broker, parted>>
    BY <1>4 DEF HandleStray
  <2> QED
    BY <2>1, <2>2, <2>3 DEF Stages, helper, stream, broker
<1>5. ASSUME NEW job, HandleClose(job) PROVE Stages'
  <2>1. Tail(ticks) \in Seq(Jobs) /\ draining' = FALSE /\ GoDown(Tail(ticks))
    BY <1>5, Ticked DEF HandleClose
  <2>2. /\ down' = TRUE /\ ticks' \in Seq(Jobs)
        /\ toClient' \in Seq([f : {"return", "ack", "nack", "close"}, m : Messages \cup {None}])
        /\ call' \in [Messages -> {"none", "scheduled", "pending", "acked", "returned", "rejected"}]
    BY <2>1, Downs
  <2> QED
    BY <1>5, <2>1, <2>2 DEF Stages, HandleClose, helper, broker
<1>6. CASE Take
  <2>1. queue # <<>> /\ Head(queue) \in Messages /\ Tail(queue) \in Seq(Messages) /\ draining' = TRUE
    BY <1>6, HeadTailProperties DEF Take, Ready, Stages, Continue, RunContinuation
  <2>2. Job("register", Head(queue)) \in Jobs
    BY <2>1 DEF Job, Jobs
  <2>3. ticks' \in Seq(Jobs)
    <3>1. ticks' = ticks \/ ticks' = Append(ticks, Job("register", Head(queue)))
      BY <1>6 DEF Take
    <3>2. Append(ticks, Job("register", Head(queue))) \in Seq(Jobs)
      BY <2>2, AppendProperties DEF Stages
    <3> QED
      BY <3>1, <3>2 DEF Stages
  <2> QED
    BY <1>6, <2>1, <2>3 DEF Stages, Take, helper, broker
<1>7. CASE Settle
  BY <1>7 DEF Stages, Settle, broker, Continue, RunContinuation
<1>8. CASE WriteRejected
  <2>1. GoDown(ticks) /\ draining' = TRUE
    BY <1>8 DEF WriteRejected, Continue, RunContinuation
  <2>2. /\ down' = TRUE /\ ticks' \in Seq(Jobs)
        /\ toClient' \in Seq([f : {"return", "ack", "nack", "close"}, m : Messages \cup {None}])
        /\ call' \in [Messages -> {"none", "scheduled", "pending", "acked", "returned", "rejected"}]
    BY <2>1, Downs DEF Stages
  <2> QED
    BY <1>8, <2>1, <2>2 DEF Stages, WriteRejected, helper, broker
<1>9. CASE Finish
  <2>1. GoDown(ticks) /\ draining' = TRUE
    BY <1>9 DEF Finish, Continue, RunContinuation
  <2>2. /\ down' = TRUE /\ ticks' \in Seq(Jobs)
        /\ toClient' \in Seq([f : {"return", "ack", "nack", "close"}, m : Messages \cup {None}])
        /\ call' \in [Messages -> {"none", "scheduled", "pending", "acked", "returned", "rejected"}]
    BY <2>1, Downs DEF Stages
  <2> QED
    BY <1>9, <2>1, <2>2 DEF Stages, Finish, helper, broker
<1>10. ASSUME NEW m \in Messages, Publish(m) PROVE Stages'
  <2>1. draining' = TRUE
    BY <1>10 DEF Publish, Continue, RunContinuation
  <2>2. Append(queue, m) \in Seq(Messages)
    BY AppendProperties DEF Stages
  <2> QED
    BY <1>10, <2>1, <2>2 DEF Stages, Publish, broker
<1>11. ASSUME NEW m \in Messages, SendFrame(m) PROVE Stages'
  <2>1. m \in sending /\ draining' = FALSE /\ WriteNext(m)
    BY <1>11 DEF SendFrame, Turn, BeginTurn
  <2>2. sent[m] < Length(m)
    BY <2>1 DEF Sent
  <2>3. /\ toPeer' \in Seq([m : Messages, f : FrameKinds]) /\ sent' \in [Messages -> Nat]
        /\ sending' = IF sent[m] + 1 = Length(m) THEN sending \ {m} ELSE sending \cup {m}
    BY <2>1, <2>2, Writes
  <2> QED
    BY <1>11, <2>1, <2>3 DEF Stages, SendFrame, helper, broker
<1>12. ASSUME NEW m \in Messages, BodyFails(m) PROVE Stages'
  <2>1. draining' = FALSE
    BY <1>12 DEF BodyFails, Turn, BeginTurn
  <2> QED
    BY <1>12, <2>1 DEF Stages, BodyFails, helper, broker
<1>13. CASE Close
  BY <1>13 DEF Stages, Close, stream, broker, Continue, RunContinuation
<1>14. CASE ChannelOpened
  <2>1. draining' = FALSE /\ current \in Messages
    BY <1>14 DEF ChannelOpened, Turn, BeginTurn, Scheduled, Stages
  <2>2. Job("register", current) \in Jobs
    BY <2>1 DEF Job, Jobs
  <2>3. Append(ticks, Job("register", current)) \in Seq(Jobs)
    BY <2>2, AppendProperties DEF Stages
  <2> QED
    BY <1>14, <2>1, <2>3 DEF Stages, ChannelOpened, helper, broker
<1>15. CASE Decode
  <2>1. ticks' \in Seq(Jobs) /\ toClient' \in Seq(Answers) /\ draining' = FALSE /\ parted' \in BOOLEAN
    BY <1>15, Decodes DEF Stages
  <2> QED
    BY <1>15, <2>1 DEF Stages, Decode, helper, stream, broker, Answers
<1>16. CASE ConnectionFails
  <2>1. GoDown(ticks) /\ draining' = FALSE
    BY <1>16 DEF ConnectionFails, Turn, BeginTurn
  <2>2. /\ down' = TRUE /\ ticks' \in Seq(Jobs)
        /\ toClient' \in Seq([f : {"return", "ack", "nack", "close"}, m : Messages \cup {None}])
        /\ call' \in [Messages -> {"none", "scheduled", "pending", "acked", "returned", "rejected"}]
    BY <2>1, Downs DEF Stages
  <2> QED
    BY <1>16, <2>1, <2>2 DEF Stages, ConnectionFails, helper, broker
<1>17. CASE BrokerReads
  <2>1. /\ toPeer # <<>> /\ toPeer' = Tail(toPeer) /\ Head(toPeer) \in [m : Messages, f : FrameKinds]
        /\ toPeer' \in Seq([m : Messages, f : FrameKinds])
    BY <1>17, HeadTailProperties DEF BrokerReads, Stages
  <2>2. Head(toPeer).m \in Messages
    BY <2>1
  <2>3. toClient' \in Seq(Answers) /\ taken' \subseteq Messages /\ offence' \in BOOLEAN
    BY <1>17, <2>2, Sends DEF BrokerReads, Send, Stages, Answers
  <2> QED
    BY <1>17, <2>1, <2>3 DEF Stages, BrokerReads, helper, stream, Answers
<1>18. CASE CloseRefused \/ UNCHANGED vars
  BY <1>18 DEF CloseRefused, Stages, vars, helper, stream, broker
<1> QED
  BY <1>1, <1>2, <1>3, <1>4, <1>5, <1>6, <1>7, <1>8, <1>9, <1>10, <1>11, <1>12, <1>13, <1>14, <1>15,
     <1>16, <1>17, <1>18 DEF Next, Ticks, Continues

-----------------------------------------------------------------------------
LEMMA QueuedKept ==
    ASSUME Stages, Queued, queue' = queue, current' \in {current, None},
           \A m \in Messages : status'[m] = "new" => status[m] = "new",
           \A m \in Messages : call[m] = "none" /\ m # current => call'[m] = "none"
    PROVE  Queued'
<1>1. \A i \in 1..Len(queue) : queue[i] \in Messages /\ queue[i] # None
  BY ElementOfSeq, PublisherAssumption DEF Stages
<1>2. None \notin Messages
  BY PublisherAssumption
<1> QED
  BY <1>1, <1>2 DEF Queued

\* a message waits in the queue once, and nothing has begun of it
LEMMA QueuedNext == ASSUME Stages, Queued, Scheduled, Sent, [Next]_vars PROVE Queued'
<1>1. ASSUME NEW m \in Messages, Register(m) PROVE Queued'
  <2>1. m = current
    BY <1>1, Registers
  <2>2. queue' = queue /\ current' = current /\ status' = status /\ call' = [call EXCEPT ![m] = "pending"]
    BY <1>1 DEF Register, helper
  <2>3. \A n \in Messages : call[n] = "none" /\ n # current => call'[n] = "none"
    BY <2>1, <2>2 DEF Stages
  <2> QED
    BY <2>2, <2>3, QueuedKept
<1>2. CASE PipelineEnds
  <2>1. queue' = queue /\ current' = current /\ call' = call
    BY <1>2 DEF PipelineEnds, stream
  <2>2. \A m \in Messages : status'[m] = "new" => status[m] = "new"
    BY <1>2 DEF PipelineEnds
  <2> QED
    BY <2>1, <2>2, QueuedKept
<1>3. ASSUME NEW job, HandleAnswer(job) PROVE Queued'
  <2>1. /\ queue' = queue /\ current' = current /\ status' = status
        /\ call' = [m \in Messages |-> IF m \in Pending THEN Outcome(job.f) ELSE call[m]]
    BY <1>3 DEF HandleAnswer, helper
  <2>2. \A m \in Messages : call[m] = "none" => call'[m] = "none"
    BY <2>1 DEF Pending
  <2> QED
    BY <2>1, <2>2, QueuedKept
<1>4. ASSUME NEW job, HandleStray(job) PROVE Queued'
  BY <1>4, QueuedKept DEF HandleStray, helper, stream
<1>5. ASSUME NEW rest \in Seq(Jobs), GoDown(rest), UNCHANGED <<queue, status>>, current' \in {current, None}
      PROVE  Queued'
  <2>1. \A m \in Messages : call[m] = "none" => call'[m] = "none"
    BY <1>5, Downs
  <2> QED
    BY <1>5, <2>1, QueuedKept
<1>6. CASE Take
  <2> DEFINE next == Head(queue)
  <2>1. /\ queue # <<>> /\ current = None /\ current' = next /\ queue' = Tail(queue) /\ status' = status
        /\ call' = call \/ call' = [call EXCEPT ![next] = "scheduled"]
    BY <1>6 DEF Take, Ready, helper
  <2>2. Len(queue) \in Nat \ {0} /\ next = queue[1]
    BY <2>1, EmptySeq, LenProperties DEF Stages
  <2>3. Len(queue') = Len(queue) - 1 /\ \A i \in 1..Len(queue') : queue'[i] = queue[i + 1]
    BY <2>1, HeadTailProperties DEF Stages
  <2>4. \A i \in 1..Len(queue') : i + 1 \in 1..Len(queue) /\ i + 1 # 1 /\ 1 \in 1..Len(queue)
    BY <2>2, <2>3
  <2>5. \A i \in 1..Len(queue) : queue[i] \in Messages
    BY ElementOfSeq DEF Stages
  <2>6. \A i \in 1..Len(queue') : queue'[i] # next /\ call[queue'[i]] = "none" /\ queue'[i] \in Messages
    BY <2>2, <2>3, <2>4, <2>5 DEF Queued
  <2>7. \A i \in 1..Len(queue') : call'[queue'[i]] = "none"
    BY <2>1, <2>6 DEF Stages
  <2>8. \A i, j \in 1..Len(queue') : queue'[i] = queue'[j] => i = j
    <3>1. SUFFICES ASSUME NEW i \in 1..Len(queue'), NEW j \in 1..Len(queue'), queue'[i] = queue'[j] PROVE i = j
      OBVIOUS
    <3>2. i + 1 = j + 1
      BY <2>3, <2>4, <3>1 DEF Queued
    <3> QED
      BY <3>2, <2>2, <2>3
  <2>9. \A m \in Messages : status[m] = "new" => m # next /\ call[m] = "none"
                                 /\ \A i \in 1..Len(queue') : queue'[i] # m
    BY <2>2, <2>3, <2>4 DEF Queued
  <2> QED
    BY <2>1, <2>6, <2>7, <2>8, <2>9 DEF Queued, Stages
<1>7. CASE Settle
  <2>1. queue' = queue /\ current' = None /\ call' = call
    BY <1>7 DEF Settle
  <2>2. \A m \in Messages : status'[m] = "new" => status[m] = "new"
    BY <1>7 DEF Settle, Stages
  <2> QED
    BY <2>1, <2>2, QueuedKept
<1>8. ASSUME NEW m \in Messages, Publish(m) PROVE Queued'
  <2>1. status[m] = "new" /\ UNCHANGED <<call, current>>
    BY <1>8 DEF Publish
  <2>2. \/ status' = [status EXCEPT ![m] = "refused"] /\ queue' = queue
        \/ status' = [status EXCEPT ![m] = "waiting"] /\ queue' = Append(queue, m)
    BY <1>8 DEF Publish
  <2>3. \A n \in Messages : status'[n] = "new" => status[n] = "new" /\ n # m
    BY <2>2 DEF Stages
  <2>4. CASE queue' = queue
    BY <2>1, <2>3, <2>4, QueuedKept
  <2>5. CASE queue' = Append(queue, m)
    <3>1. /\ Len(queue) \in Nat /\ Len(queue') = Len(queue) + 1 /\ queue'[Len(queue) + 1] = m
          /\ \A i \in 1..Len(queue) : queue'[i] = queue[i]
      BY <2>5, AppendProperties, LenProperties DEF Stages
    <3>2. \A i \in 1..Len(queue') : i = Len(queue) + 1 \/ i \in 1..Len(queue)
      BY <3>1
    <3>3. call[m] = "none" /\ m # current /\ \A i \in 1..Len(queue) : queue[i] # m
      BY <2>1 DEF Queued
    <3>4. \A i \in 1..Len(queue') : call'[queue'[i]] = "none" /\ queue'[i] # current'
      BY <2>1, <3>1, <3>2, <3>3 DEF Queued
    <3>5. \A i, j \in 1..Len(queue') : queue'[i] = queue'[j] => i = j
      BY <3>1, <3>2, <3>3 DEF Queued
    <3>6. \A n \in Messages : status'[n] = "new" =>
             call'[n] = "none" /\ n # current' /\ \A i \in 1..Len(queue') : queue'[i] # n
      BY <2>1, <2>3, <3>1, <3>2 DEF Queued
    <3> QED
      BY <3>4, <3>5, <3>6 DEF Queued
  <2> QED
    BY <2>2, <2>4, <2>5
<1>9. ASSUME NEW m \in Messages, SendFrame(m) PROVE Queued'
  BY <1>9, QueuedKept DEF SendFrame, helper
<1>10. ASSUME NEW m \in Messages, BodyFails(m) PROVE Queued'
  <2>1. \A n \in Messages : call[n] = "none" => call'[n] = "none"
    BY <1>10 DEF BodyFails, Stages
  <2> QED
    BY <1>10, <2>1, QueuedKept DEF BodyFails, helper
<1>11. CASE ChannelOpened
  <2>1. \A n \in Messages : call[n] = "none" /\ n # current => call'[n] = "none"
    BY <1>11 DEF ChannelOpened, Stages
  <2> QED
    BY <1>11, <2>1, QueuedKept DEF ChannelOpened, helper
<1>12. CASE Close \/ Decode \/ BrokerReads \/ CloseRefused \/ UNCHANGED vars
  <2>1. UNCHANGED <<queue, current, status, call>>
    BY <1>12 DEF CloseRefused, Close, Decode, BrokerReads, vars, helper, stream
  <2> QED
    BY <2>1, QueuedKept
<1>13. ASSUME NEW job, HandleClose(job) PROVE Queued'
  <2>1. Tail(ticks) \in Seq(Jobs) /\ GoDown(Tail(ticks)) /\ UNCHANGED <<queue, status, current>>
    BY <1>13, Ticked DEF HandleClose, helper
  <2> QED
    BY <1>5, <2>1
<1>14. CASE WriteRejected \/ Finish \/ ConnectionFails
  <2>1. ticks \in Seq(Jobs) /\ GoDown(ticks) /\ UNCHANGED <<queue, status>> /\ current' \in {current, None}
    BY <1>14 DEF WriteRejected, Finish, ConnectionFails, helper, Stages
  <2> QED
    BY <1>5, <2>1
<1> QED
  BY <1>1, <1>2, <1>3, <1>4, <1>6, <1>7, <1>8, <1>9, <1>10, <1>11, <1>12, <1>13, <1>14
     DEF Next, Ticks, Continues

-----------------------------------------------------------------------------
LEMMA SentKept ==
    ASSUME Sent, sent' = sent, sending' \subseteq sending,
           \A m \in Messages : call'[m] \in {"none", "scheduled"} => call[m] \in {"none", "scheduled"}
    PROVE  Sent'
BY DEF Sent, Length

\* no frame is written twice, and none past the last
LEMMA SentNext == ASSUME Stages, Queued, Sent, Scheduled, [Next]_vars PROVE Sent'
<1>1. ASSUME NEW m \in Messages, sent[m] < Length(m), WriteNext(m), call' \in {call, [call EXCEPT ![m] = "pending"]},
             call'[m] \notin {"none", "scheduled"}
      PROVE  Sent'
  <2>1. /\ sent' = [sent EXCEPT ![m] = @ + 1]
        /\ sending' = IF sent[m] + 1 = Length(m) THEN sending \ {m} ELSE sending \cup {m}
    BY <1>1, Writes
  <2>2. Length(m) \in Nat /\ sent \in [Messages -> Nat] /\ Length(m)' = Length(m)
    BY PublisherAssumption DEF Length, Stages
  <2>3. sent'[m] <= Length(m) /\ (m \in sending' => sent'[m] < Length(m))
    BY <1>1, <2>1, <2>2
  <2>4. ASSUME NEW n \in Messages \ {m}
        PROVE  /\ call'[n] \in {"none", "scheduled"} => sent'[n] = 0 /\ n \notin sending'
               /\ sent'[n] <= Length(n) /\ (n \in sending' => sent'[n] < Length(n))
    <3>1. sent'[n] = sent[n] /\ call'[n] = call[n] /\ (n \in sending' => n \in sending)
      BY <1>1, <2>1, <2>2 DEF Stages
    <3> QED
      BY <3>1 DEF Sent
  <2>5. sending' \subseteq Messages
    BY <2>1 DEF Stages
  <2> QED
    BY <1>1, <2>3, <2>4, <2>5 DEF Sent
<1>2. ASSUME NEW m \in Messages, Register(m) PROVE Sent'
  <2>1. sent[m] < Length(m) /\ WriteNext(m) /\ call' = [call EXCEPT ![m] = "pending"]
    BY <1>2, Registers DEF Register
  <2> QED
    BY <1>1, <2>1 DEF Stages
<1>3. ASSUME NEW m \in Messages, SendFrame(m) PROVE Sent'
  <2>1. m \in sending /\ WriteNext(m) /\ call' = call
    BY <1>3 DEF SendFrame
  <2>2. sent[m] < Length(m) /\ call[m] \notin {"none", "scheduled"}
    BY <2>1 DEF Sent
  <2> QED
    BY <1>1, <2>1, <2>2
<1>4. ASSUME NEW job, HandleAnswer(job) PROVE Sent'
  <2>1. /\ sent' = sent /\ sending' = sending
        /\ call' = [m \in Messages |-> IF m \in Pending THEN Outcome(job.f) ELSE call[m]]
    BY <1>4 DEF HandleAnswer
  <2>2. \A m \in Messages : call'[m] \in {"none", "scheduled"} => call[m] \in {"none", "scheduled"}
    BY <2>1 DEF Outcome
  <2> QED
    BY <2>1, <2>2, SentKept
<1>5. ASSUME NEW rest \in Seq(Jobs), GoDown(rest), UNCHANGED <<sent, sending>> PROVE Sent'
  <2>1. \A m \in Messages : call'[m] \in {"none", "scheduled"} => call[m] \in {"none", "scheduled"}
    BY <1>5, Downs
  <2> QED
    BY <1>5, <2>1, SentKept
<1>6. ASSUME NEW job, HandleClose(job) PROVE Sent'
  <2>1. Tail(ticks) \in Seq(Jobs) /\ GoDown(Tail(ticks)) /\ UNCHANGED <<sent, sending>>
    BY <1>6, Ticked DEF HandleClose
  <2> QED
    BY <1>5, <2>1
<1>7. CASE WriteRejected \/ Finish \/ ConnectionFails
  <2>1. ticks \in Seq(Jobs) /\ GoDown(ticks) /\ UNCHANGED <<sent, sending>>
    BY <1>7 DEF WriteRejected, Finish, ConnectionFails, Stages
  <2> QED
    BY <1>5, <2>1
<1>8. CASE Take
  <2>1. /\ queue # <<>> /\ sent' = sent /\ sending' = sending
        /\ call' = call \/ call' = [call EXCEPT ![Head(queue)] = "scheduled"]
    BY <1>8 DEF Take, Ready
  <2>2. Len(queue) \in Nat \ {0} /\ Head(queue) = queue[1] /\ Head(queue) \in Messages
    BY <2>1, EmptySeq, LenProperties, HeadTailProperties DEF Stages
  <2>3. call[Head(queue)] = "none"
    BY <2>2 DEF Queued
  <2>4. \A m \in Messages : call'[m] \in {"none", "scheduled"} => call[m] \in {"none", "scheduled"}
    BY <2>1, <2>2, <2>3 DEF Stages
  <2> QED
    BY <2>1, <2>4, SentKept
<1>9. CASE ChannelOpened
  <2>1. /\ sent' = sent /\ sending' = sending /\ call[current] = "none"
        /\ call' = [call EXCEPT ![current] = "scheduled"]
    BY <1>9 DEF ChannelOpened, Scheduled
  <2>2. \A m \in Messages : call'[m] \in {"none", "scheduled"} => call[m] \in {"none", "scheduled"}
    BY <2>1 DEF Stages
  <2> QED
    BY <2>1, <2>2, SentKept
<1>10. ASSUME NEW m \in Messages, BodyFails(m) PROVE Sent'
  <2>1. /\ sent' = sent /\ sending' \subseteq sending
        /\ call' = [call EXCEPT ![m] = IF @ = "pending" THEN "rejected" ELSE @]
    BY <1>10 DEF BodyFails
  <2>2. \A n \in Messages : call'[n] \in {"none", "scheduled"} => call[n] \in {"none", "scheduled"}
    BY <2>1 DEF Stages
  <2> QED
    BY <2>1, <2>2, SentKept
<1>11. ASSUME UNCHANGED <<sent, sending, call>> PROVE Sent'
  BY <1>11, SentKept
<1>12. ASSUME NEW job, HandleStray(job) PROVE Sent'
  BY <1>11, <1>12 DEF HandleStray, stream
<1>13. ASSUME NEW m \in Messages, Publish(m) PROVE Sent'
  BY <1>11, <1>13 DEF Publish
<1>14. CASE Close \/ Decode \/ BrokerReads \/ PipelineEnds \/ Settle \/ CloseRefused \/ UNCHANGED vars
  <2>1. UNCHANGED <<sent, sending, call>>
    BY <1>14 DEF CloseRefused, Close, Decode, BrokerReads, PipelineEnds, Settle, vars, stream
  <2> QED
    BY <1>11, <2>1
<1> QED
  BY <1>2, <1>3, <1>4, <1>6, <1>7, <1>8, <1>9, <1>10, <1>12, <1>13, <1>14 DEF Next, Ticks, Continues

\* after a tick no call waits for its own
LEMMA TailHasNone ==
    ASSUME Stages, Scheduled, NEW job, Tick(job)
    PROVE  \A i \in 1..Len(Tail(ticks)) : Tail(ticks)[i].type # "register"
<1>1. SUFFICES ASSUME NEW i \in 1..Len(Tail(ticks)), Tail(ticks)[i].type = "register" PROVE FALSE
  OBVIOUS
<1>2. /\ Len(ticks) \in Nat \ {0} /\ Len(Tail(ticks)) = Len(ticks) - 1
      /\ Tail(ticks)[i] = ticks[i + 1]
  BY Ticked
<1>3. i + 1 \in 1..Len(ticks) /\ Len(ticks) > 1
  BY <1>2
<1>4. ticks = <<Job("register", current)>>
  BY <1>1, <1>2, <1>3 DEF Scheduled
<1>5. Len(ticks) = 1
  BY <1>4
<1> QED
  BY <1>3, <1>5

LEMMA ScheduledNext == ASSUME Stages, Queued, Sent, Scheduled, [Next]_vars PROVE Scheduled'
<1> USE DEF Scheduled
<1>1. ASSUME NEW m \in Messages, Register(m) PROVE Scheduled'
  <2>1. m = current /\ call[m] = "scheduled" /\ ticks' = <<>> /\ draining' = FALSE
    BY <1>1, Registers
  <2>2. call' = [call EXCEPT ![m] = "pending"] /\ UNCHANGED <<current, channel>>
    BY <1>1 DEF Register
  <2>3. Len(ticks') = 0
    BY <2>1
  <2>4. \A n \in Messages : call'[n] = IF n = m THEN "pending" ELSE call[n]
    BY <2>2 DEF Stages
  <2> QED
    BY <2>1, <2>2, <2>3, <2>4 DEF Stages
<1>2. ASSUME NEW job, Tick(job), ticks' = Tail(ticks), UNCHANGED <<current, channel>>,
             \A m \in Messages : call'[m] \in {"scheduled", "pending", "none"} => call'[m] = call[m],
             \A m \in Messages : call[m] = "none" => call'[m] = "none"
      PROVE  Scheduled'
  <2>1. \A i \in 1..Len(ticks') : ticks'[i].type # "register"
    BY <1>2, TailHasNone
  <2>2. draining' = FALSE
    BY <1>2, Ticked
  <2> QED
    BY <1>2, <2>1, <2>2 DEF Stages
<1>3. CASE PipelineEnds
  BY <1>2, <1>3 DEF PipelineEnds, stream
<1>4. ASSUME NEW job, HandleAnswer(job) PROVE Scheduled'
  <2>1. call' = [m \in Messages |-> IF m \in Pending THEN Outcome(job.f) ELSE call[m]]
    BY <1>4 DEF HandleAnswer
  <2>2. /\ \A m \in Messages : call'[m] \in {"scheduled", "pending", "none"} => call'[m] = call[m]
        /\ \A m \in Messages : call[m] = "none" => call'[m] = "none"
    BY <2>1 DEF Outcome, Pending
  <2> QED
    BY <1>2, <1>4, <2>2 DEF HandleAnswer
<1>5. ASSUME NEW job, HandleStray(job) PROVE Scheduled'
  BY <1>2, <1>5 DEF HandleStray, stream
<1>6. ASSUME NEW rest \in Seq(Jobs), GoDown(rest), \A i \in 1..Len(rest) : rest[i].type # "register",
             channel' = channel, draining' => rest = <<>> \/ down',
             current' = current \/ (current' = None /\ (current # None => call[current] = "rejected"))
      PROVE  Scheduled'
  <2>1. /\ down' = TRUE
        /\ \A m \in Messages : call'[m] = IF call[m] = "pending" THEN "rejected" ELSE call[m]
        /\ \A i \in 1..Len(ticks') : ticks'[i].type = "pipeline" \/ (i \in 1..Len(rest) /\ ticks'[i] = rest[i])
    BY <1>6, Downs
  <2>2. \A i \in 1..Len(ticks') : ticks'[i].type # "register"
    BY <1>6, <2>1
  <2> QED
    BY <1>6, <2>1, <2>2 DEF Stages
<1>7. ASSUME NEW job, HandleClose(job) PROVE Scheduled'
  <2>1. /\ Tail(ticks) \in Seq(Jobs) /\ GoDown(Tail(ticks)) /\ UNCHANGED <<channel, current>> /\ draining' = FALSE
        /\ \A i \in 1..Len(Tail(ticks)) : Tail(ticks)[i].type # "register"
    BY <1>7, Ticked, TailHasNone DEF HandleClose
  <2> QED
    BY <1>6, <2>1
<1>8. ASSUME current = None \/ call[current] # "scheduled"
      PROVE  \A i \in 1..Len(ticks) : ticks[i].type # "register"
  BY <1>8
<1>9. CASE WriteRejected \/ Finish
  <2>1. /\ GoDown(ticks) /\ channel' = channel /\ ticks \in Seq(Jobs)
        /\ \/ current' = current /\ current = None
           \/ current' = None /\ call[current] = "rejected"
    BY <1>9 DEF WriteRejected, Finish, Finished, Stages
  <2>2. down' = TRUE
    BY <2>1, Downs
  <2> QED
    BY <1>6, <1>8, <2>1, <2>2
<1>10. CASE ConnectionFails
  <2>1. /\ GoDown(ticks) /\ UNCHANGED <<channel, current>> /\ ticks = <<>> /\ ticks \in Seq(Jobs)
    BY <1>10 DEF ConnectionFails, Turn, BeginTurn, Quiet, Stages
  <2>2. \A i \in 1..Len(ticks) : ticks[i].type # "register"
    BY <2>1
  <2> QED
    BY <1>6, <2>1, <2>2
<1>11. CASE Take
  <2>1. /\ queue # <<>> /\ current = None /\ ~down /\ current' = Head(queue) /\ (ticks = <<>> \/ draining)
        /\ down' = down
    BY <1>11 DEF Take, Ready, Continue, RunContinuation
  <2>2. Len(queue) \in Nat \ {0} /\ Head(queue) = queue[1] /\ Head(queue) \in Messages
    BY <2>1, EmptySeq, LenProperties, HeadTailProperties DEF Stages
  <2>3. call[Head(queue)] = "none" /\ Head(queue) # None
    BY <2>2, PublisherAssumption DEF Queued
  <2>4. ticks = <<>>
    <3>1. ticks = <<Job("register", current)>> => 1 \in 1..Len(ticks) /\ ticks[1].type = "register"
      BY DEF Job
    <3> QED
      BY <2>1, <3>1
  <2>5. \A m \in Messages : call[m] \notin {"scheduled", "pending"}
    BY <2>1, PublisherAssumption
  <2>6. CASE channel = "open"
    <3>1. /\ call' = [call EXCEPT ![Head(queue)] = "scheduled"] /\ channel' = "open"
          /\ ticks' = Append(<<>>, Job("register", Head(queue)))
      BY <1>11, <2>4, <2>6 DEF Take
    <3>2. ticks' = <<Job("register", Head(queue))>> /\ Len(ticks') = 1
      BY <3>1
    <3>3. \A m \in Messages : call'[m] = IF m = Head(queue) THEN "scheduled" ELSE call[m]
      BY <3>1 DEF Stages
    <3> QED
      BY <2>1, <2>2, <2>3, <2>5, <3>1, <3>2, <3>3
  <2>7. CASE channel # "open"
    <3>1. call' = call /\ channel' = "opening" /\ ticks' = <<>>
      BY <1>11, <2>1, <2>4, <2>7 DEF Take, Stages
    <3>2. Len(ticks') = 0
      BY <3>1
    <3> QED
      BY <2>1, <2>2, <2>3, <2>5, <3>1, <3>2
  <2> QED
    BY <2>6, <2>7
<1>12. CASE ChannelOpened
  <2>1. /\ current # None /\ current \in Messages /\ call[current] = "none" /\ ~down /\ UNCHANGED <<down, current>>
        /\ channel' = "open" /\ call' = [call EXCEPT ![current] = "scheduled"] /\ draining' = FALSE
        /\ ticks' = Append(<<>>, Job("register", current))
    BY <1>12 DEF ChannelOpened, Turn, BeginTurn, Quiet, Stages
  <2>2. ticks' = <<Job("register", current)>> /\ Len(ticks') = 1
    BY <2>1
  <2>3. \A m \in Messages : call'[m] = IF m = current THEN "scheduled" ELSE call[m]
    BY <2>1 DEF Stages
  <2> QED
    BY <2>1, <2>2, <2>3
<1>13. CASE Settle
  <2>1. /\ current # None /\ current \in Messages /\ call[current] \in {"acked", "returned"}
        /\ current' = None /\ UNCHANGED <<call, channel, down, ticks>> /\ (ticks = <<>> \/ draining)
    BY <1>13 DEF Settle, Continue, RunContinuation, Stages
  <2>2. \A i \in 1..Len(ticks) : ticks[i].type # "register"
    BY <1>8, <2>1
  <2>3. ticks # <<Job("register", current)>>
    <3>1. ticks = <<Job("register", current)>> => 1 \in 1..Len(ticks) /\ ticks[1].type = "register"
      BY DEF Job
    <3> QED
      BY <2>2, <3>1
  <2> QED
    BY <2>1, <2>2, <2>3
<1>14. ASSUME UNCHANGED <<call, channel, down, current, ticks>>, draining' => draining \/ ticks = <<>> PROVE Scheduled'
  BY <1>14
<1>15. ASSUME NEW m \in Messages, Publish(m) PROVE Scheduled'
  BY <1>14, <1>15 DEF Publish, Continue, RunContinuation
<1>16. CASE Close
  BY <1>14, <1>16 DEF Close, Continue, RunContinuation, stream
<1>17. ASSUME NEW m \in Messages, SendFrame(m) PROVE Scheduled'
  BY <1>14, <1>17 DEF SendFrame, Turn, BeginTurn
<1>18. ASSUME NEW m \in Messages, BodyFails(m) PROVE Scheduled'
  <2>1. /\ call' = [call EXCEPT ![m] = IF @ = "pending" THEN "rejected" ELSE @] /\ draining' = FALSE
        /\ UNCHANGED <<channel, down, current, ticks>> /\ ticks = <<>>
    BY <1>18 DEF BodyFails, Turn, BeginTurn, Quiet
  <2>2. \A n \in Messages : call'[n] = IF n = m /\ call[n] = "pending" THEN "rejected" ELSE call[n]
    BY <2>1 DEF Stages
  <2>3. Len(ticks') = 0
    BY <2>1
  <2> QED
    BY <2>1, <2>2, <2>3 DEF Stages
<1>19. CASE Decode
  <2>1. /\ UNCHANGED <<call, channel, down, current>> /\ draining' = FALSE
    BY <1>19, Decodes DEF Decode, stream
  <2>2. PICK k \in 1..Len(toClient) : ticks' = [i \in 1..k |-> Method(toClient[i].f, toClient[i].m)]
    BY <1>19, Decodes
  <2>3. Len(ticks') = k /\ \A i \in 1..k : ticks'[i].type = "method"
    BY <2>2 DEF Method, Stages
  <2> QED
    BY <2>1, <2>3
<1>20. CASE BrokerReads \/ CloseRefused \/ UNCHANGED vars
  BY <1>14, <1>20 DEF CloseRefused, BrokerReads, vars, stream
<1> QED
  BY <1>1, <1>3, <1>4, <1>5, <1>7, <1>9, <1>10, <1>11, <1>12, <1>13, <1>15, <1>16, <1>17, <1>18, <1>19, <1>20
     DEF Next, Ticks, Continues

-----------------------------------------------------------------------------
\* what the broker makes of a frame
LEMMA Reads ==
    ASSUME Stages, Receiving, BrokerReads
    PROVE  \E m \in Messages, k \in FrameKinds :
              /\ toPeer[1] = [m |-> m, f |-> k] /\ ~offence
              /\ Len(toPeer) \in Nat \ {0} /\ Len(toPeer') = Len(toPeer) - 1
              /\ \A i \in 1..Len(toPeer') : toPeer'[i] = toPeer[i + 1]
              /\ \/ /\ k = Full(Read(m) + 1) /\ (incoming # NoContent => incoming.m = m)
                    /\ incoming' # NoContent /\ incoming'.m = m /\ Read(m)' = Read(m) + 1
                    /\ Read(m)' < Pieces[m] + 2 /\ Receiving'
                    /\ UNCHANGED <<taken, offence, toClient>>
                 \/ /\ k = Full(Read(m) + 1) /\ (incoming # NoContent => incoming.m = m)
                    /\ incoming' = NoContent /\ Read(m) + 1 = Pieces[m] + 2
                    /\ taken' = IF m \in Unroutable \cup Nacked THEN taken ELSE taken \cup {m}
                    /\ Send(Answer(m)) /\ UNCHANGED offence
                 \/ /\ k # Full(Read(m) + 1) \/ (incoming # NoContent /\ incoming.m # m)
                    /\ offence' = TRUE /\ Send(<<[f |-> "close", m |-> None]>>)
                    /\ UNCHANGED <<incoming, taken>>
<1>1. toPeer # <<>> /\ ~offence /\ toPeer' = Tail(toPeer)
  BY DEF BrokerReads
<1>2. /\ Head(toPeer) \in [m : Messages, f : FrameKinds] /\ Head(toPeer) = toPeer[1]
      /\ Len(toPeer) \in Nat \ {0} /\ Len(toPeer') = Len(toPeer) - 1
      /\ \A i \in 1..Len(toPeer') : toPeer'[i] = toPeer[i + 1]
  <2> DEFINE S == [m : Messages, f : FrameKinds]
  <2>1. toPeer \in Seq(S) /\ toPeer # <<>> /\ toPeer' = Tail(toPeer)
    BY <1>1 DEF Stages
  <2> HIDE DEF S
  <2>2. Len(toPeer) \in Nat \ {0} /\ Head(toPeer) = toPeer[1]
    BY <2>1, EmptySeq, LenProperties
  <2> QED
    BY <2>1, <2>2, HeadTailProperties DEF S
<1>3. PICK m \in Messages, k \in FrameKinds : Head(toPeer) = [m |-> m, f |-> k]
  BY <1>2
<1>4. Pieces[m] \in Nat /\ m # None
  BY PublisherAssumption
<1>5. PICK left :
         /\ left = IF incoming = NoContent THEN <<"header">> \o Body(m) ELSE Tail(incoming.left)
         /\ \/ /\ Expected(Head(toPeer)) /\ left # <<>>
               /\ incoming' = [m |-> m, left |-> left] /\ UNCHANGED <<taken, offence, toClient>>
            \/ /\ Expected(Head(toPeer)) /\ left = <<>> /\ incoming' = NoContent
               /\ taken' = IF m \in Unroutable \cup Nacked THEN taken ELSE taken \cup {m}
               /\ Send(Answer(m)) /\ UNCHANGED offence
            \/ /\ ~Expected(Head(toPeer)) /\ offence' = TRUE
               /\ Send(<<[f |-> "close", m |-> None]>>) /\ UNCHANGED <<incoming, taken>>
  <2> DEFINE rest(n) == IF incoming = NoContent THEN <<"header">> \o Body(n) ELSE Tail(incoming.left)
  <2>1. LET f == Head(toPeer) IN
           \/ /\ Expected(f) /\ rest(f.m) # <<>>
              /\ incoming' = [m |-> f.m, left |-> rest(f.m)] /\ UNCHANGED <<taken, offence, toClient>>
           \/ /\ Expected(f) /\ rest(f.m) = <<>> /\ incoming' = NoContent
              /\ taken' = IF f.m \in Unroutable \cup Nacked THEN taken ELSE taken \cup {f.m}
              /\ Send(Answer(f.m)) /\ UNCHANGED offence
           \/ /\ ~Expected(f) /\ offence' = TRUE
              /\ Send(<<[f |-> "close", m |-> None]>>) /\ UNCHANGED <<incoming, taken>>
    BY DEF BrokerReads
  <2>2. Head(toPeer).m = m
    BY <1>3
  <2> HIDE DEF rest
  <2>3. \E left :
         /\ left = rest(m)
         /\ \/ /\ Expected(Head(toPeer)) /\ left # <<>>
               /\ incoming' = [m |-> m, left |-> left] /\ UNCHANGED <<taken, offence, toClient>>
            \/ /\ Expected(Head(toPeer)) /\ left = <<>> /\ incoming' = NoContent
               /\ taken' = IF m \in Unroutable \cup Nacked THEN taken ELSE taken \cup {m}
               /\ Send(Answer(m)) /\ UNCHANGED offence
            \/ /\ ~Expected(Head(toPeer)) /\ offence' = TRUE
               /\ Send(<<[f |-> "close", m |-> None]>>) /\ UNCHANGED <<incoming, taken>>
    <3> WITNESS rest(m)
    <3> QED
      BY <2>1, <2>2
  <2> QED
    BY <2>3 DEF rest
\* what the broker expects, and what is left of the content after it
<1>6. /\ Expected(Head(toPeer)) <=> k = Full(Read(m) + 1) /\ (incoming # NoContent => incoming.m = m)
      /\ Expected(Head(toPeer)) =>
            /\ Read(m) \in Nat
            /\ left \in Seq(FrameKinds) /\ Len(left) \in Nat
            /\ Len(left) = Pieces[m] + 2 - (Read(m) + 1)
            /\ \A i \in 1..Len(left) : left[i] = Full((Read(m) + 1) + i)
  <2>1. CASE incoming = NoContent
    <3>1. Read(m) = 0 /\ left = <<"header">> \o Body(m)
      BY <1>5, <2>1 DEF Read
    <3>2. /\ left \in Seq(FrameKinds) /\ Len(left) = Pieces[m] + 1
          /\ \A i \in 1..(Pieces[m] + 1) : left[i] = Full(i + 1)
      BY <3>1, FramesOf
    <3>3. \A i \in 1..Len(left) : left[i] = Full((Read(m) + 1) + i)
      BY <1>4, <3>1, <3>2 DEF Full
    <3>4. Expected(Head(toPeer)) <=> k = Full(Read(m) + 1)
      BY <1>3, <2>1, <3>1 DEF Expected, Full
    <3> QED
      BY <1>4, <2>1, <3>1, <3>2, <3>3, <3>4
  <2>2. CASE incoming # NoContent
    <3>1. /\ incoming.m \in Messages /\ incoming.left \in Seq(FrameKinds)
          /\ Len(incoming.left) \in 1..(Pieces[incoming.m] + 1)
          /\ \A i \in 1..Len(incoming.left) : incoming.left[i] = Full(Read(incoming.m) + i)
          /\ Read(incoming.m) = Pieces[incoming.m] + 2 - Len(incoming.left)
          /\ Pieces[incoming.m] \in Nat
      BY <2>2, PublisherAssumption DEF Receiving, Read
    <3>2. /\ left = Tail(incoming.left) /\ Head(incoming.left) = incoming.left[1]
          /\ left \in Seq(FrameKinds) /\ Len(left) = Len(incoming.left) - 1
          /\ \A i \in 1..Len(left) : left[i] = incoming.left[i + 1]
      BY <1>5, <2>2, <3>1, EmptySeq, LenProperties, HeadTailProperties
    <3>3. Head(incoming.left) = Full(Read(incoming.m) + 1)
      BY <3>1, <3>2
    <3>4. Expected(Head(toPeer)) <=> m = incoming.m /\ k = Full(Read(m) + 1)
      BY <1>3, <2>2, <3>3 DEF Expected
    <3>5. ASSUME m = incoming.m
          PROVE  /\ Read(m) \in Nat /\ Len(left) \in Nat
                 /\ Len(left) = Pieces[m] + 2 - (Read(m) + 1)
                 /\ \A i \in 1..Len(left) : left[i] = Full((Read(m) + 1) + i)
      <4>1. Read(m) \in Nat /\ Len(left) \in Nat /\ Len(left) = Pieces[m] + 2 - (Read(m) + 1)
        BY <3>1, <3>2, <3>5
      <4>2. ASSUME NEW i \in 1..Len(left) PROVE left[i] = Full((Read(m) + 1) + i)
        <5>1. i + 1 \in 1..Len(incoming.left) /\ left[i] = incoming.left[i + 1]
          BY <3>1, <3>2
        <5>2. left[i] = Full(Read(m) + (i + 1))
          BY <3>1, <3>5, <5>1
        <5>3. Read(m) + (i + 1) = (Read(m) + 1) + i
          BY <4>1
        <5> QED
          BY <5>2, <5>3
      <4> QED
        BY <4>1, <4>2
    <3> QED
      BY <2>2, <3>2, <3>4, <3>5
  <2> QED
    BY <2>1, <2>2
<1>7. CASE Expected(Head(toPeer)) /\ left # <<>>
  <2>1. incoming' = [m |-> m, left |-> left] /\ UNCHANGED <<taken, offence, toClient>>
    BY <1>5, <1>7
  <2>2. incoming' # NoContent /\ incoming'.m = m /\ incoming'.left = left
    BY <1>4, <2>1 DEF NoContent
  <2>3. Read(m)' = Pieces[m] + 2 - Len(left)
    BY <2>2 DEF Read
  <2>4. Len(left) # 0
    BY <1>6, <1>7, EmptySeq
  <2>5. Read(m)' = Read(m) + 1 /\ Read(m)' < Pieces[m] + 2 /\ Len(left) \in 1..(Pieces[m] + 1)
    BY <1>4, <1>6, <1>7, <2>3, <2>4
  <2>6. Receiving'
    BY <1>6, <1>7, <2>1, <2>2, <2>5 DEF Receiving
  <2> QED
    BY <1>1, <1>2, <1>3, <1>6, <1>7, <2>1, <2>2, <2>5, <2>6
<1>8. CASE Expected(Head(toPeer)) /\ left = <<>>
  <2>1. /\ incoming' = NoContent /\ Send(Answer(m)) /\ UNCHANGED offence
        /\ taken' = IF m \in Unroutable \cup Nacked THEN taken ELSE taken \cup {m}
    BY <1>5, <1>8
  <2>2. Read(m) + 1 = Pieces[m] + 2
    BY <1>4, <1>6, <1>8
  <2> QED
    BY <1>1, <1>2, <1>3, <1>6, <1>8, <2>1, <2>2
<1>9. CASE ~Expected(Head(toPeer))
  BY <1>1, <1>2, <1>3, <1>5, <1>6, <1>9
<1> QED
  BY <1>7, <1>8, <1>9

LEMMA ReceivingNext == ASSUME Stages, Receiving, [Next]_vars PROVE Receiving'
<1>1. CASE BrokerReads
  <2>1. Receiving' \/ incoming' = NoContent \/ incoming' = incoming
    BY <1>1, Reads
  <2> QED
    BY <2>1 DEF Receiving, Read
<1>2. ASSUME incoming' = incoming PROVE Receiving'
  BY <1>2 DEF Receiving, Read
<1>3. CASE ~BrokerReads
  <2>1. incoming' = incoming
    BY <1>3 DEF Next, Ticks, Continues, Register, PipelineEnds, HandleAnswer, HandleStray, HandleClose,
       Take, Settle, WriteRejected, CloseRefused, Finish, Publish, SendFrame, BodyFails, Close, ChannelOpened, Decode,
       ConnectionFails, vars, broker
  <2> QED
    BY <1>2, <2>1
<1> QED
  BY <1>1, <1>3

-----------------------------------------------------------------------------
LEMMA LengthOf ==
    ASSUME NEW m \in Messages
    PROVE  /\ Pieces[m] \in Nat /\ Length(m) \in Nat \ {0} /\ Length(m) <= Pieces[m] + 2 /\ m # None
           /\ m \in Bare => Length(m) = Pieces[m] + 1
BY PublisherAssumption DEF Length

\* what the client writes follows what is on its way
LEMMA Extends ==
    ASSUME Stages, Sent, Receiving, NEW m \in Messages, sent[m] < Length(m), WriteNext(m),
           incoming' = incoming, down' = down, down \/ Carries(m) \/ (WireFree /\ sent[m] = 0)
    PROVE  (~down \/ Carries(m)) => Carries(m)'
<1> SUFFICES ASSUME ~down \/ Carries(m) PROVE Carries(m)'
  OBVIOUS
<1>1. /\ down => toPeer' = toPeer
      /\ ~down => toPeer' = Append(toPeer, [m |-> m, f |-> Kind(m, sent[m] + 1)])
      /\ sent'[m] = sent[m] + 1 /\ sent[m] \in Nat
  BY Writes DEF Stages
<1>2. Read(m)' = Read(m) /\ Len(toPeer) \in Nat
  BY LenProperties DEF Read, Stages
<1>3. CASE Carries(m)
  <2>1. /\ (incoming # NoContent => incoming.m = m) /\ Read(m) + Len(toPeer) > 0
        /\ Read(m) + Len(toPeer) <= sent[m] /\ (~down => Read(m) + Len(toPeer) = sent[m])
        /\ Read(m) < Pieces[m] + 2 /\ (m \in Bare => Read(m) <= 1)
        /\ \A i \in 1..Len(toPeer) : toPeer[i] = [m |-> m, f |-> Kind(m, Read(m) + i)]
    BY <1>3 DEF Carries
  <2>2. Read(m) \in Int
    BY <1>3, LengthOf, LenProperties DEF Receiving, Carries, Read
  <2>3. CASE down
    BY <1>1, <1>2, <2>1, <2>2, <2>3 DEF Carries
  <2>4. CASE ~down
    <3>1. /\ Len(toPeer') = Len(toPeer) + 1
          /\ \A i \in 1..Len(toPeer) : toPeer'[i] = toPeer[i]
          /\ toPeer'[Len(toPeer) + 1] = [m |-> m, f |-> Kind(m, sent[m] + 1)]
      <4> DEFINE S == [m : Messages, f : FrameKinds]
                 last == [m |-> m, f |-> Kind(m, sent[m] + 1)]
      <4>1. toPeer \in Seq(S) /\ last \in S /\ toPeer' = Append(toPeer, last)
        BY <1>1, <2>4 DEF Stages, FrameKinds, Kind, Full
      <4> HIDE DEF S, last
      <4>2. /\ Len(toPeer') = Len(toPeer) + 1 /\ toPeer'[Len(toPeer) + 1] = last
            /\ \A i \in 1..Len(toPeer) : toPeer'[i] = toPeer[i]
        BY <4>1, AppendProperties
      <4> QED
        BY <4>2 DEF last
    <3>2. sent[m] + 1 = Read(m) + (Len(toPeer) + 1)
      BY <1>1, <1>2, <2>1, <2>2, <2>4
    <3>3. \A i \in 1..Len(toPeer') : toPeer'[i] = [m |-> m, f |-> Kind(m, Read(m) + i)]
      <4>1. SUFFICES ASSUME NEW i \in 1..Len(toPeer')
                     PROVE  toPeer'[i] = [m |-> m, f |-> Kind(m, Read(m) + i)]
        OBVIOUS
      <4>2. i \in 1..Len(toPeer) \/ i = Len(toPeer) + 1
        BY <1>2, <3>1
      <4> QED
        BY <2>1, <3>1, <3>2, <4>2
    <3>4. Read(m) + Len(toPeer') = sent'[m] /\ Read(m) + Len(toPeer') > 0
      BY <1>1, <1>2, <2>1, <2>2, <2>4, <3>1
    <3> QED
      BY <1>1, <1>2, <2>1, <2>2, <3>3, <3>4 DEF Carries
  <2> QED
    BY <2>3, <2>4
<1>4. CASE ~down /\ ~Carries(m)
  <2>1. WireFree /\ sent[m] = 0 /\ Read(m) = 0
    BY <1>4 DEF WireFree, Read
  <2>2. toPeer' = <<[m |-> m, f |-> Kind(m, 1)]>>
    BY <1>1, <1>4, <2>1 DEF WireFree
  <2>3. Len(toPeer') = 1 /\ toPeer'[1] = [m |-> m, f |-> Kind(m, 1)]
    BY <2>2
  <2>4. incoming = NoContent /\ Pieces[m] \in Nat
    BY <2>1, LengthOf DEF WireFree
  <2> QED
    BY <1>1, <1>2, <2>1, <2>3, <2>4 DEF Carries
<1> QED
  BY <1>3, <1>4

\* the broker takes the next frame of the content, the last one at its end
LEMMA Consumes ==
    ASSUME Stages, Sent, Receiving, NEW m \in Messages, Carries(m), BrokerReads
    PROVE  \/ Carries(m)' /\ UNCHANGED <<taken, offence, toClient>>
           \/ /\ WireFree' /\ sent[m] = Length(m) /\ Length(m) = Pieces[m] + 2
              /\ taken' = IF m \in Unroutable \cup Nacked THEN taken ELSE taken \cup {m}
              /\ Send(Answer(m)) /\ UNCHANGED offence
           \/ /\ m \in Bare /\ sent[m] # 0 /\ offence' = TRUE
              /\ Send(<<[f |-> "close", m |-> None]>>) /\ UNCHANGED taken
<1>1. PICK n \in Messages, k \in FrameKinds :
              /\ toPeer[1] = [m |-> n, f |-> k] /\ ~offence
              /\ Len(toPeer) \in Nat \ {0} /\ Len(toPeer') = Len(toPeer) - 1
              /\ \A i \in 1..Len(toPeer') : toPeer'[i] = toPeer[i + 1]
              /\ \/ /\ k = Full(Read(n) + 1) /\ (incoming # NoContent => incoming.m = n)
                    /\ incoming' # NoContent /\ incoming'.m = n /\ Read(n)' = Read(n) + 1
                    /\ Read(n)' < Pieces[n] + 2 /\ Receiving'
                    /\ UNCHANGED <<taken, offence, toClient>>
                 \/ /\ k = Full(Read(n) + 1) /\ (incoming # NoContent => incoming.m = n)
                    /\ incoming' = NoContent /\ Read(n) + 1 = Pieces[n] + 2
                    /\ taken' = IF n \in Unroutable \cup Nacked THEN taken ELSE taken \cup {n}
                    /\ Send(Answer(n)) /\ UNCHANGED offence
                 \/ /\ k # Full(Read(n) + 1) \/ (incoming # NoContent /\ incoming.m # n)
                    /\ offence' = TRUE /\ Send(<<[f |-> "close", m |-> None]>>)
                    /\ UNCHANGED <<incoming, taken>>
  BY Reads
<1>2. /\ (incoming # NoContent => incoming.m = m)
      /\ Read(m) + Len(toPeer) <= sent[m] /\ (~down => Read(m) + Len(toPeer) = sent[m])
      /\ Read(m) < Pieces[m] + 2 /\ (m \in Bare => Read(m) <= 1)
      /\ \A i \in 1..Len(toPeer) : toPeer[i] = [m |-> m, f |-> Kind(m, Read(m) + i)]
  BY DEF Carries
<1>3. n = m /\ k = Kind(m, Read(m) + 1)
  <2>1. toPeer[1] = [m |-> m, f |-> Kind(m, Read(m) + 1)] /\ toPeer[1] = [m |-> n, f |-> k]
    BY <1>1, <1>2
  <2>2. toPeer[1].m = m /\ toPeer[1].m = n /\ toPeer[1].f = k /\ toPeer[1].f = Kind(m, Read(m) + 1)
    BY <2>1
  <2> QED
    BY <2>2
<1>4. Read(m) \in Nat /\ sent[m] \in Nat /\ sent[m] <= Length(m)
  BY <1>2, LengthOf, LenProperties DEF Receiving, Read, Stages, Sent
<1>5. sent' = sent /\ down' = down /\ toPeer' = Tail(toPeer)
  BY DEF BrokerReads, stream
<1>6. CASE incoming' # NoContent /\ k = Full(Read(n) + 1) /\ UNCHANGED <<taken, offence, toClient>>
           /\ incoming'.m = n /\ Read(n)' = Read(n) + 1 /\ Read(n)' < Pieces[n] + 2
  <2>1. m \in Bare => Read(m) = 0
    <3>1. SUFFICES ASSUME m \in Bare, Read(m) = 1 PROVE FALSE
      BY <1>2, <1>4
    <3> QED
      BY <1>3, <1>6, <3>1 DEF Kind, Full
  <2>2. \A i \in 1..Len(toPeer') : toPeer'[i] = [m |-> m, f |-> Kind(m, Read(m)' + i)]
    <3>1. SUFFICES ASSUME NEW i \in 1..Len(toPeer')
                   PROVE  toPeer'[i] = [m |-> m, f |-> Kind(m, Read(m)' + i)]
      OBVIOUS
    <3>2. i + 1 \in 1..Len(toPeer) /\ toPeer'[i] = toPeer[i + 1] /\ Read(m) + (i + 1) = Read(m)' + i
      BY <1>1, <1>3, <1>4, <1>6
    <3>3. toPeer[i + 1] = [m |-> m, f |-> Kind(m, Read(m) + (i + 1))]
      BY <1>2, <3>2
    <3> QED
      BY <3>2, <3>3
  <2>3. /\ Read(m)' + Len(toPeer') > 0 /\ Read(m)' + Len(toPeer') <= sent'[m]
        /\ (~down' => Read(m)' + Len(toPeer') = sent'[m])
    BY <1>1, <1>2, <1>3, <1>4, <1>5, <1>6
  <2>4. Carries(m)'
    BY <1>3, <1>4, <1>6, <2>1, <2>2, <2>3 DEF Carries
  <2> QED
    BY <1>6, <2>4
<1>7. CASE /\ incoming' = NoContent /\ Read(n) + 1 = Pieces[n] + 2
           /\ taken' = IF n \in Unroutable \cup Nacked THEN taken ELSE taken \cup {n}
           /\ Send(Answer(n)) /\ UNCHANGED offence
  <2>1. sent[m] = Length(m) /\ Length(m) = Pieces[m] + 2 /\ Len(toPeer') = 0
    BY <1>1, <1>2, <1>3, <1>4, <1>7, LengthOf
  <2>2. toPeer' = <<>>
    BY <1>1, <1>5, <2>1, EmptySeq, HeadTailProperties DEF Stages
  <2> QED
    BY <1>3, <1>7, <2>1, <2>2 DEF WireFree
<1>8. CASE /\ k # Full(Read(n) + 1) \/ (incoming # NoContent /\ incoming.m # n)
           /\ offence' = TRUE /\ Send(<<[f |-> "close", m |-> None]>>) /\ UNCHANGED <<incoming, taken>>
  <2>1. Kind(m, Read(m) + 1) # Full(Read(m) + 1)
    BY <1>2, <1>3, <1>8
  <2>2. m \in Bare
    BY <2>1 DEF Kind
  <2>3. sent[m] # 0
    BY <1>1, <1>2, <1>4
  <2> QED
    BY <1>8, <2>2, <2>3
<1> QED
  BY <1>1, <1>6, <1>7, <1>8

\* history flags stay, and frames are only added
LEMMA Grows ==
    ASSUME Stages, Sent, Scheduled, [Next]_vars
    PROVE  /\ parted => parted'
           /\ offence => offence'
           /\ crashed => crashed'
           /\ down => down'
           /\ \A m \in Messages : sent[m] <= sent'[m]
           /\ \A m \in Messages : sent'[m] # sent[m] => WriteNext(m)
<1>1. ASSUME NEW m \in Messages, sent[m] < Length(m), WriteNext(m)
      PROVE  \A n \in Messages : sent[n] <= sent'[n] /\ (sent'[n] # sent[n] => WriteNext(n))
  <2>1. sent' = [sent EXCEPT ![m] = @ + 1]
    BY <1>1 DEF WriteNext
  <2>2. sent'[m] = sent[m] + 1 /\ sent[m] <= sent'[m] /\ \A n \in Messages \ {m} : sent'[n] = sent[n]
    BY <2>1 DEF Stages
  <2>3. \A n \in Messages : sent[n] \in Nat
    BY DEF Stages
  <2> QED
    BY <1>1, <2>2, <2>3
<1>2. ASSUME NEW m \in Messages, Register(m) \/ SendFrame(m)
      PROVE  \A n \in Messages : sent[n] <= sent'[n] /\ (sent'[n] # sent[n] => WriteNext(n))
  <2>1. WriteNext(m) /\ sent[m] < Length(m)
    BY <1>2, Registers DEF Register, SendFrame, Sent
  <2> QED
    BY <1>1, <2>1
<1>3. ASSUME sent' = sent
      PROVE  \A n \in Messages : sent[n] <= sent'[n] /\ (sent'[n] # sent[n] => WriteNext(n))
  BY <1>3 DEF Stages
<1>4. sent' = sent \/ \E m \in Messages : Register(m) \/ SendFrame(m)
  BY DEF Next, Ticks, Continues, PipelineEnds, HandleAnswer, HandleStray, HandleClose,
     Take, Settle, WriteRejected, CloseRefused, Finish, Publish, BodyFails, Close, ChannelOpened, Decode,
     ConnectionFails, BrokerReads, vars, stream
<1>5. \A n \in Messages : sent[n] <= sent'[n] /\ (sent'[n] # sent[n] => WriteNext(n))
  BY <1>2, <1>3, <1>4
<1>6. (parted => parted') /\ (offence => offence')
  <2>1. \/ UNCHANGED <<parted, offence>>
        \/ parted' = parted /\ (offence' = TRUE \/ offence' = offence)
        \/ offence' = offence /\ \E k : parted' = (parted \/ toClient[k].f = "return")
    <3>1. Decode => offence' = offence /\ \E k : parted' = (parted \/ toClient[k].f = "return")
      BY DEF Decode, broker
    <3>2. BrokerReads => parted' = parted /\ (offence' = TRUE \/ offence' = offence)
      BY DEF BrokerReads
    <3>3. Decode \/ BrokerReads \/ UNCHANGED <<parted, offence>>
      BY DEF Next, Ticks, Continues, Register, PipelineEnds, HandleAnswer, HandleStray, HandleClose,
         Take, Settle, WriteRejected, CloseRefused, Finish, Publish, SendFrame, BodyFails, Close, ChannelOpened,
         ConnectionFails, vars, broker
    <3> QED
      BY <3>1, <3>2, <3>3
  <2>2. ASSUME parted PROVE parted'
    <3>1. CASE \E k : parted' = (parted \/ toClient[k].f = "return")
      <4>1. PICK k : parted' = (parted \/ toClient[k].f = "return")
        BY <3>1
      <4> QED
        BY <2>2, <4>1, Zenon
    <3> QED
      BY <2>1, <2>2, <3>1
  <2>3. ASSUME offence PROVE offence'
    BY <2>1, <2>3
  <2> QED
    BY <2>2, <2>3
<1>7. (down => down') /\ (crashed => crashed')
  <2>1. (down' = down \/ \E rest : GoDown(rest)) /\ (~crashed \/ crashed' = crashed)
    BY DEF Next, Ticks, Continues, Register, PipelineEnds, HandleAnswer, HandleStray, HandleClose, Tick,
       Take, Settle, WriteRejected, CloseRefused, Finish, Publish, SendFrame, BodyFails, Close, ChannelOpened, Decode,
       ConnectionFails, BrokerReads, vars
  <2> QED
    BY <2>1 DEF GoDown
<1> QED
  BY <1>5, <1>6, <1>7

\* the client writes for the current message alone
LEMMA Writing ==
    ASSUME Stages, Sent, Scheduled, Receiving, Phase, NEW m \in Messages, Register(m) \/ SendFrame(m),
           ~parted, ~down
    PROVE  /\ sent[m] < Length(m) /\ WriteNext(m) /\ ~crashed
           /\ UNCHANGED <<current, toClient, incoming, offence, down, taken>>
           /\ Register(m) => Unsent
           /\ SendFrame(m) => Sending \/ Offended
           /\ ~offence => m = current /\ Carries(m)'
<1>1. UNCHANGED <<current, toClient, incoming, offence, down, taken>> /\ WriteNext(m) /\ ~crashed
  BY DEF Register, SendFrame, broker, Tick, Turn
<1>2. CASE Register(m)
  <2>1. m = current /\ call[m] = "scheduled" /\ sent[m] = 0 /\ sent[m] < Length(m)
    BY <1>2, Registers
  <2>2. Unsent
    BY <1>1, <2>1, LengthOf DEF Phase, Sending, Offended, Answering, Returning, Settling
  <2>3. Carries(m)'
    BY <1>1, <2>1, <2>2, Extends DEF Unsent
  <2>4. ~SendFrame(m)
    BY <1>2, <2>1, <2>2 DEF SendFrame, Unsent
  <2> QED
    BY <1>1, <2>1, <2>2, <2>3, <2>4
<1>3. CASE SendFrame(m)
  <2>1. m \in sending /\ sent[m] < Length(m)
    BY <1>3 DEF SendFrame, Sent
  <2>2. Sending \/ Offended
    BY <1>1, <2>1 DEF Phase, Unsent, Answering, Returning, Settling, Complete
  <2>3. ~Register(m)
    BY <2>1, Registers
  <2>4. ~offence => m = current
    BY <2>1, <2>2 DEF Sending, Offended
  <2>5. ~offence => Carries(m)'
    BY <1>1, <2>1, <2>2, <2>4, Extends DEF Sending, Offended
  <2> QED
    BY <1>1, <1>3, <2>1, <2>2, <2>3, <2>4, <2>5
<1> QED
  BY <1>2, <1>3

\* nothing else touches the wire
LEMMA Untouched ==
    ASSUME [Next]_vars, ~BrokerReads, \A m \in Messages : ~Register(m) /\ ~SendFrame(m)
    PROVE  UNCHANGED <<toPeer, incoming, sent, offence, taken>>
BY DEF Next, Ticks, Continues, PipelineEnds, HandleAnswer, HandleStray, HandleClose,
       Take, Settle, WriteRejected, CloseRefused, Finish, Publish, BodyFails, Close, ChannelOpened, Decode,
       ConnectionFails, vars, broker, stream

\* the wire holds the frames of one message
LEMMA WireNext == ASSUME Stages, Sent, Scheduled, Receiving, Wire, Phase, [Next]_vars PROVE Wire'
<1>1. CASE parted \/ offence
  BY <1>1, Grows DEF Wire
<1>2. CASE ~parted /\ ~offence /\ BrokerReads
  <2>1. ~WireFree
    BY <1>2 DEF BrokerReads, WireFree
  <2>2. PICK m \in Messages : Carries(m)
    BY <1>2, <2>1 DEF Wire
  <2>3. Carries(m)' \/ WireFree' \/ offence'
    BY <1>2, <2>2, Consumes
  <2> QED
    BY <2>3 DEF Wire
<1>3. ASSUME ~parted, ~offence, NEW m \in Messages, Register(m) \/ SendFrame(m) PROVE Wire'
  <2>1. CASE ~down
    BY <1>3, <2>1, Writing DEF Wire
  <2>2. CASE down
    <3>1. toPeer' = toPeer /\ incoming' = incoming /\ down' = down
      BY <1>3, <2>2 DEF Register, SendFrame, broker, WriteNext, Write
    <3>2. CASE WireFree
      BY <3>1, <3>2 DEF Wire, WireFree
    <3>3. ASSUME NEW n \in Messages, Carries(n) PROVE Carries(n)'
      <4>1. Read(n)' = Read(n) /\ sent[n] <= sent'[n] /\ sent'[n] \in Nat /\ sent[n] \in Nat
        BY <3>1, Grows, StagesNext DEF Read, Stages
      <4>2. Read(n) \in Int /\ Len(toPeer) \in Nat
        BY <3>3, LengthOf, LenProperties DEF Receiving, Carries, Read, Stages
      <4>3. Read(n) + Len(toPeer) <= sent'[n]
        BY <3>3, <4>1, <4>2 DEF Carries
      <4> QED
        BY <2>2, <3>1, <3>3, <4>1, <4>3 DEF Carries
    <3> QED
      BY <1>3, <3>2, <3>3 DEF Wire
  <2> QED
    BY <2>1, <2>2
<1>4. CASE ~parted /\ ~offence /\ ~BrokerReads /\ \A m \in Messages : ~Register(m) /\ ~SendFrame(m)
  <2>1. UNCHANGED <<toPeer, incoming, sent, offence>> /\ (down => down')
    BY <1>4, Untouched, Grows
  <2>2. \A m \in Messages : Carries(m) => Carries(m)'
    BY <2>1 DEF Carries, Read
  <2> QED
    BY <1>4, <2>1, <2>2 DEF Wire, WireFree
<1> QED
  BY <1>1, <1>2, <1>3, <1>4

LEMMA BegunKept ==
    ASSUME Stages, Sent, Scheduled, [Next]_vars, NEW some \in SUBSET Messages, Begun(some)
    PROVE  Begun(some)'
<1>1. PICK m \in some : sent[m] # 0
  BY DEF Begun
<1>2. sent[m] <= sent'[m] /\ sent[m] \in Nat /\ sent'[m] \in Nat
  BY Grows, StagesNext DEF Stages
<1> QED
  BY <1>1, <1>2 DEF Begun

\* a broker is surprised only by a content without a header
LEMMA ContentsNext ==
    ASSUME Stages, Sent, Scheduled, Receiving, Wire, ContentsWhole, [Next]_vars PROVE ContentsWhole'
<1>1. CASE parted
  BY <1>1, Grows DEF ContentsWhole
<1>2. CASE Begun(Bare)
  BY <1>2, BegunKept, PublisherAssumption DEF ContentsWhole
<1>3. CASE ~parted /\ ~offence /\ BrokerReads
  <2>1. ~WireFree
    BY <1>3 DEF BrokerReads, WireFree
  <2>2. PICK m \in Messages : Carries(m)
    BY <1>3, <2>1 DEF Wire
  <2>3. sent' = sent
    BY <1>3 DEF BrokerReads, stream
  <2>4. offence' => offence \/ (m \in Bare /\ sent'[m] # 0)
    BY <1>3, <2>2, <2>3, Consumes
  <2> QED
    BY <1>3, <2>4 DEF ContentsWhole, Begun
<1>4. CASE ~offence /\ ~BrokerReads
  <2>1. offence' = offence
    BY <1>4 DEF Next, Ticks, Continues, Register, PipelineEnds, HandleAnswer, HandleStray, HandleClose,
       Take, Settle, WriteRejected, CloseRefused, Finish, Publish, SendFrame, BodyFails, Close, ChannelOpened, Decode,
       ConnectionFails, vars, broker
  <2> QED
    BY <1>4, <2>1 DEF ContentsWhole
<1> QED
  BY <1>1, <1>2, <1>3, <1>4 DEF ContentsWhole

-----------------------------------------------------------------------------
\* the jobs of an answer, and what is first among them
LEMMA JobsOf ==
    ASSUME NEW m \in Messages
    PROVE  /\ AnswerJobs(m) # <<>> /\ Head(AnswerJobs(m)).type = "method"
           /\ Head(AnswerJobs(m)).f = "nack" => m \in Nacked
           /\ Head(AnswerJobs(m)).f = "return" =>
                 m \in Unroutable /\ Tail(AnswerJobs(m)) = <<Method("ack", m)>>
           /\ Head(AnswerJobs(m)).f = "ack" =>
                 m \notin Unroutable \cup Nacked /\ Tail(AnswerJobs(m)) = <<>>
           /\ Head(AnswerJobs(m)).f \in {"nack", "return", "ack"}
<1>1. CASE m \in Nacked
  BY <1>1 DEF AnswerJobs, Method
<1>2. CASE m \notin Nacked /\ m \in Unroutable
  BY <1>2 DEF AnswerJobs, Method
<1>3. CASE m \notin Nacked /\ m \notin Unroutable
  BY <1>3 DEF AnswerJobs, Method
<1> QED
  BY <1>1, <1>2, <1>3

\* a method that is handled is the first of the answer under way
LEMMA Handles ==
    ASSUME Stages, Scheduled, Phase, ~parted, ~down, NEW job, Tick(job), job.type = "method"
    PROVE  \/ Offended /\ job = Method("close", None)
           \/ /\ Answering /\ job = Head(AnswerJobs(current)) /\ toClient = <<>>
              /\ Tail(ticks) = Tail(AnswerJobs(current)) /\ Pending = {current}
           \/ Returning /\ job = Method("ack", current) /\ Tail(ticks) = <<>> /\ Pending = {}
<1>1. /\ ~crashed /\ ticks # <<>> /\ job = Head(ticks) /\ job = ticks[1] /\ Len(ticks) \in Nat \ {0}
  BY Ticked
<1>2. ~NoAnswers
  BY <1>1 DEF NoAnswers
<1>3. \A m \in Messages : call[m] = "pending" => m = current
  BY DEF Scheduled
<1>4. CASE Offended
  <2>1. ticks = <<Method("close", None)>>
    BY <1>2, <1>4 DEF Offended, Coming
  <2> QED
    BY <1>1, <1>4, <2>1
<1>5. CASE Answering
  <2>1. toClient = <<>> /\ ticks = AnswerJobs(current) /\ call[current] = "pending"
    BY <1>2, <1>5 DEF Answering, Coming
  <2>2. current \in Messages
    BY <1>5 DEF Answering, Complete, Stages
  <2>3. Pending = {current}
    BY <1>3, <2>1, <2>2 DEF Pending
  <2> QED
    BY <1>1, <1>5, <2>1, <2>3
<1>6. CASE Returning
  <2>1. ticks = <<Method("ack", current)>> /\ call[current] = "returned"
    BY <1>6 DEF Returning
  <2>2. Pending = {}
    BY <1>3, <2>1 DEF Pending
  <2> QED
    BY <1>1, <1>6, <2>1, <2>2
<1> QED
  BY <1>1, <1>2, <1>4, <1>5, <1>6 DEF Phase, Unsent, Sending, Settling, NothingComing

\* what the client does while the content and its answer are on their way
LEMMA PhaseKept ==
    ASSUME Phase, ~parted, ~down, ~crashed, UNCHANGED <<parted, down, crashed>>,
           UNCHANGED <<toClient, ticks, toPeer, incoming, offence, sent, sending, call, current, taken>>,
           draining' => draining \/ ticks = <<>>
    PROVE  Phase'
<1>1. \A m \in Messages : Carries(m) => Carries(m)'
  BY DEF Carries, Read
<1>2. NoAnswers => NoAnswers'
  BY DEF NoAnswers
<1>3. CASE Unsent
  BY <1>2, <1>3 DEF Phase, Unsent, WireFree, NothingComing
<1>4. CASE Sending
  BY <1>2, <1>4 DEF Phase, Sending, NothingComing, Carries, Read, Length
<1>5. CASE Offended
  <2>1. Coming(<<[f |-> "close", m |-> None]>>, <<Method("close", None)>>)'
    BY <1>2, <1>5 DEF Coming, Offended
  <2> QED
    BY <1>5, <2>1 DEF Phase, Offended
<1>6. CASE Answering
  <2>1. (toClient = Answer(current) /\ NoAnswers)' \/ (toClient = <<>> /\ ticks = AnswerJobs(current) /\ ~draining)'
    <3>1. AnswerJobs(current) # <<>>
      BY DEF AnswerJobs
    <3> QED
      BY <1>2, <1>6, <3>1 DEF Answering, Coming, AnswerJobs, Answer
  <2>2. Coming(Answer(current), AnswerJobs(current))'
    BY <2>1 DEF Coming
  <2> QED
    BY <1>6, <2>2 DEF Phase, Answering, Complete, WireFree, Confirmed
<1>7. CASE Returning
  BY <1>7 DEF Phase, Returning, Complete, WireFree
<1>8. CASE Settling
  BY <1>2, <1>8 DEF Phase, Settling, Complete, WireFree, NothingComing
<1> QED
  BY <1>3, <1>4, <1>5, <1>6, <1>7, <1>8 DEF Phase

\* a content goes from one stage to the next
LEMMA PhaseNext ==
    ASSUME Stages, Queued, Sent, Scheduled, Receiving, Wire, Phase, [Next]_vars
    PROVE  Phase'
<1>1. CASE parted \/ down \/ crashed
  BY <1>1, Grows DEF Phase
<1> SUFFICES ASSUME ~parted, ~down, ~crashed PROVE Phase'
  BY <1>1
<1>2. ASSUME NEW m \in Messages, Register(m) PROVE Phase'
  <2>1. /\ m = current /\ Carries(m)' /\ Unsent /\ UNCHANGED <<current, toClient, incoming, offence>>
        /\ sent[m] < Length(m) /\ WriteNext(m)
    BY <1>2, Writing, Registers DEF Unsent
  <2>2. call'[m] = "pending" /\ ticks' = <<>>
    BY <1>2, Registers DEF Register, Stages
  <2>3. sending' \subseteq {m}
    BY <2>1, Writes DEF Unsent
  <2>4. current' # None
    BY <2>1, LengthOf
  <2>5. NothingComing'
    BY <2>1, <2>2 DEF Unsent, NothingComing, NoAnswers
  <2>6. Carries(current)'
    BY <2>1
  <2> QED
    BY <2>1, <2>2, <2>3, <2>4, <2>5, <2>6 DEF Phase, Sending, Unsent
<1>3. ASSUME NEW m \in Messages, SendFrame(m) PROVE Phase'
  <2>1. /\ (Sending \/ Offended) /\ WriteNext(m) /\ sent[m] < Length(m)
        /\ UNCHANGED <<current, toClient, incoming, offence>>
    BY <1>3, Writing
  <2>2. ticks' = ticks /\ call' = call /\ draining' = FALSE /\ m \in sending
    BY <1>3 DEF SendFrame, Turn, BeginTurn
  <2>3. CASE Offended
    BY <2>1, <2>2, <2>3 DEF Phase, Offended, Coming, NoAnswers
  <2>4. CASE Sending
    <3>1. m = current /\ Carries(m)'
      BY <1>3, <2>4, Writing DEF Sending
    <3>2. Carries(current)' /\ NothingComing'
      BY <2>1, <2>2, <2>4, <3>1 DEF Sending, NothingComing, NoAnswers
    <3>3. call[current] = "pending"
      BY <2>2, <2>4 DEF Sending
    <3>4. sending' \subseteq {current}
      BY <2>1, <2>4, <3>1, Writes DEF Sending
    <3> QED
      BY <2>1, <2>2, <2>4, <3>2, <3>3, <3>4 DEF Phase, Sending
  <2> QED
    BY <2>1, <2>3, <2>4
<1>4. ASSUME NEW m \in Messages, BodyFails(m) PROVE Phase'
  <2>1. /\ m \in sending /\ sending' = sending \ {m} /\ draining' = FALSE
        /\ call' = [call EXCEPT ![m] = IF @ = "pending" THEN "rejected" ELSE @]
        /\ UNCHANGED <<current, sent, ticks, toPeer, toClient, incoming, offence, down>>
    BY <1>4 DEF BodyFails, Turn, BeginTurn, broker
  <2>2. \A n \in Messages : call'[n] = IF n = m /\ call[n] = "pending" THEN "rejected" ELSE call[n]
    BY <2>1 DEF Stages
  <2>3. sent[m] < Length(m) /\ Length(m)' = Length(m)
    BY <2>1 DEF Sent, Length
  <2>4. Sending \/ Offended
    BY <2>1 DEF Phase, Unsent, Answering, Returning, Settling, Complete
  <2>5. CASE Sending
    <3>1. m = current /\ sending' = {} /\ NothingComing'
      BY <2>1, <2>5 DEF Sending, NothingComing, NoAnswers
    <3>2. Carries(current)'
      BY <2>1, <2>5 DEF Sending, Carries, Read
    <3>3. call'[current] = "rejected"
      BY <2>2, <2>5, <3>1 DEF Sending
    <3> QED
      BY <2>1, <2>3, <2>5, <3>1, <3>2, <3>3 DEF Phase, Sending
  <2>6. CASE Offended
    <3>1. call'[current] \in {"pending", "rejected"}
      BY <2>2, <2>6 DEF Offended, Stages
    <3> QED
      BY <2>1, <2>6, <3>1 DEF Phase, Offended, Coming, NoAnswers
  <2> QED
    BY <2>4, <2>5, <2>6
<1>5. CASE BrokerReads
  <2>1. /\ UNCHANGED <<current, call, sent, sending, ticks, draining, down, crashed, parted>>
        /\ toPeer # <<>> /\ ~offence
    BY <1>5 DEF BrokerReads, stream
  <2>2. Sending
    BY <2>1 DEF Phase, Unsent, Offended, Answering, Returning, Settling, Complete, WireFree
  <2>3. /\ current \in Messages /\ Carries(current) /\ toClient = <<>> /\ NoAnswers
    BY <2>2 DEF Sending, NothingComing, Stages
  <2>4. NoAnswers'
    BY <2>1, <2>3 DEF NoAnswers
  <2>5. CASE Carries(current)' /\ UNCHANGED <<taken, offence, toClient>>
    BY <2>1, <2>2, <2>4, <2>5 DEF Phase, Sending, NothingComing, Length
  <2>6. CASE /\ WireFree' /\ sent[current] = Length(current) /\ Length(current) = Pieces[current] + 2
             /\ taken' = IF current \in Unroutable \cup Nacked THEN taken ELSE taken \cup {current}
             /\ Send(Answer(current)) /\ UNCHANGED offence
    <3>1. current \notin sending /\ sent[current] > 0 /\ ~(sent[current] < Length(current))
      BY <2>3, <2>6, LengthOf DEF Sent
    <3>2. sending = {} /\ call[current] = "pending"
      BY <2>2, <3>1 DEF Sending
    <3>3. toClient' = Answer(current)
      BY <2>3, <2>6, Sends, ConcatEmptySeq DEF Send
    <3>4. Coming(Answer(current), AnswerJobs(current))'
      BY <2>1, <2>4, <3>3 DEF Coming, Answer
    <3>5. Confirmed(current)'
      BY <2>1, <2>6 DEF Confirmed
    <3> QED
      BY <2>1, <2>3, <2>6, <3>1, <3>2, <3>4, <3>5, LengthOf DEF Phase, Answering, Complete
  <2>7. CASE offence' = TRUE /\ Send(<<[f |-> "close", m |-> None]>>)
    <3>1. toClient' = <<[f |-> "close", m |-> None]>>
      BY <2>3, <2>7, Sends, ConcatEmptySeq DEF Send
    <3> QED
      BY <2>1, <2>2, <2>4, <2>7, <3>1 DEF Phase, Offended, Sending, Coming
  <2>8. \/ Carries(current)' /\ UNCHANGED <<taken, offence, toClient>>
        \/ /\ WireFree' /\ sent[current] = Length(current) /\ Length(current) = Pieces[current] + 2
           /\ taken' = IF current \in Unroutable \cup Nacked THEN taken ELSE taken \cup {current}
           /\ Send(Answer(current)) /\ UNCHANGED offence
        \/ offence' = TRUE /\ Send(<<[f |-> "close", m |-> None]>>)
    <3>1. PICK n \in Messages : n = current /\ Carries(n)
      BY <2>3
    <3>2. \/ Carries(n)' /\ UNCHANGED <<taken, offence, toClient>>
          \/ /\ WireFree' /\ sent[n] = Length(n) /\ Length(n) = Pieces[n] + 2
             /\ taken' = IF n \in Unroutable \cup Nacked THEN taken ELSE taken \cup {n}
             /\ Send(Answer(n)) /\ UNCHANGED offence
          \/ offence' = TRUE /\ Send(<<[f |-> "close", m |-> None]>>)
      BY <1>5, <3>1, Consumes
    <3>3. n = current'
      BY <2>1, <3>1
    <3> QED
      BY <3>1, <3>2, <3>3
  <2> QED
    BY <2>5, <2>6, <2>7, <2>8
<1>6. CASE Decode
  <2>1. PICK k \in 1..Len(toClient) :
              /\ parted' = (parted \/ toClient[k].f = "return")
              /\ ticks = <<>> /\ draining' = FALSE
              /\ ticks' = [i \in 1..k |-> Method(toClient[i].f, toClient[i].m)]
              /\ toClient' = SubSeq(toClient, k + 1, Len(toClient))
              /\ toClient' \in Seq(Answers) /\ ticks' \in Seq(Jobs) /\ Len(ticks') = k
              /\ Len(toClient) \in Nat
    BY <1>6, Decodes
  <2>2. /\ UNCHANGED <<current, call, sent, sending, toPeer, incoming, offence, taken>>
        /\ ~(current # None /\ call[current] \in {"acked", "returned", "rejected"})
    BY <1>6 DEF Decode, Turn, BeginTurn, Quiet, Continuations, Answered, stream, broker
  <2>3. toClient # <<>>
    <3>1. Len(toClient) # 0
      BY <2>1
    <3> QED
      BY <3>1
  <2>4. CASE Offended
    <3>1. toClient = <<[f |-> "close", m |-> None]>>
      BY <2>3, <2>4 DEF Offended, Coming
    <3>2. Len(toClient) = 1 /\ k = 1 /\ toClient[1] = [f |-> "close", m |-> None]
      BY <2>1, <3>1
    <3>3. ticks' = <<Method("close", None)>> /\ toClient' = <<>>
      BY <2>1, <3>2
    <3> QED
      BY <2>1, <2>2, <2>4, <3>3 DEF Phase, Offended, Coming
  <2>5. CASE Answering
    <3>1. toClient = Answer(current)
      BY <2>3, <2>5 DEF Answering, Coming
    <3>2. ~parted' => ticks' = AnswerJobs(current) /\ toClient' = <<>>
      <4>1. CASE current \in Nacked
        <5>1. toClient = <<[f |-> "nack", m |-> current]>>
          BY <3>1, <4>1 DEF Answer
        <5>2. Len(toClient) = 1 /\ k = 1 /\ toClient[1] = [f |-> "nack", m |-> current]
          BY <2>1, <5>1
        <5> QED
          BY <2>1, <4>1, <5>2 DEF AnswerJobs
      <4>2. CASE current \notin Nacked /\ current \in Unroutable
        <5>1. toClient = <<[f |-> "return", m |-> current], [f |-> "ack", m |-> current]>>
          BY <3>1, <4>2 DEF Answer
        <5>2. /\ Len(toClient) = 2 /\ toClient[1] = [f |-> "return", m |-> current]
              /\ toClient[2] = [f |-> "ack", m |-> current] /\ k \in 1..2
          BY <2>1, <5>1
        <5>3. CASE k = 1
          <6>1. toClient[k].f = "return"
            BY <5>2, <5>3
          <6>2. parted'
            BY <2>1, <6>1, Zenon
          <6> QED
            BY <6>2
        <5>4. CASE k = 2
          <6>1. toClient' = <<>>
            BY <2>1, <5>2, <5>4
          <6>2. ticks' = <<Method("return", current), Method("ack", current)>>
            <7>1. ticks' = [i \in 1..2 |-> Method(toClient[i].f, toClient[i].m)]
              BY <2>1, <5>4
            <7>2. \A i \in 1..2 : Method(toClient[i].f, toClient[i].m) =
                                    <<Method("return", current), Method("ack", current)>>[i]
              BY <5>2
            <7>3. ticks' = [i \in 1..2 |-> <<Method("return", current), Method("ack", current)>>[i]]
              BY <7>1, <7>2
            <7> QED
              BY <7>3
          <6> QED
            BY <4>2, <6>1, <6>2 DEF AnswerJobs
        <5> QED
          BY <5>2, <5>3, <5>4
      <4>3. CASE current \notin Nacked /\ current \notin Unroutable
        <5>1. toClient = <<[f |-> "ack", m |-> current]>>
          BY <3>1, <4>3 DEF Answer
        <5>2. Len(toClient) = 1 /\ k = 1 /\ toClient[1] = [f |-> "ack", m |-> current]
          BY <2>1, <5>1
        <5> QED
          BY <2>1, <4>3, <5>2 DEF AnswerJobs
      <4> QED
        BY <4>1, <4>2, <4>3
    <3>3. ~parted' => Coming(Answer(current), AnswerJobs(current))'
      BY <2>1, <2>2, <3>2 DEF Coming, AnswerJobs, Answer
    <3> QED
      BY <2>2, <2>5, <3>3 DEF Phase, Answering, Complete, WireFree, Confirmed
  <2> QED
    BY <2>2, <2>3, <2>4, <2>5 DEF Phase, Unsent, Sending, Returning, Settling, NothingComing
<1>7. ASSUME NEW job, HandleAnswer(job), job.type = "method" PROVE Phase'
  <2>1. /\ Tick(job) /\ job.f \in {"return", "ack"} /\ Pending # {} /\ ticks' = Tail(ticks)
        /\ call' = [m \in Messages |-> IF m \in Pending THEN Outcome(job.f) ELSE call[m]]
        /\ UNCHANGED <<current, sent, sending, toPeer, toClient, incoming, offence, taken>>
    BY <1>7 DEF HandleAnswer, broker
  <2>2. /\ Answering /\ job = Head(AnswerJobs(current)) /\ toClient = <<>>
        /\ ticks' = Tail(AnswerJobs(current)) /\ Pending = {current}
    BY <1>7, <2>1, Handles DEF Method
  <2>3. draining' = FALSE /\ current \in Messages
    BY <2>1, <2>2, Ticked DEF Answering, Complete, Stages
  <2>4. call'[current] = Outcome(job.f) /\ Complete'
    BY <2>1, <2>2, <2>3 DEF Answering, Complete, WireFree
  <2>5. CASE job.f = "return"
    <3>1. ticks' = <<Method("ack", current)>> /\ call'[current] = "returned"
      BY <2>2, <2>3, <2>4, <2>5, JobsOf DEF Outcome
    <3> QED
      BY <2>1, <2>2, <2>3, <2>4, <3>1 DEF Phase, Returning
  <2>6. CASE job.f = "ack"
    <3>1. ticks' = <<>> /\ call'[current] = "acked"
      BY <2>2, <2>3, <2>4, <2>6, JobsOf DEF Outcome
    <3> QED
      BY <2>1, <2>2, <2>4, <3>1 DEF Phase, Settling, NothingComing, NoAnswers
  <2> QED
    BY <2>1, <2>5, <2>6
<1>8. ASSUME NEW job, HandleStray(job), job.type = "method" PROVE Phase'
  <2>1. /\ Tick(job) /\ job.f \in {"return", "ack", "nack"} /\ (Pending = {} \/ job.f = "nack")
        /\ ticks' = Tail(ticks) /\ crashed' = (job.f \in Unhandled)
        /\ UNCHANGED <<current, call, sent, sending, toPeer, toClient, incoming, offence>>
    BY <1>8 DEF HandleStray, broker, stream
  <2>2. CASE job.f = "nack"
    BY <2>1, <2>2 DEF Unhandled, Phase
  <2>3. CASE job.f # "nack"
    <3>1. Returning /\ ticks' = <<>>
      BY <1>8, <2>1, <2>3, Handles DEF Method
    <3>2. NothingComing'
      BY <2>1, <3>1 DEF Returning, NothingComing, NoAnswers
    <3> QED
      BY <2>1, <3>1, <3>2 DEF Returning, Phase, Settling, Complete, WireFree
  <2> QED
    BY <2>2, <2>3
<1>9. ASSUME NEW job, HandleClose(job) PROVE Phase'
  BY <1>9 DEF HandleClose, GoDown, Phase
<1>10. CASE WriteRejected \/ Finish \/ ConnectionFails
  BY <1>10 DEF WriteRejected, Finish, ConnectionFails, GoDown, Phase
<1>11. CASE PipelineEnds
  <2>1. /\ Tick([type |-> "pipeline"]) /\ ticks' = Tail(ticks) /\ draining' = FALSE
        /\ ticks # <<>> /\ ticks[1] = [type |-> "pipeline"] /\ Len(ticks) \in Nat \ {0}
    <3>1. Tick([type |-> "pipeline"]) /\ ticks' = Tail(ticks)
      BY <1>11 DEF PipelineEnds
    <3> QED
      BY <3>1, Ticked
  <2>2. ~NoAnswers
    BY <2>1 DEF NoAnswers
  <2>3. \A m \in Messages : ticks # AnswerJobs(m) /\ ticks # <<Method("ack", m)>>
    BY <2>1 DEF AnswerJobs, Method
  <2>4. ticks # <<Method("close", None)>>
    BY <2>1 DEF Method
  <2> QED
    BY <2>2, <2>3, <2>4 DEF Phase, Unsent, Sending, Offended, Answering, Returning, Settling, Complete,
       NothingComing, Coming, Stages
<1>12. CASE Take
  <2>1. /\ current = None /\ queue # <<>> /\ current' = Head(queue)
        /\ UNCHANGED <<sending, toPeer, toClient, incoming, offence>>
        /\ \/ ticks' = ticks /\ call' = call
           \/ /\ ticks' = Append(ticks, Job("register", Head(queue)))
              /\ call' = [call EXCEPT ![Head(queue)] = "scheduled"]
    BY <1>12 DEF Take, Ready, broker
  <2>2. Unsent
    BY <2>1 DEF Phase, Sending, Offended, Answering, Returning, Settling, Complete
  <2>3. Len(queue) \in Nat \ {0} /\ Head(queue) = queue[1] /\ Head(queue) \in Messages
    BY <2>1, EmptySeq, LenProperties, HeadTailProperties DEF Stages
  <2>4. call'[current'] \in {"none", "scheduled"}
    BY <2>1, <2>3 DEF Queued, Stages
  <2>5. NoAnswers'
    <3> DEFINE job == Job("register", Head(queue))
    <3>1. job \in Jobs /\ job.type = "register"
      BY <2>3 DEF Jobs, Job
    <3>2. ticks \in Seq(Jobs) /\ \A i \in 1..Len(ticks) : ticks[i].type = "register"
      BY <2>2 DEF Unsent, NothingComing, NoAnswers, Stages
    <3>3. ticks' = ticks \/ ticks' = Append(ticks, job)
      BY <2>1
    <3> HIDE DEF job
    <3> QED
      BY <3>1, <3>2, <3>3, AppendProperties, LenProperties DEF NoAnswers
  <2> QED
    BY <2>1, <2>2, <2>4, <2>5 DEF Phase, Unsent, WireFree, NothingComing
<1>13. CASE ChannelOpened
  <2>1. /\ current # None /\ current \in Messages /\ call[current] = "none" /\ ticks = <<>>
        /\ UNCHANGED <<current, sending, toPeer, toClient, incoming, offence>>
        /\ call' = [call EXCEPT ![current] = "scheduled"]
        /\ ticks' = Append(ticks, Job("register", current))
    BY <1>13 DEF ChannelOpened, Turn, BeginTurn, Quiet, broker, Scheduled, Stages
  <2>2. Unsent
    BY <2>1 DEF Phase, Sending, Offended, Answering, Returning, Settling, Complete
  <2>3. ticks' = <<Job("register", current)>> /\ call'[current] = "scheduled"
    BY <2>1 DEF Stages
  <2>4. NoAnswers'
    BY <2>3 DEF NoAnswers, Job
  <2> QED
    BY <2>1, <2>2, <2>3, <2>4 DEF Phase, Unsent, WireFree, NothingComing
<1>14. CASE Settle
  <2>1. /\ current # None /\ call[current] \in {"acked", "returned"} /\ current' = None
        /\ UNCHANGED <<sending, ticks, toPeer, toClient, incoming, offence>> /\ (ticks = <<>> \/ draining)
    BY <1>14 DEF Settle, Continue, RunContinuation, broker
  <2>2. Settling
    BY <2>1 DEF Phase, Unsent, Sending, Offended, Answering, Returning
  <2> QED
    BY <2>1, <2>2 DEF Phase, Unsent, Settling, Complete, WireFree, NothingComing, NoAnswers
<1>15. ASSUME NEW m \in Messages, Publish(m) PROVE Phase'
  BY <1>15, PhaseKept DEF Publish, Continue, RunContinuation, broker
<1>16. CASE Close
  BY <1>16, PhaseKept DEF Close, Continue, RunContinuation, broker, stream
<1>17. CASE UNCHANGED vars
  BY <1>17, PhaseKept DEF vars, broker, stream
<1>18. CASE CloseRefused
  BY <1>18 DEF CloseRefused, Phase
<1> QED
  BY <1>2, <1>3, <1>4, <1>5, <1>6, <1>7, <1>8, <1>9, <1>10, <1>11, <1>12, <1>13, <1>14, <1>15, <1>16, <1>17, <1>18
     DEF Next, Ticks, Continues

-----------------------------------------------------------------------------
\* the broker takes only what it may, and nothing is taken back
LEMMA TakenNext ==
    ASSUME Stages, Receiving, taken \cap (Unroutable \cup Nacked) = {}, [Next]_vars
    PROVE  (taken \cap (Unroutable \cup Nacked) = {})' /\ taken \subseteq taken'
<1>1. CASE BrokerReads
  <2>1. taken' = taken \/ \E m \in Messages \ (Unroutable \cup Nacked) : taken' = taken \cup {m}
    BY <1>1, Reads
  <2> QED
    BY <2>1
<1>2. CASE ~BrokerReads
  <2>1. taken' = taken
    BY <1>2 DEF Next, Ticks, Continues, Register, PipelineEnds, HandleAnswer, HandleStray, HandleClose,
       Take, Settle, WriteRejected, CloseRefused, Finish, Publish, SendFrame, BodyFails, Close, ChannelOpened, Decode,
       ConnectionFails, vars, broker
  <2> QED
    BY <2>1
<1> QED
  BY <1>1, <1>2

\* a publish() settles by the answer to its own message
LEMMA OutcomesNext ==
    ASSUME Stages, Queued, Sent, Scheduled, Receiving, Wire, Phase, Outcomes, Doom, [Next]_vars
    PROVE  Outcomes'
<1>1. (taken \cap (Unroutable \cup Nacked) = {})' /\ taken \subseteq taken'
  BY TakenNext DEF Outcomes
<1>2. CASE parted
  BY <1>1, <1>2, Grows DEF Outcomes
<1> SUFFICES ASSUME ~parted PROVE Outcomes'
  BY <1>2
<1>3. /\ \A m \in Messages : call[m] = "acked" \/ status[m] = "resolved" => m \in taken
      /\ \A m \in Messages : call[m] = "returned" => m \in Unroutable
      /\ \A m \in Messages : status[m] = "failed" => down \/ m \in Unroutable
      /\ crashed => MayEnd
  BY DEF Outcomes
<1>4. (down => down') /\ (crashed' = crashed => (crashed' => MayEnd'))
  <2>1. (Begun(Nacked) => Begun(Nacked)') /\ (Begun(Unspeakable) => Begun(Unspeakable)')
    BY BegunKept, PublisherAssumption
  <2> QED
    BY <1>3, <2>1, Grows DEF MayEnd
<1>5. ASSUME \A m \in Messages : call'[m] \in {"acked", "returned"} => call'[m] = call[m],
             \A m \in Messages : status'[m] \in {"resolved", "failed"} => status'[m] = status[m],
             crashed' = crashed
      PROVE  Outcomes'
  BY <1>1, <1>3, <1>4, <1>5 DEF Outcomes
<1>6. ASSUME NEW rest, GoDown(rest), status' = status, crashed' = crashed PROVE Outcomes'
  <2>1. call' = [m \in Messages |-> IF call[m] = "pending" THEN "rejected" ELSE call[m]]
    BY <1>6 DEF GoDown
  <2>2. \A m \in Messages : call'[m] \in {"acked", "returned"} => call'[m] = call[m]
    BY <2>1
  <2> QED
    BY <1>5, <1>6, <2>2
<1>7. ASSUME NEW job, HandleAnswer(job), job.type = "method" PROVE Outcomes'
  <2>1. /\ Tick(job) /\ ~down /\ job.f \in {"return", "ack"} /\ Pending # {}
        /\ call' = [m \in Messages |-> IF m \in Pending THEN Outcome(job.f) ELSE call[m]]
        /\ UNCHANGED <<status, crashed>>
    BY <1>7 DEF HandleAnswer, helper
  <2>2. Answering /\ job = Head(AnswerJobs(current)) /\ Pending = {current}
    BY <1>7, <2>1, Handles DEF Method
  <2>3. current \in Messages /\ Confirmed(current)
    BY <2>2 DEF Answering, Complete, Stages
  <2>4. \A m \in Messages : call'[m] = IF m = current THEN Outcome(job.f) ELSE call[m]
    BY <2>1, <2>2
  <2>5. CASE job.f = "return"
    <3>1. current \in Unroutable /\ Outcome(job.f) = "returned"
      BY <2>2, <2>3, <2>5, JobsOf DEF Outcome
    <3> QED
      BY <1>1, <1>3, <1>4, <2>1, <2>4, <3>1 DEF Outcomes
  <2>6. CASE job.f = "ack"
    <3>1. current \in taken /\ Outcome(job.f) = "acked"
      BY <2>2, <2>3, <2>6, JobsOf DEF Outcome, Confirmed
    <3> QED
      BY <1>1, <1>3, <1>4, <2>1, <2>4, <3>1 DEF Outcomes
  <2> QED
    BY <2>1, <2>5, <2>6
<1>8. ASSUME NEW job, HandleStray(job), job.type = "method" PROVE Outcomes'
  <2>1. /\ Tick(job) /\ ~down /\ job.f \in {"return", "ack", "nack"} /\ (Pending = {} \/ job.f = "nack")
        /\ crashed' = (job.f \in Unhandled) /\ UNCHANGED <<status, call, sent>>
    BY <1>8 DEF HandleStray, helper, stream
  <2>2. crashed' => MayEnd'
    <3>1. SUFFICES ASSUME job.f \in {"return", "nack"} PROVE Begun(Nacked)'
      BY <2>1 DEF Unhandled, MayEnd
    <3>2. Answering /\ job = Head(AnswerJobs(current)) /\ Pending = {current}
      BY <1>8, <2>1, <3>1, Handles DEF Method
    <3>3. current \in Messages /\ sent[current] > 0
      BY <3>2 DEF Answering, Complete, Stages
    <3>4. job.f = "nack"
      BY <2>1, <3>1, <3>2
    <3>5. current \in Nacked
      BY <3>2, <3>3, <3>4, JobsOf
    <3>6. sent[current] # 0
      BY <3>3 DEF Stages
    <3>7. Begun(Nacked)
      BY <3>5, <3>6 DEF Begun
    <3> QED
      BY <3>7, BegunKept, PublisherAssumption
  <2> QED
    BY <1>1, <1>3, <1>4, <2>1, <2>2 DEF Outcomes
<1>9. ASSUME NEW job, HandleClose(job) PROVE Outcomes'
  BY <1>6, <1>9 DEF HandleClose, helper
<1>10. CASE WriteRejected \/ Finish \/ ConnectionFails
  BY <1>6, <1>10 DEF WriteRejected, Finish, ConnectionFails, helper
<1>11. CASE PipelineEnds
  <2>1. /\ Tick([type |-> "pipeline"]) /\ UNCHANGED <<call, crashed>>
        /\ status' = [m \in Messages |-> IF m = held /\ status[m] = "waiting" THEN "failed" ELSE status[m]]
    BY <1>11 DEF PipelineEnds, stream
  <2>2. /\ ~crashed /\ ticks[1] = [type |-> "pipeline"] /\ Len(ticks) \in Nat \ {0}
    BY <2>1, Ticked
  <2>3. down
    <3>1. ~NoAnswers
      BY <2>2 DEF NoAnswers
    <3>2. \A m \in Messages : ticks # AnswerJobs(m) /\ ticks # <<Method("ack", m)>>
      BY <2>2 DEF AnswerJobs, Method
    <3>3. ticks # <<Method("close", None)>>
      BY <2>2 DEF Method
    <3> QED
      BY <2>2, <3>1, <3>2, <3>3 DEF Phase, Unsent, Sending, Offended, Answering, Returning, Settling, Complete,
         NothingComing, Coming, Stages
  <2>4. \A m \in Messages : status'[m] = "resolved" => status[m] = "resolved"
    BY <2>1
  <2> QED
    BY <1>1, <1>3, <1>4, <2>1, <2>3, <2>4 DEF Outcomes
<1>12. CASE Settle
  <2>1. /\ current # None /\ current \in Messages /\ UNCHANGED <<call, crashed>>
        /\ status' = [status EXCEPT ![current] =
                         IF status[current] # "waiting" THEN @
                         ELSE IF call[current] = "acked" THEN "resolved" ELSE "failed"]
        /\ call[current] \in {"acked", "returned"}
    BY <1>12 DEF Settle, Stages
  <2>2. /\ \A m \in Messages \ {current} : status'[m] = status[m]
        /\ \/ status'[current] = status[current]
           \/ status'[current] = "resolved" /\ call[current] = "acked"
           \/ status'[current] = "failed" /\ call[current] = "returned"
    BY <2>1 DEF Stages
  <2> QED
    BY <1>1, <1>3, <1>4, <2>1, <2>2 DEF Outcomes
<1>13. ASSUME NEW m \in Messages, Publish(m) PROVE Outcomes'
  <2>1. /\ UNCHANGED <<call, crashed>>
        /\ \/ status' = [status EXCEPT ![m] = "refused"]
           \/ status' = [status EXCEPT ![m] = "waiting"]
    BY <1>13 DEF Publish
  <2>2. \A n \in Messages : status'[n] \in {"resolved", "failed"} => status'[n] = status[n]
    BY <2>1 DEF Stages
  <2> QED
    BY <1>5, <2>1, <2>2
<1>14. CASE Take
  <2>1. /\ UNCHANGED <<status, crashed>> /\ (call' = call \/ call' = [call EXCEPT ![Head(queue)] = "scheduled"])
    BY <1>14 DEF Take, helper
  <2>2. \A n \in Messages : call'[n] \in {"acked", "returned"} => call'[n] = call[n]
    BY <2>1 DEF Stages
  <2> QED
    BY <1>5, <2>1, <2>2
<1>15. CASE ChannelOpened \/ \E m \in Messages : Register(m) \/ BodyFails(m)
  <2>1. UNCHANGED <<status, crashed>>
    BY <1>15 DEF ChannelOpened, Register, BodyFails, helper
  <2>2. \/ call' = [call EXCEPT ![current] = "scheduled"]
        \/ \E m \in Messages : call' = [call EXCEPT ![m] = "pending"]
        \/ \E m \in Messages : call' = [call EXCEPT ![m] = IF @ = "pending" THEN "rejected" ELSE @]
    BY <1>15 DEF ChannelOpened, Register, BodyFails
  <2>3. \A n \in Messages : call'[n] \in {"acked", "returned"} => call'[n] = call[n]
    BY <2>2 DEF Stages
  <2> QED
    BY <1>5, <2>1, <2>3
<1>16. CASE Close \/ Decode \/ BrokerReads \/ UNCHANGED vars \/ \E m \in Messages : SendFrame(m)
  <2>1. UNCHANGED <<status, call, crashed>>
    BY <1>16 DEF Close, Decode, BrokerReads, SendFrame, vars, helper, stream
  <2> QED
    BY <1>5, <2>1
<1>17. CASE CloseRefused
  <2>1. UNCHANGED <<status, call, taken>> /\ down' /\ Begun(Unspeakable)'
    BY <1>17, BegunKept, PublisherAssumption DEF CloseRefused, Doom, helper, stream, broker
  <2> QED
    BY <1>1, <1>3, <2>1 DEF Outcomes, MayEnd
<1> QED
  BY <1>7, <1>8, <1>9, <1>10, <1>11, <1>12, <1>13, <1>14, <1>15, <1>16, <1>17
     DEF Next, Ticks, Continues

\* only a message that was written fails with its body
LEMMA DoomNext ==
    ASSUME Stages, Queued, Sent, Scheduled, Doom, [Next]_vars
    PROVE  Doom'
<1>1. (down => down') /\ \A m \in Messages : sent[m] <= sent'[m]
  BY Grows
<1>2. Stages' /\ (Begun(Unspeakable) => Begun(Unspeakable)')
  BY BegunKept, StagesNext, PublisherAssumption
<1>3. ASSUME \A m \in Messages : call'[m] \in {"none", "scheduled"} \/ call[m] \notin {"none", "scheduled"},
             doomed' = doomed
      PROVE  Doom'
  BY <1>1, <1>2, <1>3 DEF Doom, Stages
<1>4. ASSUME NEW rest, GoDown(rest)
      PROVE  \A m \in Messages : call'[m] \in {"none", "scheduled"} \/ call[m] \notin {"none", "scheduled"}
  BY <1>4 DEF GoDown, Stages
<1>5. ASSUME NEW m \in Messages, Register(m) PROVE Doom'
  <2>1. sent'[m] = sent[m] + 1 /\ call' = [call EXCEPT ![m] = "pending"] /\ doomed' = doomed
    BY <1>5 DEF Register, WriteNext, Stages
  <2>2. sent'[m] > 0
    BY <2>1 DEF Stages
  <2> QED
    BY <1>1, <1>2, <2>1, <2>2 DEF Doom, Stages
<1>6. CASE WriteRejected
  <2>1. /\ current # None /\ call[current] = "rejected" /\ GoDown(ticks) /\ sent' = sent
        /\ doomed' = (doomed \/ (~down /\ current \in Unspeakable))
    BY <1>6 DEF WriteRejected
  <2>2. current \in Messages /\ sent[current] > 0 /\ sent[current] \in Nat
    BY <2>1 DEF Doom, Stages
  <2>3. doomed' => down' /\ Begun(Unspeakable)'
    BY <1>2, <2>1, <2>2 DEF Doom, GoDown, Begun
  <2>4. doomed' \in BOOLEAN
    BY <2>1
  <2> QED
    BY <1>1, <1>2, <1>4, <2>1, <2>3, <2>4 DEF Doom, Stages
<1>7. CASE Finish \/ ConnectionFails \/ \E job : HandleClose(job)
  BY <1>3, <1>4, <1>7 DEF Finish, ConnectionFails, HandleClose
<1>8. ASSUME NEW job, HandleAnswer(job) PROVE Doom'
  <2>1. /\ call' = [m \in Messages |-> IF m \in Pending THEN Outcome(job.f) ELSE call[m]]
        /\ doomed' = doomed
    BY <1>8 DEF HandleAnswer
  <2> QED
    BY <1>3, <2>1 DEF Pending
<1>9. CASE Take \/ ChannelOpened \/ \E m \in Messages : BodyFails(m)
  <2>1. doomed' = doomed
    BY <1>9 DEF Take, ChannelOpened, BodyFails
  <2>2. \/ call' = call
        \/ \E m : call' = [call EXCEPT ![m] = "scheduled"]
        \/ \E m \in Messages : call' = [call EXCEPT ![m] = IF @ = "pending" THEN "rejected" ELSE @]
    BY <1>9 DEF Take, ChannelOpened, BodyFails
  <2> QED
    BY <1>3, <2>1, <2>2 DEF Stages
<1>10. ASSUME UNCHANGED <<call, doomed>> PROVE Doom'
  BY <1>3, <1>10
<1>11. CASE PipelineEnds \/ Settle \/ Close \/ Decode \/ BrokerReads \/ CloseRefused \/ UNCHANGED vars
  BY <1>10, <1>11 DEF PipelineEnds, Settle, Close, Decode, BrokerReads, CloseRefused, vars, stream
<1>12. ASSUME NEW m \in Messages, Publish(m) \/ SendFrame(m) PROVE Doom'
  BY <1>10, <1>12 DEF Publish, SendFrame, stream
<1>13. ASSUME NEW job, HandleStray(job) PROVE Doom'
  BY <1>10, <1>13 DEF HandleStray, stream
<1> QED
  BY <1>5, <1>6, <1>7, <1>8, <1>9, <1>11, <1>12, <1>13 DEF Next, Ticks, Continues

-----------------------------------------------------------------------------
LEMMA InvInit == Init => Inv
<1> SUFFICES ASSUME Init PROVE Inv
  OBVIOUS
<1> USE DEF Init, LoopInit
<1>1. Stages
  <2>1. /\ ticks \in Seq(Jobs) /\ queue \in Seq(Messages)
        /\ toPeer \in Seq([m : Messages, f : FrameKinds])
        /\ toClient \in Seq([f : {"return", "ack", "nack", "close"}, m : Messages \cup {None}])
    BY EmptySeq
  <2>2. /\ status \in [Messages -> {"new", "waiting", "resolved", "failed", "refused"}]
        /\ call \in [Messages -> {"none", "scheduled", "pending", "acked", "returned", "rejected"}]
        /\ sent \in [Messages -> Nat]
    OBVIOUS
  <2> QED
    BY <2>1, <2>2 DEF Stages
<1>2. Queued /\ Scheduled
  <2>1. Len(queue) = 0 /\ Len(ticks) = 0 /\ queue = <<>> /\ ticks = <<>>
    OBVIOUS
  <2>2. current = None /\ channel = "none" /\ ~draining /\ \A m \in Messages : call[m] = "none" /\ m # None
    BY PublisherAssumption
  <2> QED
    BY <2>1, <2>2 DEF Queued, Scheduled
<1>3. Sent
  <2>1. sending = {} /\ \A m \in Messages : sent[m] = 0 /\ 0 <= Length(m)
    BY LengthOf
  <2> QED
    BY <2>1 DEF Sent
<1>4. Receiving /\ Wire
  BY DEF Receiving, Wire, WireFree
<1>5. Phase
  BY DEF Phase, Unsent, WireFree, NothingComing, NoAnswers
<1>6. Outcomes /\ ContentsWhole /\ Doom
  BY DEF Outcomes, ContentsWhole, Doom
<1> QED
  BY <1>1, <1>2, <1>3, <1>4, <1>5, <1>6 DEF Inv

LEMMA InvNext == Inv /\ [Next]_vars => Inv'
<1> SUFFICES ASSUME Inv, [Next]_vars PROVE Inv'
  OBVIOUS
<1>1. Stages /\ Queued /\ Sent /\ Scheduled /\ Receiving /\ Wire /\ Phase /\ Outcomes /\ ContentsWhole /\ Doom
  BY DEF Inv
<1>2. Stages' /\ Queued' /\ Sent' /\ Scheduled'
  BY <1>1, StagesNext, QueuedNext, SentNext, ScheduledNext
<1>3. Receiving' /\ Wire' /\ Phase'
  BY <1>1, ReceivingNext, WireNext, PhaseNext
<1>4. Outcomes' /\ ContentsWhole' /\ Doom'
  BY <1>1, OutcomesNext, ContentsNext, DoomNext
<1> QED
  BY <1>2, <1>3, <1>4 DEF Inv

LEMMA InvAlways == Spec => []Inv
BY InvInit, InvNext, PTL DEF Spec

(* The state is of its types whatever is published: in particular no frame *)
(* is written past the last of a content, and at most one call waits for a *)
(* confirm (PublishStream writes one message at a time, publisher.ts:69).  *)
THEOREM PublisherTypeOK == Spec => []TypeOK
<1>1. Inv => TypeOK
  <2> SUFFICES ASSUME Inv PROVE TypeOK
    OBVIOUS
  <2>1. Stages /\ Sent /\ Scheduled /\ doomed \in BOOLEAN
    BY DEF Inv, Doom
  <2>2. \A m \in Messages : sent[m] \in 0..Len(Frames(m))
    BY <2>1, FramesOf, LengthOf DEF Stages, Sent
  <2>3. Pending = {} \/ \E m \in Messages : Pending = {m}
    BY <2>1 DEF Pending, Scheduled
  <2> QED
    BY <2>1, <2>2, <2>3 DEF Stages, TypeOK
<1> QED
  BY <1>1, InvAlways, PTL

(* Until a return and its ack are parted, a publish() that resolves has    *)
(* its message with the broker, one that fails on a living connection was  *)
(* for a message that was not taken, although the answers are told apart   *)
(* by their order alone (_check_publish_response, publisher.ts:89); and    *)
(* the process ends only after a basic.nack, or when a body has failed     *)
(* with a text that the encoder of a close refuses, which takes the        *)
(* connection down first (channel.ts:104-106).                             *)
THEOREM OutcomesAreTrue == Spec => []OutcomesTrue
<1>1. Inv => OutcomesTrue
  BY DEF Inv, Outcomes, MayEnd, OutcomesTrue
<1> QED
  BY <1>1, InvAlways, PTL

(* No content is mixed with another or cut short by it, for any bodies,    *)
(* also those that fail: only a content without properties, or a return    *)
(* that comes without its ack, spoils one (_publish_readable,              *)
(* publisher.ts:121).                                                      *)
THEOREM ContentsStayWhole == Spec => []ContentsWhole
<1>1. Inv => ContentsWhole
  BY DEF Inv
<1> QED
  BY <1>1, InvAlways, PTL

-----------------------------------------------------------------------------
(* Nobody waits in vain.  The two facts below need two more of the client: *)
(* a call that waits for a confirm is being sent until its last frame is   *)
(* written, and the call of a message has its tick.                        *)
Listed(m) == \E i \in 1..Len(queue) : queue[i] = m
Pipeline == [type |-> "pipeline"]

SentOn == ~down => \A m \in Messages : call[m] = "pending" /\ sent[m] < Length(m) => m \in sending

Made == ~down /\ current # None /\ call[current] = "scheduled" => ticks = <<Job("register", current)>>

\* A message that waits on a connection that lives is being written or is in
\* the queue.
WaitsInLine == \A m \in Messages : status[m] = "waiting" => down \/ m = current \/ Listed(m)

\* The loop, the socket or the broker has something to do.
Runs ==
    \/ ticks # <<>> \/ Continuations \/ channel = "opening" \/ sending # {}
    \/ toClient # <<>> \/ (toPeer # <<>> /\ ~offence)

\* While somebody waits something moves, unless the broker waits for the
\* header of a content that has neither properties nor a body.
LineMoves ==
    ~crashed /\ ~down /\ ~parted /\ (ending = "asked" \/ \E m \in Messages : status[m] = "waiting")
        => Runs \/ (current \in Bare /\ Pieces[current] = 0)

\* a close is the last method of a connection
LastClose ==
    /\ \A i \in 1..Len(ticks) : ticks[i].type = "pipeline" => down
    /\ \A i \in 1..Len(ticks) : ticks[i].type = "method" /\ ticks[i].f = "close" =>
          offence /\ i = Len(ticks) /\ toClient = <<>>
    /\ \A i \in 1..Len(toClient) : toClient[i].f = "close" => offence /\ i = Len(toClient)

\* current_promise is that of the last publish(), or of none.  A write that is
\* rejected, which takes the connection down, ends current and leaves it alone.
HeldIsLast ==
    held # None => IF queue # <<>> THEN held = queue[Len(queue)] ELSE down \/ held = current

\* When the connection is lost, the publish() of current_promise is told of
\* it, if there is one: nothing but the callback of the pipeline is left to
\* run, or it has run.
Told ==
    /\ closed => down /\ (held = None \/ status[held] # "waiting")
    /\ down => toClient = <<>> /\ (ticks = <<Pipeline>> \/ (ticks = <<>> /\ closed))

LEMMA WaitsNext == ASSUME Stages, Sent, Scheduled, WaitsInLine, [Next]_vars PROVE WaitsInLine'
<1>0. down => down'
  BY Grows
<1>1. ASSUME UNCHANGED <<queue, current>>, \A m \in Messages : status'[m] = "waiting" => status[m] = "waiting"
      PROVE  WaitsInLine'
  BY <1>0, <1>1 DEF WaitsInLine, Listed
<1>2. CASE PipelineEnds
  <2>1. UNCHANGED <<queue, current>>
    BY <1>2 DEF PipelineEnds, stream
  <2>2. \A m \in Messages : status'[m] = "waiting" => status[m] = "waiting"
    BY <1>2 DEF PipelineEnds
  <2> QED
    BY <1>1, <2>1, <2>2
<1>3. CASE Take
  <2>1. /\ queue # <<>> /\ current = None /\ current' = Head(queue) /\ queue' = Tail(queue)
        /\ UNCHANGED <<status, down>>
    BY <1>3 DEF Take, Ready, helper
  <2>2. /\ Len(queue) \in Nat \ {0} /\ Head(queue) = queue[1] /\ Len(queue') = Len(queue) - 1
        /\ \A i \in 1..Len(queue') : queue'[i] = queue[i + 1]
    BY <2>1, EmptySeq, LenProperties, HeadTailProperties DEF Stages
  <2>3. ASSUME NEW m \in Messages, Listed(m) PROVE m = current' \/ Listed(m)'
    <3>1. PICK i \in 1..Len(queue) : queue[i] = m
      BY <2>3 DEF Listed
    <3>2. CASE i = 1
      BY <2>1, <2>2, <3>1, <3>2
    <3>3. CASE i # 1
      <4>1. i - 1 \in 1..Len(queue') /\ (i - 1) + 1 = i
        BY <2>2, <3>3
      <4>2. queue'[i - 1] = m
        BY <2>2, <3>1, <4>1
      <4> QED
        BY <4>1, <4>2 DEF Listed
    <3> QED
      BY <3>2, <3>3
  <2>4. \A m \in Messages : m # current
    BY <2>1, PublisherAssumption
  <2> QED
    BY <2>1, <2>3, <2>4 DEF WaitsInLine
<1>4. CASE Settle
  <2>1. /\ current \in Messages /\ queue' = queue /\ down' = down /\ current' = None
        /\ status' = [status EXCEPT ![current] =
                         IF status[current] # "waiting" THEN @
                         ELSE IF call[current] = "acked" THEN "resolved" ELSE "failed"]
    BY <1>4 DEF Settle, Stages
  <2>2. /\ status'[current] # "waiting"
        /\ \A m \in Messages \ {current} : status'[m] = status[m]
    BY <2>1 DEF Stages
  <2> QED
    BY <2>1, <2>2 DEF WaitsInLine, Listed
<1>5. CASE WriteRejected \/ Finish
  <2>1. down'
    BY <1>5 DEF WriteRejected, Finish, GoDown
  <2> QED
    BY <2>1 DEF WaitsInLine
<1>6. ASSUME NEW n \in Messages, Publish(n) PROVE WaitsInLine'
  <2>1. /\ UNCHANGED <<current, down>>
        /\ \/ status' = [status EXCEPT ![n] = "refused"] /\ queue' = queue
           \/ status' = [status EXCEPT ![n] = "waiting"] /\ queue' = Append(queue, n)
    BY <1>6 DEF Publish
  <2>2. CASE queue' = queue /\ status' = [status EXCEPT ![n] = "refused"]
    <3>1. \A m \in Messages : status'[m] = "waiting" => status[m] = "waiting"
      BY <2>2 DEF Stages
    <3> QED
      BY <1>1, <2>1, <2>2, <3>1
  <2>3. CASE queue' = Append(queue, n) /\ status' = [status EXCEPT ![n] = "waiting"]
    <3>1. /\ Len(queue) \in Nat /\ Len(queue') = Len(queue) + 1 /\ queue'[Len(queue) + 1] = n
          /\ \A i \in 1..Len(queue) : queue'[i] = queue[i]
      BY <2>3, AppendProperties, LenProperties DEF Stages
    <3>2. \A i \in 1..Len(queue) : i \in 1..Len(queue')
      BY <3>1
    <3>3. Len(queue) + 1 \in 1..Len(queue')
      BY <3>1
    <3>4. Listed(n)' /\ \A m \in Messages : Listed(m) => Listed(m)'
      BY <3>1, <3>2, <3>3 DEF Listed
    <3>5. \A m \in Messages \ {n} : status'[m] = status[m]
      BY <2>3 DEF Stages
    <3> QED
      BY <2>1, <3>4, <3>5 DEF WaitsInLine
  <2> QED
    BY <2>1, <2>2, <2>3
<1>7. CASE UNCHANGED <<status, queue, current>>
  BY <1>1, <1>7
<1>8. ASSUME NEW job, HandleStray(job) PROVE UNCHANGED <<status, queue, current>>
  BY <1>8 DEF HandleStray, helper, stream
<1>9. CASE Close \/ Decode \/ BrokerReads \/ CloseRefused \/ UNCHANGED vars
  BY <1>7, <1>9 DEF CloseRefused, Close, Decode, BrokerReads, vars, helper, stream
<1> QED
  BY <1>2, <1>3, <1>4, <1>5, <1>6, <1>7, <1>8, <1>9 DEF Next, Ticks, Continues, Register, HandleAnswer,
     HandleClose, SendFrame, BodyFails, ChannelOpened, ConnectionFails, helper

\* every frame of a content is written, unless its call is settled before
LEMMA SentOnNext == ASSUME Stages, Sent, Scheduled, SentOn, [Next]_vars PROVE SentOn'
<1>0. \A m \in Messages : Length(m)' = Length(m) /\ Length(m) \in Nat /\ sent[m] \in Nat
  BY LengthOf DEF Length, Stages
<1>1. ASSUME UNCHANGED <<sent, sending, down>>,
             \A m \in Messages : call'[m] = "pending" => call[m] = "pending"
      PROVE  SentOn'
  BY <1>0, <1>1 DEF SentOn
<1>2. ASSUME NEW m \in Messages, sent[m] < Length(m), WriteNext(m), down' = down,
             \A n \in Messages \ {m} : call'[n] = "pending" => call[n] = "pending"
      PROVE  SentOn'
  <2>1. /\ sent' = [sent EXCEPT ![m] = @ + 1]
        /\ sending' = IF sent[m] + 1 = Length(m) THEN sending \ {m} ELSE sending \cup {m}
    BY <1>2, Writes
  <2>2. sent'[m] = sent[m] + 1 /\ \A n \in Messages \ {m} : sent'[n] = sent[n]
    BY <2>1 DEF Stages
  <2>3. sent'[m] < Length(m) => m \in sending'
    BY <1>0, <2>1, <2>2
  <2>4. \A n \in Messages \ {m} : n \in sending => n \in sending'
    BY <2>1
  <2> QED
    BY <1>0, <1>2, <2>2, <2>3, <2>4 DEF SentOn
<1>3. ASSUME NEW m \in Messages, Register(m) PROVE SentOn'
  <2>1. sent[m] < Length(m) /\ WriteNext(m) /\ call' = [call EXCEPT ![m] = "pending"] /\ down' = down
    BY <1>3, Registers DEF Register
  <2>2. \A n \in Messages \ {m} : call'[n] = "pending" => call[n] = "pending"
    BY <2>1 DEF Stages
  <2> QED
    BY <1>2, <2>1, <2>2
<1>4. ASSUME NEW m \in Messages, SendFrame(m) PROVE SentOn'
  <2>1. sent[m] < Length(m) /\ WriteNext(m) /\ call' = call /\ down' = down
    BY <1>4 DEF SendFrame, Sent
  <2> QED
    BY <1>2, <2>1
<1>5. ASSUME NEW m \in Messages, BodyFails(m) PROVE SentOn'
  <2>1. /\ sending' = sending \ {m} /\ UNCHANGED <<sent, down>>
        /\ call' = [call EXCEPT ![m] = IF @ = "pending" THEN "rejected" ELSE @]
    BY <1>5 DEF BodyFails
  <2>2. /\ call'[m] # "pending"
        /\ \A n \in Messages \ {m} : call'[n] = call[n]
    BY <2>1 DEF Stages
  <2>3. \A n \in Messages \ {m} : n \in sending => n \in sending'
    BY <2>1
  <2> QED
    BY <1>0, <2>1, <2>2, <2>3 DEF SentOn
<1>6. ASSUME NEW job, HandleAnswer(job) PROVE SentOn'
  <2>1. /\ UNCHANGED <<sent, sending, down>>
        /\ call' = [m \in Messages |-> IF m \in Pending THEN Outcome(job.f) ELSE call[m]]
    BY <1>6 DEF HandleAnswer
  <2>2. \A m \in Messages : call'[m] = "pending" => call[m] = "pending"
    BY <2>1 DEF Pending
  <2> QED
    BY <1>1, <2>1, <2>2
<1>7. CASE \E rest : GoDown(rest)
  BY <1>7 DEF GoDown, SentOn
<1>8. CASE Take \/ ChannelOpened
  <2>1. /\ UNCHANGED <<sent, sending, down>>
        /\ call' = call \/ \E m \in Messages \cup {None} : call' = [call EXCEPT ![m] = "scheduled"]
    <3>1. Take => queue # <<>> /\ Head(queue) \in Messages
      BY HeadTailProperties DEF Take, Ready, Stages
    <3> QED
      BY <1>8, <3>1 DEF Take, ChannelOpened, Stages
  <2>2. \A m \in Messages : call'[m] = "pending" => call[m] = "pending"
    BY <2>1 DEF Stages
  <2> QED
    BY <1>1, <2>1, <2>2
<1>9. CASE UNCHANGED <<sent, sending, call, down>>
  BY <1>1, <1>9
<1>10. ASSUME NEW job, HandleStray(job) PROVE UNCHANGED <<sent, sending, call, down>>
  BY <1>10 DEF HandleStray, stream
<1>11. CASE Close \/ Decode \/ BrokerReads \/ PipelineEnds \/ Settle \/ CloseRefused \/ UNCHANGED vars
  BY <1>9, <1>11 DEF CloseRefused, Close, Decode, BrokerReads, PipelineEnds, Settle, vars, stream
<1>12. ASSUME NEW m \in Messages, Publish(m) PROVE UNCHANGED <<sent, sending, call, down>>
  BY <1>12 DEF Publish
<1> QED
  BY <1>3, <1>4, <1>5, <1>6, <1>7, <1>8, <1>9, <1>10, <1>11, <1>12
     DEF Next, Ticks, Continues, HandleClose, WriteRejected, Finish, ConnectionFails

\* a message that is scheduled has its tick, and no other tick comes between
LEMMA MadeNext == ASSUME Stages, Queued, Sent, Scheduled, Made, [Next]_vars PROVE Made'
<1>1. ASSUME UNCHANGED <<current, ticks>>, down' => down, down => down',
             \A m \in Messages : call'[m] = "scheduled" => call[m] = "scheduled"
      PROVE  Made'
  <2>1. current # None => current \in Messages
    BY DEF Stages
  <2> QED
    BY <1>1, <2>1 DEF Made, Job
<1>2. ASSUME NEW job, Tick(job), ~down, current # None, call[current] = "scheduled"
      PROVE  job = Job("register", current)
  <2>1. ticks = <<Job("register", current)>> /\ job = ticks[1]
    BY <1>2, Ticked DEF Made
  <2> QED
    BY <2>1
<1>3. ASSUME NEW job, Tick(job), job.type # "register", UNCHANGED <<current, down>>,
             \A m \in Messages : call'[m] = "scheduled" => call[m] = "scheduled"
      PROVE  Made'
  <2>1. ~down => current = None \/ call[current] # "scheduled"
    BY <1>2, <1>3 DEF Job
  <2>2. current # None => current \in Messages
    BY DEF Stages
  <2> QED
    BY <1>3, <2>1, <2>2 DEF Made
<1>4. ASSUME NEW m \in Messages, Register(m) PROVE Made'
  <2>1. m = current /\ UNCHANGED current /\ call' = [call EXCEPT ![m] = "pending"]
    BY <1>4, Registers DEF Register
  <2>2. call'[current'] = "pending"
    BY <2>1 DEF Stages
  <2> QED
    BY <2>2 DEF Made
<1>5. CASE PipelineEnds
  <2>1. Tick(Pipeline) /\ Pipeline.type # "register" /\ UNCHANGED <<current, down, call>>
    BY <1>5 DEF PipelineEnds, stream, Pipeline
  <2> QED
    BY <1>3, <2>1
<1>6. ASSUME NEW job, HandleAnswer(job), job.type = "method" PROVE Made'
  <2>1. /\ Tick(job) /\ UNCHANGED <<current, down>>
        /\ call' = [m \in Messages |-> IF m \in Pending THEN Outcome(job.f) ELSE call[m]]
    BY <1>6 DEF HandleAnswer
  <2>2. \A m \in Messages : call'[m] = "scheduled" => call[m] = "scheduled"
    BY <2>1 DEF Outcome
  <2> QED
    BY <1>3, <1>6, <2>1, <2>2
<1>7. ASSUME NEW job, HandleStray(job), job.type = "method" PROVE Made'
  BY <1>3, <1>7 DEF HandleStray, stream
<1>8. CASE \E rest : GoDown(rest)
  BY <1>8 DEF GoDown, Made
<1>9. CASE Take
  <2>1. /\ queue # <<>> /\ current = None /\ ~down /\ current' = Head(queue) /\ (ticks = <<>> \/ draining)
        /\ \/ /\ channel = "open" /\ call' = [call EXCEPT ![Head(queue)] = "scheduled"]
              /\ ticks' = Append(ticks, Job("register", Head(queue)))
           \/ call' = call
    BY <1>9 DEF Take, Ready, Continue, RunContinuation
  <2>2. Head(queue) \in Messages /\ call[Head(queue)] = "none"
    BY <2>1, EmptySeq, LenProperties, HeadTailProperties DEF Stages, Queued
  <2>3. ticks = <<>>
    <3>1. ticks = <<Job("register", current)>> => 1 \in 1..Len(ticks) /\ ticks[1].type = "register"
      BY DEF Job
    <3> QED
      BY <2>1, <3>1 DEF Scheduled
  <2>4. Append(<<>>, Job("register", Head(queue))) = <<Job("register", Head(queue))>>
    OBVIOUS
  <2>5. call'[current'] = "scheduled" => ticks' = <<Job("register", Head(queue))>>
    BY <2>1, <2>2, <2>3, <2>4
  <2>6. Job("register", current)' = Job("register", Head(queue))
    BY <2>1 DEF Job
  <2> QED
    BY <2>5, <2>6 DEF Made
<1>10. CASE ChannelOpened
  <2>1. ticks' = Append(<<>>, Job("register", current)) /\ current' = current
    BY <1>10 DEF ChannelOpened, Turn, BeginTurn, Quiet
  <2>2. ticks' = <<Job("register", current)>>
    BY <2>1
  <2> QED
    BY <2>1, <2>2 DEF Made, Job
<1>11. ASSUME NEW m \in Messages, BodyFails(m) PROVE Made'
  <2>1. /\ call' = [call EXCEPT ![m] = IF @ = "pending" THEN "rejected" ELSE @]
        /\ UNCHANGED <<current, ticks, down>>
    BY <1>11 DEF BodyFails
  <2>2. \A n \in Messages : call'[n] = "scheduled" => call[n] = "scheduled"
    BY <2>1 DEF Stages
  <2> QED
    BY <1>1, <2>1, <2>2
<1>12. CASE Decode
  <2>1. ticks = <<>> /\ UNCHANGED <<current, call, down>>
    BY <1>12, Decodes DEF Decode, stream
  <2>2. ticks # <<Job("register", current)>>
    BY <2>1
  <2> QED
    BY <2>1, <2>2 DEF Made
<1>13. CASE UNCHANGED <<current, ticks, down, call>>
  BY <1>1, <1>13
<1>14. CASE Settle
  BY <1>14 DEF Settle, Made
<1>15. CASE Close \/ BrokerReads \/ CloseRefused \/ UNCHANGED vars
  BY <1>13, <1>15 DEF CloseRefused, Close, BrokerReads, vars, stream
<1>16. ASSUME NEW m \in Messages, Publish(m) \/ SendFrame(m) PROVE Made'
  BY <1>13, <1>16 DEF Publish, SendFrame
<1> QED
  BY <1>4, <1>5, <1>6, <1>7, <1>8, <1>9, <1>10, <1>11, <1>12, <1>14, <1>15, <1>16
     DEF Next, Ticks, Continues, HandleClose, WriteRejected, Finish, ConnectionFails

\* the continuations of a turn find no method waiting
LEMMA NoTickWaits ==
    ASSUME Scheduled, Continue, ~down, current = None \/ call[current] # "scheduled"
    PROVE  ticks = <<>>
<1>1. ticks = <<>> \/ draining
  BY DEF Continue, RunContinuation
<1>2. ticks = <<Job("register", current)>> => 1 \in 1..Len(ticks) /\ ticks[1].type = "register"
  BY DEF Job
<1> QED
  BY <1>1, <1>2 DEF Scheduled

\* after the only tick none is left
LEMMA LastTick ==
    ASSUME Stages, NEW job, Tick(job), 1 = Len(ticks)
    PROVE  Tail(ticks) = <<>>
<1> DEFINE rest == Tail(ticks)
<1>1. rest \in Seq(Jobs) /\ Len(rest) = Len(ticks) - 1
  BY Ticked
<1> HIDE DEF rest
<1>2. Len(rest) = 0
  BY <1>1
<1>3. rest = <<>>
  BY <1>1, <1>2, EmptySeq
<1> QED
  BY <1>3 DEF rest

\* a job that is added after the rest is neither a close nor a pipeline
LEMMA LastCloseNext == ASSUME Stages, Queued, Sent, Scheduled, LastClose, [Next]_vars PROVE LastClose'
<1>0. (down => down') /\ (offence => offence')
  BY Grows
<1>1. ASSUME ticks' = ticks, toClient' = toClient PROVE LastClose'
  BY <1>0, <1>1 DEF LastClose
<1>2. ASSUME NEW job, Tick(job), ticks' = Tail(ticks), toClient' = toClient PROVE LastClose'
  <2>1. /\ Len(ticks) \in Nat \ {0} /\ Len(ticks') = Len(ticks) - 1
        /\ \A i \in 1..Len(ticks') : ticks'[i] = ticks[i + 1]
    BY <1>2, Ticked
  <2>2. \A i \in 1..Len(ticks') : i + 1 \in 1..Len(ticks) /\ (i + 1 = Len(ticks) => i = Len(ticks'))
    BY <2>1
  <2> QED
    BY <1>0, <1>2, <2>1, <2>2 DEF LastClose
<1>3. ASSUME NEW m, ticks' = <<Job("register", m)>>, toClient' = toClient PROVE LastClose'
  <2>1. Len(ticks') = 1 /\ \A i \in 1..Len(ticks') : ticks'[i].type = "register"
    BY <1>3 DEF Job
  <2> QED
    BY <1>0, <1>3, <2>1 DEF LastClose
<1>4. ASSUME down', toClient' = <<>>, ticks' = <<>> \/ ticks' = <<Pipeline>> PROVE LastClose'
  <2>1. \A i \in 1..Len(ticks') : ticks'[i].type = "pipeline"
    BY <1>4 DEF Pipeline
  <2>2. Len(toClient') = 0
    BY <1>4
  <2> QED
    BY <1>4, <2>1, <2>2 DEF LastClose
<1>5. ASSUME ~down, GoDown(<<>>) PROVE LastClose'
  BY <1>4, <1>5 DEF GoDown, Pipeline
<1>6. ASSUME NEW m \in Messages, Register(m) PROVE LastClose'
  BY <1>2, <1>6 DEF Register
<1>7. CASE PipelineEnds
  BY <1>2, <1>7 DEF PipelineEnds
<1>8. ASSUME NEW job, HandleAnswer(job) \/ HandleStray(job) PROVE LastClose'
  BY <1>2, <1>8 DEF HandleAnswer, HandleStray
<1>9. ASSUME NEW job, HandleClose(job), job.type = "method" PROVE LastClose'
  <2>1. /\ Tick(job) /\ ~down /\ job.f = "close" /\ GoDown(Tail(ticks))
    BY <1>9 DEF HandleClose
  <2>2. /\ job = ticks[1] /\ Len(ticks) \in Nat \ {0} /\ Tail(ticks) \in Seq(Jobs)
        /\ Len(Tail(ticks)) = Len(ticks) - 1
    BY <2>1, Ticked
  <2>3. 1 = Len(ticks)
    <3>1. 1 \in 1..Len(ticks) /\ ticks[1].type = "method" /\ ticks[1].f = "close"
      BY <1>9, <2>1, <2>2
    <3> QED
      BY <3>1 DEF LastClose
  <2>4. Tail(ticks) = <<>>
    BY <2>1, <2>3, LastTick
  <2> QED
    BY <1>5, <2>1, <2>4
<1>10. CASE Take
  <2>1. Continue /\ ~down /\ current = None /\ toClient' = toClient
    BY <1>10 DEF Take, Ready
  <2>2. ticks = <<>>
    BY <2>1, NoTickWaits
  <2>3. ticks' = ticks \/ ticks' = Append(<<>>, Job("register", Head(queue)))
    BY <1>10, <2>2 DEF Take
  <2>4. Append(<<>>, Job("register", Head(queue))) = <<Job("register", Head(queue))>>
    OBVIOUS
  <2> QED
    BY <1>1, <1>3, <2>1, <2>3, <2>4
<1>11. CASE ChannelOpened
  <2>1. ticks' = Append(<<>>, Job("register", current)) /\ toClient' = toClient
    BY <1>11 DEF ChannelOpened, Turn, BeginTurn, Quiet
  <2> QED
    BY <1>3, <2>1
<1>12. CASE Decode
  <2>1. PICK k \in 1..Len(toClient) :
           /\ ticks' = [i \in 1..k |-> Method(toClient[i].f, toClient[i].m)]
           /\ toClient' = SubSeq(toClient, k + 1, Len(toClient))
           /\ ticks' \in Seq(Jobs) /\ toClient' \in Seq(Answers) /\ Len(ticks') = k
           /\ Len(toClient) \in Nat
    BY <1>12, Decodes
  <2>2. /\ Len(toClient') = Len(toClient) - k
        /\ \A i \in 1..Len(toClient') : toClient'[i] = toClient[i + k] /\ i + k \in 1..Len(toClient)
    <3>1. \A i \in (k + 1)..Len(toClient) : toClient[i] \in Answers
      BY ElementOfSeq, <2>1 DEF Stages, Answers
    <3> QED
      BY <2>1, <3>1, SubSeqProperties
  <2>3. \A i \in 1..k : /\ ticks'[i].type = "method" /\ ticks'[i].f = toClient[i].f /\ i \in 1..Len(toClient)
    BY <2>1 DEF Method
  <2>4. \A i \in 1..k : ticks'[i].f = "close" => offence /\ i = Len(toClient) /\ i = k /\ Len(toClient') = 0
    <3>1. SUFFICES ASSUME NEW i \in 1..k, ticks'[i].f = "close"
                   PROVE  offence /\ i = Len(toClient) /\ i = k /\ Len(toClient') = 0
      OBVIOUS
    <3>2. offence /\ i = Len(toClient)
      BY <2>3, <3>1 DEF LastClose
    <3> QED
      BY <2>1, <2>2, <3>2
  <2>5. Len(toClient') = 0 => toClient' = <<>>
    BY <2>1, EmptySeq
  <2>6. \A i \in 1..Len(toClient') : toClient'[i].f = "close" => offence /\ i = Len(toClient')
    <3>1. SUFFICES ASSUME NEW i \in 1..Len(toClient'), toClient'[i].f = "close"
                   PROVE  offence /\ i = Len(toClient')
      OBVIOUS
    <3>2. offence /\ i + k = Len(toClient)
      BY <2>2, <3>1 DEF LastClose
    <3> QED
      BY <2>1, <2>2, <3>2
  <2> QED
    BY <1>0, <2>1, <2>3, <2>4, <2>5, <2>6 DEF LastClose
<1>13. CASE BrokerReads
  <2>1. /\ ~offence /\ ticks' = ticks /\ Head(toPeer).m \in Messages
    <3>1. toPeer # <<>> /\ ~offence /\ ticks' = ticks
      BY <1>13 DEF BrokerReads
    <3> DEFINE S == [m : Messages, f : FrameKinds]
    <3>2. toPeer \in Seq(S)
      BY DEF Stages
    <3> HIDE DEF S
    <3>3. Head(toPeer) \in S
      BY <3>1, <3>2, HeadTailProperties
    <3> QED
      BY <3>1, <3>3 DEF S
  <2>2. \/ toClient' = toClient
        \/ \E m \in Messages : toClient' = toClient \o Answer(m)
        \/ offence' = TRUE /\ toClient' = toClient \o <<[f |-> "close", m |-> None]>>
    BY <1>13, <2>1 DEF BrokerReads, Send
  <2>3. /\ \A i \in 1..Len(ticks) : ~(ticks[i].type = "method" /\ ticks[i].f = "close")
        /\ \A i \in 1..Len(toClient) : toClient[i].f # "close"
    BY <2>1 DEF LastClose
  <2>4. ASSUME NEW m \in Messages, toClient' = toClient \o Answer(m) PROVE LastClose'
    <3>1. \A i \in 1..Len(Answer(m)) : Answer(m)[i].f # "close"
      BY DEF Answer
    <3>2. /\ Len(toClient) \in Nat /\ Len(Answer(m)) \in Nat /\ Len(toClient') = Len(toClient) + Len(Answer(m))
          /\ \A i \in 1..Len(toClient') :
                toClient'[i] = IF i <= Len(toClient) THEN toClient[i] ELSE Answer(m)[i - Len(toClient)]
      BY <2>4, Sends, ConcatProperties, LenProperties DEF Stages, Answers
    <3>3. \A i \in 1..Len(toClient') : i \in 1..Len(toClient) \/ i - Len(toClient) \in 1..Len(Answer(m))
      BY <3>2
    <3>4. \A i \in 1..Len(toClient') : toClient'[i].f # "close"
      BY <2>3, <3>1, <3>2, <3>3
    <3> QED
      BY <1>0, <2>1, <2>3, <3>4 DEF LastClose
  <2>5. ASSUME offence', toClient' = toClient \o <<[f |-> "close", m |-> None]>> PROVE LastClose'
    <3> DEFINE last == <<[f |-> "close", m |-> None]>>
    <3>1. last \in Seq(Answers) /\ Len(last) = 1
      BY DEF Answers
    <3> HIDE DEF last
    <3>2. /\ Len(toClient) \in Nat /\ Len(toClient') = Len(toClient) + 1
          /\ \A i \in 1..Len(toClient') : i <= Len(toClient) => toClient'[i] = toClient[i]
      BY <2>5, <3>1, ConcatProperties, LenProperties DEF Stages, Answers, last
    <3>3. \A i \in 1..Len(toClient') : i \in 1..Len(toClient) \/ i = Len(toClient')
      BY <3>2
    <3> QED
      BY <1>0, <2>1, <2>3, <2>5, <3>2, <3>3 DEF LastClose
  <2> QED
    BY <1>1, <2>1, <2>2, <2>4, <2>5
<1>14. CASE WriteRejected \/ Finish
  <2>1. CASE ~down
    <3>1. Continue /\ GoDown(ticks) /\ (current = None \/ call[current] # "scheduled")
      BY <1>14 DEF WriteRejected, Finish, Finished
    <3>2. ticks = <<>>
      BY <2>1, <3>1, NoTickWaits
    <3> QED
      BY <1>5, <2>1, <3>1, <3>2
  <2>2. CASE down
    <3>1. ticks' = ticks /\ toClient' = <<>>
      BY <1>14, <2>2 DEF WriteRejected, Finish, GoDown
    <3> QED
      BY <1>0, <3>1 DEF LastClose
  <2> QED
    BY <2>1, <2>2
<1>15. CASE ConnectionFails
  BY <1>5, <1>15 DEF ConnectionFails, Turn, BeginTurn, Quiet
<1>16. CASE Settle \/ Close \/ CloseRefused \/ UNCHANGED vars
  BY <1>1, <1>16 DEF CloseRefused, Settle, Close, vars
<1>17. ASSUME NEW m \in Messages, Publish(m) \/ SendFrame(m) \/ BodyFails(m) PROVE LastClose'
  BY <1>1, <1>17 DEF Publish, SendFrame, BodyFails
<1> QED
  BY <1>6, <1>7, <1>8, <1>9, <1>10, <1>11, <1>12, <1>13, <1>14, <1>15, <1>16, <1>17
     DEF Next, Ticks, Continues

LEMMA ToldNext ==
    ASSUME Stages, Queued, Sent, Scheduled, LastClose, Told, [Next]_vars
    PROVE  Told'
<1> DEFINE Nothing == held = None \/ status[held] # "waiting"
<1>0. held = None \/ held \in Messages
  BY DEF Stages
<1>1. ASSUME UNCHANGED <<held, closed, down, toClient, ticks>>,
             \A m \in Messages : status'[m] = "waiting" => status[m] = "waiting"
      PROVE  Told'
  BY <1>0, <1>1 DEF Told
\* what happens only while the connection lives
<1>2. ASSUME ~down, ~down', closed' = closed PROVE Told'
  BY <1>2 DEF Told
<1>3. ASSUME ~down, GoDown(<<>>), UNCHANGED closed PROVE Told'
  <2>1. down' /\ toClient' = <<>> /\ ticks' = Append(<<>>, Pipeline)
    BY <1>3 DEF GoDown, Pipeline
  <2>2. ticks' = <<Pipeline>>
    BY <2>1
  <2>3. ~closed
    BY <1>3 DEF Told
  <2> QED
    BY <1>3, <2>1, <2>2, <2>3 DEF Told
\* no tick but that of the pipeline is left
<1>4. ASSUME down, NEW job, Tick(job) PROVE job = Pipeline /\ ticks = <<Pipeline>>
  <2>1. ticks # <<>> /\ job = ticks[1]
    BY <1>4, Ticked
  <2> QED
    BY <1>4, <2>1 DEF Told
<1>5. ASSUME NEW m \in Messages, Register(m) PROVE Told'
  <2>1. ~down /\ UNCHANGED <<down, closed>>
    BY <1>5, Registers DEF Register, helper
  <2> QED
    BY <1>2, <2>1
<1>6. CASE PipelineEnds
  <2>1. /\ Tick(Pipeline) /\ closed' = TRUE /\ ticks' = Tail(ticks) /\ UNCHANGED <<held, down, toClient>>
        /\ status' = [m \in Messages |-> IF m = held /\ status[m] = "waiting" THEN "failed" ELSE status[m]]
    BY <1>6 DEF PipelineEnds, Pipeline
  <2>2. Pipeline = ticks[1] /\ Len(ticks) \in Nat \ {0}
    BY <2>1, Ticked
  <2>3. down
    <3>1. 1 \in 1..Len(ticks) /\ ticks[1].type = "pipeline"
      BY <2>2 DEF Pipeline
    <3> QED
      BY <3>1 DEF LastClose
  <2>4. ticks = <<Pipeline>> /\ toClient = <<>>
    BY <1>4, <2>1, <2>3 DEF Told
  <2>5. ticks' = <<>>
    BY <2>1, <2>4
  <2>6. held = None \/ status'[held] # "waiting"
    BY <1>0, <2>1
  <2> QED
    BY <2>1, <2>3, <2>4, <2>5, <2>6 DEF Told
<1>7. ASSUME NEW job, HandleAnswer(job) \/ HandleStray(job) PROVE Told'
  BY <1>2, <1>7 DEF HandleAnswer, HandleStray, helper
<1>8. ASSUME NEW job, HandleClose(job), job.type = "method" PROVE Told'
  <2>1. /\ Tick(job) /\ ~down /\ job.f = "close" /\ GoDown(Tail(ticks)) /\ UNCHANGED closed
    BY <1>8 DEF HandleClose, helper
  <2>2. /\ job = ticks[1] /\ Len(ticks) \in Nat \ {0} /\ Tail(ticks) \in Seq(Jobs)
        /\ Len(Tail(ticks)) = Len(ticks) - 1
    BY <2>1, Ticked
  <2>3. 1 \in 1..Len(ticks) /\ ticks[1].type = "method" /\ ticks[1].f = "close"
    BY <1>8, <2>1, <2>2
  <2>4. 1 = Len(ticks)
    BY <2>3 DEF LastClose
  <2>5. Tail(ticks) = <<>>
    BY <2>1, <2>4, LastTick
  <2> QED
    BY <1>3, <2>1, <2>5
<1>9. CASE WriteRejected \/ Finish
  <2>1. UNCHANGED <<closed, held, status>> /\ GoDown(ticks)
    BY <1>9 DEF WriteRejected, Finish, helper
  <2>2. CASE ~down
    <3>1. Continue /\ (current = None \/ call[current] # "scheduled")
      BY <1>9 DEF WriteRejected, Finish, Finished
    <3>2. ticks = <<>>
      BY <2>2, <3>1, NoTickWaits
    <3> QED
      BY <1>3, <2>1, <2>2, <3>2
  <2>3. CASE down
    BY <2>1, <2>3 DEF GoDown, Told
  <2> QED
    BY <2>2, <2>3
<1>10. CASE ConnectionFails
  BY <1>3, <1>10 DEF ConnectionFails, Turn, BeginTurn, Quiet, helper
<1>11. CASE Take \/ ChannelOpened
  BY <1>2, <1>11 DEF Take, Ready, ChannelOpened, helper
<1>12. CASE Decode
  <2>1. toClient # <<>>
    <3>1. PICK k \in 1..Len(toClient) : Len(toClient) \in Nat
      BY <1>12, Decodes
    <3> QED
      BY <3>1
  <2>2. UNCHANGED <<down, closed>>
    BY <1>12 DEF Decode, helper
  <2> QED
    BY <1>2, <2>1, <2>2 DEF Told
<1>13. CASE Settle
  <2>1. held' = None /\ UNCHANGED <<closed, down, toClient, ticks>>
    BY <1>13 DEF Settle
  <2> QED
    BY <2>1 DEF Told
<1>14. ASSUME NEW m \in Messages, Publish(m) PROVE Told'
  <2>1. UNCHANGED <<closed, down, toClient, ticks>>
    BY <1>14 DEF Publish
  <2>2. CASE closed
    <3>1. held' = held /\ status' = [status EXCEPT ![m] = "refused"]
      BY <1>14, <2>2 DEF Publish
    <3>2. \A n \in Messages : status'[n] = "waiting" => status[n] = "waiting"
      BY <3>1 DEF Stages
    <3> QED
      BY <1>1, <2>1, <3>1, <3>2
  <2>3. CASE ~closed
    BY <2>1, <2>3 DEF Told
  <2> QED
    BY <2>2, <2>3
<1>15. ASSUME NEW m \in Messages, SendFrame(m) \/ BodyFails(m) PROVE Told'
  BY <1>1, <1>15 DEF SendFrame, BodyFails, helper
<1>16. CASE BrokerReads
  <2>1. UNCHANGED <<held, closed, status, down, ticks>> /\ (toClient' = toClient \/ \E frames : Send(frames))
    BY <1>16 DEF BrokerReads, helper
  <2>2. down => toClient' = toClient
    BY <2>1 DEF Send
  <2> QED
    BY <1>1, <1>2, <2>1, <2>2
<1>17. CASE Close \/ CloseRefused \/ UNCHANGED vars
  BY <1>1, <1>17 DEF CloseRefused, Close, vars, helper
<1> QED
  BY <1>5, <1>6, <1>7, <1>8, <1>9, <1>10, <1>11, <1>12, <1>13, <1>14, <1>15, <1>16, <1>17
     DEF Next, Ticks, Continues

\* current_promise follows the line
LEMMA HeldIsLastNext == ASSUME Stages, Sent, Scheduled, HeldIsLast, [Next]_vars PROVE HeldIsLast'
<1>0. (down => down') /\ queue \in Seq(Messages)
  BY Grows DEF Stages
<1>1. ASSUME UNCHANGED <<held, queue, current>> PROVE HeldIsLast'
  BY <1>0, <1>1 DEF HeldIsLast
<1>2. ASSUME NEW m \in Messages, Publish(m) PROVE HeldIsLast'
  <2>1. UNCHANGED <<held, queue, current>> \/ (held' = m /\ queue' = Append(queue, m))
    BY <1>2 DEF Publish
  <2>2. CASE held' = m /\ queue' = Append(queue, m)
    <3>1. Len(queue') = Len(queue) + 1 /\ queue'[Len(queue) + 1] = m /\ Len(queue) \in Nat
      BY <1>0, <2>2, AppendProperties, LenProperties
    <3>2. queue' # <<>>
      BY <3>1
    <3> QED
      BY <2>2, <3>1, <3>2 DEF HeldIsLast
  <2> QED
    BY <1>1, <2>1, <2>2
<1>3. CASE Take
  <2>1. queue # <<>> /\ current' = Head(queue) /\ queue' = Tail(queue) /\ held' = held
    BY <1>3 DEF Take, Ready, helper
  <2>2. /\ Len(queue) \in Nat \ {0} /\ Head(queue) = queue[1] /\ Len(Tail(queue)) = Len(queue) - 1
        /\ \A i \in 1..Len(Tail(queue)) : Tail(queue)[i] = queue[i + 1]
    BY <1>0, <2>1, HeadTailProperties, LenProperties, EmptySeq
  <2>3. CASE Tail(queue) = <<>>
    <3>1. Len(queue) = 1
      BY <2>2, <2>3
    <3> QED
      BY <2>1, <2>2, <2>3, <3>1 DEF HeldIsLast
  <2>4. CASE Tail(queue) # <<>>
    <3>1. Tail(queue) \in Seq(Messages)
      BY <1>0, <2>1, HeadTailProperties
    <3>2. Len(Tail(queue)) \in 1..Len(Tail(queue))
      BY <2>4, <3>1, EmptySeq, LenProperties
    <3>3. Tail(queue)[Len(Tail(queue))] = queue[Len(queue)]
      BY <2>2, <3>2
    <3> QED
      BY <2>1, <2>4, <3>3 DEF HeldIsLast
  <2> QED
    BY <2>3, <2>4
<1>4. CASE Settle
  BY <1>4 DEF Settle, HeldIsLast
<1>5. CASE WriteRejected
  <2>1. down' /\ UNCHANGED <<held, queue>>
    BY <1>5 DEF WriteRejected, GoDown, helper
  <2> QED
    BY <2>1 DEF HeldIsLast
<1>6. CASE \/ PipelineEnds \/ Close \/ Finish \/ ChannelOpened \/ Decode \/ ConnectionFails
           \/ BrokerReads \/ CloseRefused \/ UNCHANGED vars
  BY <1>1, <1>6 DEF PipelineEnds, Close, Finish, ChannelOpened, Decode, ConnectionFails, BrokerReads,
     CloseRefused, vars, helper, stream
<1>7. ASSUME NEW m \in Messages, Register(m) \/ SendFrame(m) \/ BodyFails(m) PROVE HeldIsLast'
  BY <1>1, <1>7 DEF Register, SendFrame, BodyFails, helper
<1>8. ASSUME NEW job, HandleAnswer(job) \/ HandleStray(job) \/ HandleClose(job) PROVE HeldIsLast'
  BY <1>1, <1>8 DEF HandleAnswer, HandleStray, HandleClose, helper, stream
<1> QED
  BY <1>2, <1>3, <1>4, <1>5, <1>6, <1>7, <1>8 DEF Next, Ticks, Continues

\* every stage of the message that is written has its next step
LEMMA LineMovesHolds == Inv /\ SentOn /\ Made /\ WaitsInLine => LineMoves
<1> SUFFICES ASSUME Inv, SentOn, Made, WaitsInLine, ~crashed, ~down, ~parted,
                    ending = "asked" \/ \E m \in Messages : status[m] = "waiting",
                    ~Runs
             PROVE  current \in Bare /\ Pieces[current] = 0
  BY DEF LineMoves
<1>1. Stages /\ Queued /\ Sent /\ Scheduled /\ Receiving /\ Phase
  BY DEF Inv
<1>2. /\ ticks = <<>> /\ ~Continuations /\ channel # "opening" /\ sending = {} /\ toClient = <<>>
      /\ toPeer = <<>> \/ offence
  BY DEF Runs
<1>3. current # None
  <2>1. SUFFICES ASSUME current = None PROVE FALSE
    OBVIOUS
  <2>2. queue = <<>>
    BY <1>2, <2>1 DEF Continuations, Ready
  <2>3. ending # "asked"
    BY <1>2, <2>1, <2>2 DEF Continuations, Finished
  <2>4. PICK m \in Messages : status[m] = "waiting"
    BY <2>3
  <2>5. Listed(m)
    BY <2>1, <2>4, PublisherAssumption DEF WaitsInLine
  <2> QED
    BY <2>2, <2>5 DEF Listed
<1>4. current \in Messages
  BY <1>1, <1>3 DEF Stages
<1>5. call[current] = "pending"
  <2>1. call[current] \notin {"acked", "returned", "rejected"}
    BY <1>2, <1>3 DEF Continuations, Answered
  <2>2. call[current] # "none"
    BY <1>1, <1>2, <1>3 DEF Scheduled, Stages
  <2>3. call[current] # "scheduled"
    BY <1>2, <1>3 DEF Made
  <2> QED
    BY <1>1, <1>4, <2>1, <2>2, <2>3 DEF Stages
<1>6. ~Offended /\ ~Answering
  <2>1. ~Coming(<<[f |-> "close", m |-> None]>>, <<Method("close", None)>>)
    BY <1>2 DEF Coming
  <2>2. ~Coming(Answer(current), AnswerJobs(current))
    BY <1>2 DEF Coming, Answer, AnswerJobs
  <2> QED
    BY <2>1, <2>2 DEF Offended, Answering
<1>7. Sending
  BY <1>1, <1>3, <1>5, <1>6 DEF Phase, Unsent, Returning, Settling
<1>8. Carries(current) /\ toPeer = <<>>
  BY <1>2, <1>7 DEF Sending
<1>9. Read(current) = sent[current] /\ Read(current) < Pieces[current] + 2
      /\ (current \in Bare => Read(current) <= 1)
  <2>1. Len(toPeer) = 0 /\ sent[current] \in Nat
    BY <1>1, <1>4, <1>8 DEF Stages
  <2>2. Read(current) \in Int
    BY <1>1, <1>4, <1>8, LengthOf, LenProperties DEF Receiving, Carries, Read
  <2> QED
    BY <1>8, <2>1, <2>2 DEF Carries
<1>10. sent[current] = Length(current)
  <2>1. sent[current] <= Length(current) /\ ~(sent[current] < Length(current))
    BY <1>1, <1>2, <1>4, <1>5 DEF Sent, SentOn
  <2> QED
    BY <1>1, <1>4, <2>1, LengthOf DEF Stages
<1> QED
  BY <1>4, <1>9, <1>10, LengthOf DEF Length

(* A publish() that waits is in the line of the stream until the           *)
(* connection is lost, and the line moves: as long as somebody waits for a *)
(* confirm or for the end, and no return came without its ack, there is    *)
(* a tick, a continuation, a frame to write or to read, or an answer to    *)
(* decode, except for one content that never ends: without properties      *)
(* publish_header writes nothing (proto/api.ts:2385), and a body that is   *)
(* empty does not make up for it.  When the connection is lost, the        *)
(* pipeline calls back and rejects current_promise (client.ts:211).  That  *)
(* is the promise of the last publish(), or it has been cleared since by   *)
(* the callback of an earlier message (client.ts:243): then nobody is told,*)
(* not even the last publish(), and an earlier one that waits never is.    *)
THEOREM PublishersWaitInLine == Spec => [](WaitsInLine /\ LineMoves /\ HeldIsLast /\ Told)
<1> DEFINE More == WaitsInLine /\ SentOn /\ Made /\ LastClose /\ HeldIsLast /\ Told
<1>1. Init => More
  <2> SUFFICES ASSUME Init PROVE More
    OBVIOUS
  <2>1. Len(ticks) = 0 /\ Len(toClient) = 0 /\ ~down /\ ~closed
    BY DEF Init, LoopInit
  <2>2. current = None /\ held = None /\ \A m \in Messages : call[m] = "none" /\ status[m] = "new"
    BY DEF Init
  <2> QED
    BY <2>1, <2>2 DEF WaitsInLine, SentOn, Made, LastClose, HeldIsLast, Told
<1>2. Inv /\ More /\ [Next]_vars => More'
  <2> SUFFICES ASSUME Inv, More, [Next]_vars PROVE More'
    OBVIOUS
  <2>1. Stages /\ Queued /\ Sent /\ Scheduled
    BY DEF Inv
  <2> QED
    BY <2>1, WaitsNext, SentOnNext, MadeNext, LastCloseNext, HeldIsLastNext,
       ToldNext
<1>3. Inv /\ More => WaitsInLine /\ LineMoves /\ HeldIsLast /\ Told
  BY LineMovesHolds
<1>4. Spec => []More
  <2> HIDE DEF More
  <2> QED
    BY <1>1, <1>2, InvAlways, PTL DEF Spec
<1> QED
  BY <1>3, <1>4, InvAlways, PTL
=============================================================================
