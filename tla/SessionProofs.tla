--------------------------- MODULE SessionProofs ---------------------------
(***************************************************************************)
(* For every set of users and servers, every length of a second and every  *)
(* margin: the limits of an open connection are those that both ends know, *)
(* a silent server is found out in time, the timers of a connection stop   *)
(* with it, it ends quietly, and it does not end while both ends live.     *)
(* All of it rests on the order of open(): which answer can come at which  *)
(* place (Handshake).                                                      *)
(***************************************************************************)
EXTENDS Session, SequenceTheorems, TLAPS

Messages ==
    {"start", "start_old", "start_other", "secure", "tune", "open_ok", "close", "update_secret"}
Jobs == Messages \cup {"ask", "ended", "drop"}

Places == {"start", "tune", "told", "open", "opened", "failed"}

\* what the await of open() can have been answered with
Possible(p) ==
    {None} \cup (IF p = "start" THEN {"rejected", "start", "start_old", "start_other"}
                 ELSE IF p = "tune" THEN {"rejected", "secure", "tune"}
                 ELSE IF p = "told" THEN {"rejected", "written"}
                 ELSE IF p = "open" THEN {"rejected", "open_ok"} ELSE {})

NoAsk(jobs)  == \A i \in 1..Len(jobs) : jobs[i] # "ask"
OneAsk(jobs) == \A i, j \in 1..Len(jobs) : jobs[i] = "ask" /\ jobs[j] = "ask" => i = j
Own(jobs)    == \A i \in 1..Len(jobs) : jobs[i] \notin Messages

Asked == place \in {"start", "tune", "open"} /\ answer = None

\* open() has one call at a time: to be made, or registered, or answered
Handshake ==
    /\ place \in Places /\ answer \in Possible(place)
    /\ ticks \in Seq(Jobs) /\ toClient \in Seq(Messages)
    /\ OneAsk(ticks) /\ (NoAsk(ticks) \/ (Asked /\ awaiting = {}))
    /\ awaiting = {} \/ (Asked /\ awaiting = Responses[place] /\ NoAsk(ticks))

-----------------------------------------------------------------------------
(* The queue of ticks. *)
LEMMA FirstGone ==
    ASSUME NEW jobs \in Seq(Jobs), jobs # <<>>
    PROVE  /\ Tail(jobs) \in Seq(Jobs) /\ Head(jobs) = jobs[1] /\ Head(jobs) \in Jobs
           /\ OneAsk(jobs) => OneAsk(Tail(jobs))
           /\ NoAsk(jobs) => NoAsk(Tail(jobs)) /\ Head(jobs) # "ask"
           /\ OneAsk(jobs) /\ Head(jobs) = "ask" => NoAsk(Tail(jobs))
           /\ Own(jobs) => Own(Tail(jobs)) /\ Head(jobs) \notin Messages
<1>1. Len(jobs) \in Nat /\ Len(jobs) # 0
  BY EmptySeq
<1>2. Tail(jobs) \in Seq(Jobs) /\ Head(jobs) = jobs[1] /\ Head(jobs) \in Jobs
  BY <1>1
<1>3. Len(Tail(jobs)) = Len(jobs) - 1
  BY <1>1
<1>4. \A i \in 1..Len(Tail(jobs)) : Tail(jobs)[i] = jobs[i + 1] /\ i + 1 \in 1..Len(jobs)
  BY <1>1, <1>3
<1>5. 1 \in 1..Len(jobs)
  BY <1>1
<1>6. OneAsk(jobs) => OneAsk(Tail(jobs))
  BY <1>1, <1>3, <1>4 DEF OneAsk
<1>7. NoAsk(jobs) => NoAsk(Tail(jobs)) /\ Head(jobs) # "ask"
  BY <1>2, <1>4, <1>5 DEF NoAsk
<1>8. OneAsk(jobs) /\ Head(jobs) = "ask" => NoAsk(Tail(jobs))
  <2> SUFFICES ASSUME OneAsk(jobs), Head(jobs) = "ask", NEW i \in 1..Len(Tail(jobs)), Tail(jobs)[i] = "ask"
               PROVE  FALSE
    BY DEF NoAsk
  <2>1. jobs[i + 1] = "ask" /\ i + 1 \in 1..Len(jobs)
    BY <1>4
  <2>2. i + 1 = 1
    BY <2>1, <1>2, <1>5 DEF OneAsk
  <2> QED
    BY <2>2
<1>9. Own(jobs) => Own(Tail(jobs)) /\ Head(jobs) \notin Messages
  BY <1>2, <1>4, <1>5 DEF Own
<1> QED
  BY <1>2, <1>6, <1>7, <1>8, <1>9

LEMMA LastAdded ==
    ASSUME NEW jobs \in Seq(Jobs), NEW job \in {"ask", "ended", "drop"}
    PROVE  /\ Append(jobs, job) \in Seq(Jobs)
           /\ job # "ask" /\ OneAsk(jobs) => OneAsk(Append(jobs, job))
           /\ job # "ask" /\ NoAsk(jobs) => NoAsk(Append(jobs, job))
           /\ NoAsk(jobs) => OneAsk(Append(jobs, job))
           /\ Own(jobs) => Own(Append(jobs, job))
<1>1. Append(jobs, job) \in Seq(Jobs) /\ Len(Append(jobs, job)) = Len(jobs) + 1 /\ Len(jobs) \in Nat
  BY DEF Jobs
<1>2. \A i \in 1..Len(jobs) + 1 :
        \/ i \in 1..Len(jobs) /\ Append(jobs, job)[i] = jobs[i]
        \/ i = Len(jobs) + 1 /\ Append(jobs, job)[i] = job
  BY <1>1
<1> QED
  BY <1>1, <1>2 DEF OneAsk, NoAsk, Own, Messages

LEMMA PieceTaken ==
    ASSUME NEW stream \in Seq(Messages), NEW n \in 1..Len(stream)
    PROVE  /\ SubSeq(stream, 1, n) \in Seq(Jobs)
           /\ SubSeq(stream, n + 1, Len(stream)) \in Seq(Messages)
           /\ NoAsk(SubSeq(stream, 1, n)) /\ OneAsk(SubSeq(stream, 1, n))
<1>1. SubSeq(stream, 1, n) \in Seq(Messages) /\ Len(SubSeq(stream, 1, n)) = n
  BY SubSeqProperties
<1>2. SubSeq(stream, n + 1, Len(stream)) \in Seq(Messages)
  BY SubSeqProperties
<1>3. \A i \in 1..Len(SubSeq(stream, 1, n)) : SubSeq(stream, 1, n)[i] \in Messages
  BY <1>1
<1>4. SubSeq(stream, 1, n) \in Seq(Jobs)
  BY <1>1 DEF Jobs
<1> QED
  BY <1>2, <1>3, <1>4 DEF NoAsk, OneAsk, Messages

-----------------------------------------------------------------------------
(* One call at a time. *)
LEMMA Unmoved ==
    ASSUME Handshake, UNCHANGED <<place, answer, ticks, toClient, awaiting>>
    PROVE  Handshake'
BY DEF Handshake, Asked, NoAsk, OneAsk

LEMMA DestroyedOnce ==
    ASSUME Handshake, NEW why, NEW rest \in Seq(Jobs), OneAsk(rest),
           NoAsk(rest) \/ (Asked /\ awaiting = {}),
           Destroy(why, rest), place' = place, toClient' = toClient
    PROVE  Handshake'
<1>1. /\ ticks' = rest \/ ticks' = Append(rest, "drop")
      /\ awaiting' = {} /\ place' \in Places
  BY DEF Destroy, DestroyOnce, Handshake
<1>2. ticks' \in Seq(Jobs) /\ OneAsk(ticks') /\ (NoAsk(rest) => NoAsk(ticks'))
  BY <1>1, LastAdded
<1>3. answer' \in Possible(place)
  BY DEF Destroy, Handshake, Asked, Possible, Places
<1>4. CASE NoAsk(rest)
  BY <1>1, <1>2, <1>3, <1>4 DEF Handshake, NoAsk, OneAsk
<1>5. CASE Asked /\ awaiting = {}
  <2>1. answer' = answer
    BY <1>5 DEF Destroy, Asked
  <2> QED
    BY <1>1, <1>2, <1>3, <1>5, <2>1 DEF Handshake, Asked, NoAsk, OneAsk
<1> QED
  BY <1>4, <1>5

LEMMA HandshakeKept ==
    ASSUME Handshake, [Next]_vars
    PROVE  Handshake'
<1>0. ticks \in Seq(Jobs) /\ toClient \in Seq(Messages)
  BY DEF Handshake
<1>1. CASE AskTick
  <2>1. ticks # <<>> /\ Head(ticks) = "ask" /\ ticks' = Tail(ticks) /\ awaiting' = Responses[place]
        /\ place' = place /\ answer' = answer /\ toClient' = toClient
    BY <1>1 DEF AskTick, Tick, RunTick
  <2>2. NoAsk(Tail(ticks)) /\ OneAsk(Tail(ticks)) /\ Tail(ticks) \in Seq(Jobs) /\ ~NoAsk(ticks)
    BY <2>1, <1>0, FirstGone DEF Handshake
  <2>3. Asked
    BY <2>2 DEF Handshake
  <2> QED
    BY <2>1, <2>2, <2>3 DEF Handshake, Asked, NoAsk, OneAsk
<1>2. CASE MethodTick
  <2> DEFINE m == Head(ticks)
             rest == Tail(ticks)
  <2>1. ticks # <<>> /\ m \notin {"ask", "ended", "drop"} /\ place' = place /\ toClient' = toClient
    BY <1>2 DEF MethodTick, Tick, RunTick
  <2>2. rest \in Seq(Jobs) /\ OneAsk(rest) /\ (NoAsk(ticks) => NoAsk(rest)) /\ m \in Messages
    BY <2>1, <1>0, FirstGone DEF Handshake, Jobs
  <2>3. NoAsk(rest) \/ (Asked /\ awaiting = {})
    BY <2>2 DEF Handshake
  <2>4. \/ NoDestroy /\ ticks' = rest
        \/ m \in awaiting /\ answer' = m /\ awaiting' = {} /\ ticks' = rest
        \/ Destroy("update_secret", rest)
    BY <1>2 DEF MethodTick
  <2>5. CASE NoDestroy /\ ticks' = rest
    BY <2>1, <2>2, <2>3, <2>5 DEF Handshake, NoDestroy, Asked, NoAsk, OneAsk
  <2>6. CASE m \in awaiting /\ answer' = m /\ awaiting' = {} /\ ticks' = rest
    <3>1. Asked /\ m \in Responses[place] /\ NoAsk(ticks)
      BY <2>6 DEF Handshake
    <3>2. m \in Possible(place)
      BY <3>1 DEF Asked, Responses, Possible
    <3> QED
      BY <2>1, <2>2, <2>6, <3>1, <3>2 DEF Handshake, NoAsk, OneAsk
  <2>7. CASE Destroy("update_secret", rest)
    BY <2>1, <2>2, <2>3, <2>7, DestroyedOnce
  <2> QED
    BY <2>4, <2>5, <2>6, <2>7
<1>3. CASE EndedTick
  <2>1. ticks # <<>> /\ place' = place /\ toClient' = toClient
        /\ ((NoDestroy /\ ticks' = Tail(ticks)) \/ Destroy(cause, Tail(ticks)))
    BY <1>3 DEF EndedTick, Tick, RunTick
  <2>2. Tail(ticks) \in Seq(Jobs) /\ OneAsk(Tail(ticks)) /\ (NoAsk(ticks) => NoAsk(Tail(ticks)))
    BY <2>1, <1>0, FirstGone DEF Handshake
  <2>3. NoAsk(Tail(ticks)) \/ (Asked /\ awaiting = {})
    BY <2>2 DEF Handshake
  <2>4. CASE NoDestroy /\ ticks' = Tail(ticks)
    BY <2>1, <2>2, <2>3, <2>4 DEF Handshake, NoDestroy, Asked, NoAsk, OneAsk
  <2>5. CASE Destroy(cause, Tail(ticks))
    BY <2>1, <2>2, <2>3, <2>5, DestroyedOnce
  <2> QED
    BY <2>1, <2>4, <2>5
<1>4. CASE DropTick
  <2>1. ticks # <<>> /\ ticks' = Tail(ticks) /\ UNCHANGED <<place, answer, awaiting, toClient>>
    BY <1>4 DEF DropTick, Tick, RunTick
  <2>2. Tail(ticks) \in Seq(Jobs) /\ OneAsk(Tail(ticks)) /\ (NoAsk(ticks) => NoAsk(Tail(ticks)))
    BY <2>1, <1>0, FirstGone DEF Handshake
  <2> QED
    BY <2>1, <2>2 DEF Handshake, Asked, NoAsk, OneAsk
<1>5. CASE Failing
  <2>1. answer # None /\ answer' = None /\ place' = "failed" /\ toClient' = toClient
    <3>1. answer \in {"rejected", "start_old", "start_other", "secure", "tune"}
      BY <1>5 DEF Failing, Continue
    <3> QED
      BY <1>5, <3>1 DEF Failing, Continue, Fail, None
  <2>2. NoAsk(ticks) /\ awaiting = {}
    BY <2>1 DEF Handshake, Asked
  <2>3. awaiting' = {} /\ (ticks' = ticks \/ ticks' = Append(ticks, "drop"))
    BY <1>5, <2>2 DEF Failing, Fail, DestroyOnce
  <2>4. ticks' \in Seq(Jobs) /\ NoAsk(ticks') /\ OneAsk(ticks')
    BY <2>2, <2>3, <1>0, LastAdded DEF Handshake
  <2> QED
    BY <2>1, <2>3, <2>4, <1>0 DEF Handshake, Places, Possible, NoAsk, OneAsk
<1>6. CASE Started
  <2>1. answer # None /\ answer' = None /\ place' = "tune" /\ ticks' = Append(ticks, "ask")
        /\ UNCHANGED <<awaiting, toClient>>
    BY <1>6 DEF Started, Continue, Ask, None
  <2> QED
    BY <2>1, <1>0, LastAdded DEF Handshake, Asked, Places, Possible, NoAsk, OneAsk
<1>7. CASE Tuned
  <2>1. answer = "tune" /\ answer # None /\ answer' \in {None, "written"} /\ place' = "told"
        /\ UNCHANGED <<awaiting, toClient, ticks>>
    BY <1>7 DEF Tuned, None
  <2> QED
    BY <2>1 DEF Handshake, Asked, Places, Possible, NoAsk, OneAsk
<1>8. CASE Flushed
  <2>1. place = "told" /\ answer' = "written" /\ UNCHANGED <<place, awaiting, toClient, ticks>>
    BY <1>8 DEF Flushed
  <2> QED
    BY <2>1 DEF Handshake, Asked, Places, Possible, NoAsk, OneAsk
<1>9. CASE Told
  <2>1. answer # None /\ answer' = None /\ place' = "open" /\ ticks' = Append(ticks, "ask")
        /\ UNCHANGED <<awaiting, toClient>>
    BY <1>9 DEF Told, Continue, Ask, None
  <2> QED
    BY <2>1, <1>0, LastAdded DEF Handshake, Asked, Places, Possible, NoAsk, OneAsk
<1>10. CASE Opened
  <2>1. answer # None /\ answer' = None /\ place' = "opened" /\ UNCHANGED <<awaiting, toClient, ticks>>
    BY <1>10 DEF Opened, Continue, None
  <2> QED
    BY <2>1 DEF Handshake, Asked, Places, Possible, NoAsk, OneAsk
<1>11. CASE ContinueClose
  BY <1>11, <1>0, DestroyedOnce DEF ContinueClose, Handshake
<1>12. CASE CheckHeartbeat
  <2>1. \/ Destroy("heartbeat", ticks) /\ UNCHANGED <<place, toClient>>
        \/ UNCHANGED <<place, answer, ticks, toClient, awaiting>>
    BY <1>12 DEF CheckHeartbeat
  <2> QED
    BY <2>1, <1>0, DestroyedOnce, Unmoved DEF Handshake
<1>13. CASE SocketTimeout \/ GiveUp
  <2>1. ticks' = Append(ticks, "ended") /\ UNCHANGED <<place, answer, toClient, awaiting>>
    BY <1>13 DEF SocketTimeout, GiveUp, SocketEnds
  <2> QED
    BY <2>1, <1>0, LastAdded DEF Handshake, Asked, NoAsk, OneAsk
<1>14. CASE Deliver
  <2>1. PICK n \in 1..Least2(2, Len(toClient)) :
          /\ Turn
          /\ ticks' = SubSeq(toClient, 1, n)
          /\ toClient' = SubSeq(toClient, n + 1, Len(toClient))
          /\ UNCHANGED <<place, answer, awaiting>>
    BY <1>14 DEF Deliver
  <2>2. n \in 1..Len(toClient)
    BY <1>0 DEF Least2
  <2>3. ticks' \in Seq(Jobs) /\ toClient' \in Seq(Messages) /\ NoAsk(ticks') /\ OneAsk(ticks')
    BY <1>0, <2>1, <2>2, PieceTaken
  <2> QED
    BY <2>1, <2>3 DEF Handshake, Asked, NoAsk, OneAsk
<1>15. CASE Serve
  <2>1. UNCHANGED <<place, answer, ticks, awaiting>> /\ toClient' \in Seq(Messages)
    <3>1. toClient' = toClient \/ \E a \in Messages : toClient' = Append(toClient, a)
      BY <1>15 DEF Serve, Answers, Messages
    <3> QED
      BY <1>15, <1>0, <3>1 DEF Serve, ClientRuns, loop
  <2> QED
    BY <2>1 DEF Handshake, Asked, NoAsk, OneAsk
<1>16. CASE Interrupt
  <2>1. UNCHANGED <<place, answer, ticks, awaiting>>
    BY <1>16 DEF Interrupt, ClientRuns, loop
  <2>2. PICK m \in {"close", "update_secret"} : toClient' = Append(toClient, m)
    BY <1>16 DEF Interrupt
  <2>3. toClient' \in Seq(Messages)
    BY <2>2, <1>0 DEF Messages
  <2> QED
    BY <2>1, <2>3 DEF Handshake, Asked, NoAsk, OneAsk
<1>17. CASE SendHeartbeat \/ Stop \/ Beat \/ Pass \/ UNCHANGED vars
  <2>1. UNCHANGED <<place, answer, ticks, toClient, awaiting>>
    BY <1>17 DEF SendHeartbeat, Stop, Beat, Pass, ClientRuns, loop, vars
  <2> QED
    BY <2>1, Unmoved
<1> QED
  BY <1>1, <1>2, <1>3, <1>4, <1>5, <1>6, <1>7, <1>8, <1>9, <1>10, <1>11, <1>12, <1>13, <1>14,
     <1>15, <1>16, <1>17 DEF Next, Client, Environment

LEMMA HandshakeFirst == Init => Handshake
<1> SUFFICES ASSUME Init PROVE Handshake
  OBVIOUS
<1>1. ticks = <<"ask">> /\ toClient = <<>> /\ place = "start" /\ answer = None /\ awaiting = {}
  BY DEF Init
<1>2. ticks \in Seq(Jobs) /\ toClient \in Seq(Messages) /\ Len(ticks) = 1
  BY <1>1 DEF Jobs
<1> QED
  BY <1>1, <1>2 DEF Handshake, Places, Possible, OneAsk, Asked

LEMMA HandshakeAlways == Spec => []Handshake
<1> QED
  BY HandshakeFirst, HandshakeKept, PTL DEF Spec

-----------------------------------------------------------------------------
(* Limits.                                                                 *)

UserLimits == [channel_max : Nat, frame_max : Nat, heartbeat : Nat, timeout : Nat]
TuneLimits == [channel_max : Nat, frame_max : Nat, heartbeat : Nat]

\* the limits are settled in the step that tells them, and stay
LimitsSettled ==
    /\ options.channel_max = tune_ok.channel_max /\ options.frame_max = tune_ok.frame_max
    /\ options.heartbeat = tune_ok.heartbeat
    /\ 0 < options.channel_max /\ options.channel_max <= tune.channel_max
    /\ options.frame_max <= tune.frame_max
    /\ user.channel_max # 0 => options.channel_max <= user.channel_max
    /\ user.frame_max # 0 => options.frame_max <= user.frame_max
    /\ options.heartbeat = user.heartbeat

Limits ==
    /\ user \in UserLimits /\ tune \in TuneLimits
    /\ options \in UserLimits /\ tune_ok \in TuneLimits
    /\ place \in {"start", "tune"} => options = user
    /\ place \in {"told", "open", "opened"} => LimitsSettled
    /\ opened => place = "opened"

\* what a step does to the limits, and where open() can be when it does so
LEMMA LimitsMove ==
    ASSUME Handshake, [Next]_vars
    PROVE  /\ user' = user /\ tune' = tune
           /\ \/ UNCHANGED <<settled, place, opened>>
              \/ place' = "failed" /\ place # "opened" /\ UNCHANGED <<settled, opened>>
              \/ place = "start" /\ place' = "tune" /\ UNCHANGED <<settled, opened>>
              \/ place = "tune" /\ place' = "told" /\ Tuned
              \/ place = "told" /\ place' = "open" /\ UNCHANGED <<settled, opened>>
              \/ place = "open" /\ place' = "opened" /\ UNCHANGED settled
<1>1. CASE Failing
  <2>1. answer # None /\ place' = "failed" /\ UNCHANGED <<user, tune, settled, opened>>
    BY <1>1 DEF Failing, Continue, Fail, None
  <2> QED
    BY <2>1 DEF Handshake, Possible
<1>2. CASE Started
  BY <1>2 DEF Started, Continue, Ask, Handshake, Possible, Places, None, settled
<1>3. CASE Tuned
  <2>1. answer = "tune" /\ place' = "told" /\ UNCHANGED <<user, tune>>
    BY <1>3 DEF Tuned
  <2> QED
    BY <1>3, <2>1 DEF Handshake, Possible, Places, None
<1>4. CASE Told
  BY <1>4 DEF Told, Continue, Ask, Handshake, Possible, Places, None, settled
<1>5. CASE Opened
  BY <1>5 DEF Opened, Continue, Handshake, Possible, Places, None, settled
<1>6. CASE AskTick \/ MethodTick \/ EndedTick \/ DropTick \/ Flushed \/ ContinueClose
  BY <1>6 DEF AskTick, MethodTick, EndedTick, DropTick, Flushed, ContinueClose, settled
<1>7. CASE SendHeartbeat \/ CheckHeartbeat \/ SocketTimeout \/ Deliver \/ Beat \/ GiveUp
  BY <1>7 DEF SendHeartbeat, CheckHeartbeat, SocketTimeout, GiveUp, SocketEnds, Deliver, Beat, settled
<1>8. CASE Serve \/ Interrupt \/ Stop \/ Pass \/ UNCHANGED vars
  BY <1>8 DEF Serve, Interrupt, Stop, Pass, ClientRuns, settled, vars
<1> QED
  BY <1>1, <1>2, <1>3, <1>4, <1>5, <1>6, <1>7, <1>8 DEF Next, Client, Environment

LEMMA LimitsKept ==
    ASSUME Handshake, Limits, [Next]_vars
    PROVE  Limits'
<1>1. CASE place = "tune" /\ place' = "told" /\ Tuned
  <2>1. options = user /\ user \in UserLimits /\ tune \in TuneLimits /\ user' = user /\ tune' = tune
        /\ opened' = opened /\ ~opened /\ tune.channel_max # 0
    BY <1>1 DEF Limits, Tuned
  <2> DEFINE channels == Least(user.channel_max, tune.channel_max)
             frames == Least(user.frame_max, tune.frame_max)
  <2>2. /\ channels \in Nat /\ 0 < channels /\ channels <= tune.channel_max
        /\ user.channel_max # 0 => channels <= user.channel_max
    BY <2>1 DEF Least, UserLimits, TuneLimits
  <2>3. /\ frames \in Nat /\ frames <= tune.frame_max
        /\ user.frame_max # 0 => frames <= user.frame_max
    BY <2>1 DEF Least, UserLimits, TuneLimits
  <2>4. tune_ok' = [channel_max |-> channels, frame_max |-> frames, heartbeat |-> user.heartbeat]
        /\ options' = [user EXCEPT !.channel_max = channels, !.frame_max = frames]
    BY <1>1, <2>1 DEF Tuned, Settled
  <2>5. tune_ok'.channel_max = channels /\ tune_ok'.frame_max = frames
        /\ options'.channel_max = channels /\ options'.frame_max = frames
        /\ options'.heartbeat = user.heartbeat /\ tune_ok'.heartbeat = user.heartbeat
    <3> HIDE DEF channels, frames
    <3> QED
      BY <2>1, <2>4 DEF UserLimits
  <2>6. LimitsSettled'
    BY <2>1, <2>2, <2>3, <2>5 DEF LimitsSettled
  <2>7. options' \in UserLimits /\ tune_ok' \in TuneLimits
    <3> HIDE DEF channels, frames
    <3> QED
      BY <2>1, <2>2, <2>3, <2>4 DEF UserLimits, TuneLimits
  <2> QED
    BY <1>1, <2>1, <2>6, <2>7 DEF Limits
<1>2. CASE ~(place = "tune" /\ place' = "told" /\ Tuned)
  <2>1. UNCHANGED <<user, tune, options, tune_ok>>
    BY <1>2, LimitsMove DEF settled
  <2>2. LimitsSettled => LimitsSettled'
    BY <2>1 DEF LimitsSettled
  <2> QED
    BY <1>2, <2>1, <2>2, LimitsMove DEF Limits
<1> QED
  BY <1>1, <1>2

LEMMA LimitsFirst == Init => Limits
BY SessionAssumption DEF Init, Limits, UserLimits, TuneLimits, Unsettled

LEMMA LimitsAlways == Spec => []Limits
<1> QED
  BY HandshakeAlways, LimitsFirst, LimitsKept, PTL DEF Spec

\* For every user and every server: an open connection goes by limits that it told the server and
\* that exceed neither the offer nor what the user asked for, whatever came between the calls of
\* open (Connection.open, channel.ts).
THEOREM SessionLimitsAgree == Spec => []LimitsAgree
<1>1. Limits => LimitsAgree
  BY DEF Limits, LimitsSettled, LimitsAgree
<1> QED
  BY <1>1, LimitsAlways, PTL

-----------------------------------------------------------------------------
(* Silence.                                                                *)

Interval == user.heartbeat * SECOND

Allowed == Interval + Margin(Interval) + HB_MOF_MAX

Watched == opened /\ ~destroyed /\ user.heartbeat # 0

\* what has not been handled has just arrived; the check comes while the silence is allowed
Silence ==
    /\ age \in Nat
    /\ ~Own(ticks) \/ answer = "open_ok" => age = 0
    /\ Watched => check \in 0..HB_MOF_MAX /\ age + check <= Allowed

LEMMA MarginIsNat ==
    ASSUME NEW hb \in Nat
    PROVE  Margin(hb) \in Nat
<1>1. hb \div HB_MOF_DENOMINATOR \in Int
  BY SessionAssumption
<1> QED
  BY <1>1, SessionAssumption DEF Margin, Least2, Greatest

LEMMA AllowedIsNat ==
    ASSUME Limits
    PROVE  Interval \in Nat /\ Margin(Interval) \in Nat /\ Allowed \in Nat /\ HB_MOF_MAX <= Allowed
<1>1. user.heartbeat \in Nat /\ SECOND \in Nat /\ HB_MOF_MAX \in Nat
  BY SessionAssumption DEF Limits, UserLimits
<1>2. Interval \in Nat
  BY <1>1 DEF Interval
<1>3. Margin(Interval) \in Nat
  BY <1>2, MarginIsNat
<1> QED
  BY <1>1, <1>2, <1>3 DEF Allowed

LEMMA LongestIsNat ==
    ASSUME Limits
    PROVE  Longest \in Nat
<1>1. user.heartbeat \in Nat /\ user.timeout \in Nat /\ SECOND \in Nat /\ HB_MOF_MAX \in Nat
  BY SessionAssumption DEF Limits, UserLimits
<1>2. 2 * user.heartbeat \in Nat
  BY <1>1
<1>3. (2 * user.heartbeat) * SECOND \in Nat
  BY <1>1, <1>2
<1> QED
  BY <1>1, <1>3 DEF Longest

\* the steps in which nothing is heard and no clock runs
LEMMA StillSilent ==
    ASSUME Silence, UNCHANGED <<age, user>>, Own(ticks) => Own(ticks'),
           answer' = "open_ok" => answer = "open_ok" \/ ~Own(ticks),
           Watched' => Watched /\ check' = check
    PROVE  Silence'
BY SMT DEF Silence, Allowed, Interval

\* the steps in which the server is heard
LEMMA Heard ==
    ASSUME Silence, Limits, age' = 0, UNCHANGED <<user, opened, destroyed, check>>
    PROVE  Silence'
<1>1. Allowed' = Allowed /\ (Watched' => Watched)
  BY DEF Allowed, Interval, Watched
<1>2. Watched' => check' \in 0..HB_MOF_MAX /\ age' + check' <= Allowed'
  BY <1>1, AllowedIsNat, SessionAssumption DEF Silence
<1> QED
  BY <1>2 DEF Silence

LEMMA SilenceKept ==
    ASSUME Handshake, Limits, Silence, [Next]_vars
    PROVE  Silence'
<1>0. ticks \in Seq(Jobs)
  BY DEF Handshake
<1>1. CASE AskTick
  <2>1. ticks # <<>> /\ ticks' = Tail(ticks) /\ UNCHANGED <<user, age, answer, opened, destroyed, check>>
    BY <1>1 DEF AskTick, Tick, RunTick
  <2> QED
    BY <2>1, <1>0, FirstGone, StillSilent DEF Watched
<1>2. CASE MethodTick
  <2> DEFINE m == Head(ticks)
             rest == Tail(ticks)
  <2>1. ticks # <<>> /\ m \notin {"ask", "ended", "drop"} /\ UNCHANGED <<user, age, opened>>
    BY <1>2 DEF MethodTick, Tick, RunTick
  <2>2. rest \in Seq(Jobs) /\ (Own(ticks) => Own(rest)) /\ ~Own(ticks)
    BY <2>1, <1>0, FirstGone DEF Jobs
  <2>3. \/ ticks' = rest /\ UNCHANGED <<check, destroyed>>
        \/ Destroy("update_secret", rest)
    BY <1>2 DEF MethodTick, NoDestroy
  <2>4. CASE ticks' = rest /\ UNCHANGED <<check, destroyed>>
    BY <2>1, <2>2, <2>4, StillSilent DEF Watched
  <2>5. CASE Destroy("update_secret", rest)
    <3>1. ~Watched'
      BY <2>5 DEF Destroy, DestroyOnce, Watched
    <3> QED
      BY <2>1, <2>2, <3>1, StillSilent
  <2> QED
    BY <2>3, <2>4, <2>5
<1>3. CASE EndedTick
  <2>1. ticks # <<>> /\ UNCHANGED <<user, age, opened>>
        /\ ((NoDestroy /\ ticks' = Tail(ticks)) \/ Destroy(cause, Tail(ticks)))
    BY <1>3 DEF EndedTick, Tick, RunTick
  <2>2. Tail(ticks) \in Seq(Jobs) /\ (Own(ticks) => Own(Tail(ticks)))
    BY <2>1, <1>0, FirstGone
  <2>3. CASE NoDestroy /\ ticks' = Tail(ticks)
    BY <2>1, <2>2, <2>3, StillSilent DEF NoDestroy, Watched
  <2>4. CASE Destroy(cause, Tail(ticks))
    BY <2>1, <2>2, <2>4, LastAdded, StillSilent DEF Destroy, DestroyOnce, Watched
  <2> QED
    BY <2>1, <2>3, <2>4
<1>4. CASE DropTick
  <2>1. ticks # <<>> /\ ticks' = Tail(ticks) /\ UNCHANGED <<user, age, answer, opened, destroyed, check>>
    BY <1>4 DEF DropTick, Tick, RunTick, timers
  <2> QED
    BY <2>1, <1>0, FirstGone, StillSilent DEF Watched
<1>5. CASE Failing
  <2>1. answer' = None /\ UNCHANGED <<user, age, opened>> /\ Fail
    <3>1. answer \in {"rejected", "start_old", "start_other", "secure", "tune"}
      BY <1>5 DEF Failing, Continue
    <3> QED
      BY <1>5, <3>1 DEF Failing, Continue
  <2>2. CASE destroyed
    BY <2>1, <2>2, StillSilent DEF Fail, Watched, None
  <2>3. CASE ~destroyed
    BY <2>1, <2>3, <1>0, LastAdded, StillSilent DEF Fail, DestroyOnce, Watched, None
  <2> QED
    BY <2>2, <2>3
<1>6. CASE Started \/ Told
  <2>1. ticks' = Append(ticks, "ask") /\ answer' = None /\ UNCHANGED <<user, age, opened, destroyed, check>>
    BY <1>6 DEF Started, Told, Continue, Ask
  <2> QED
    BY <2>1, <1>0, LastAdded, StillSilent DEF Watched, None
<1>7. CASE Tuned \/ Flushed
  <2>1. answer' \in {None, "written"} /\ UNCHANGED <<user, age, opened, destroyed, check, ticks>>
    BY <1>7 DEF Tuned, Flushed, timers
  <2> QED
    BY <2>1, StillSilent DEF Watched, None
<1>8. CASE Opened
  <2>1. place = "open"
    BY <1>8 DEF Opened, Continue, Handshake, Possible, Places, None
  <2>2. options.heartbeat = user.heartbeat /\ age = 0
    BY <1>8, <2>1 DEF Limits, LimitsSettled, Silence, Opened, Continue
  <2>3. answer' = None /\ UNCHANGED <<user, age, ticks>> /\ check' = StartCheck
    BY <1>8 DEF Opened, Continue
  <2>4. Allowed' = Allowed /\ (Watched' => user.heartbeat # 0)
    BY <2>3 DEF Allowed, Interval, Watched
  <2>5. Watched' => check' = HB_MOF_MAX
    BY <2>2, <2>3, <2>4 DEF StartCheck
  <2>6. HB_MOF_MAX \in Nat /\ HB_MOF_MAX <= Allowed /\ Allowed \in Nat
    BY AllowedIsNat, SessionAssumption
  <2>7. age' = 0
    BY <2>2, <2>3
  <2> QED
    BY <2>4, <2>5, <2>6, <2>7 DEF Silence
<1>9. CASE ContinueClose
  BY <1>9, <1>0, LastAdded, StillSilent DEF ContinueClose, Destroy, DestroyOnce, Watched
<1>10. CASE SendHeartbeat
  BY <1>10, StillSilent DEF SendHeartbeat, Watched, ending
<1>11. CASE CheckHeartbeat
  <2>1. UNCHANGED <<user, opened, age>>
    BY <1>11 DEF CheckHeartbeat
  <2>2. CASE Expired
    <3>1. Destroy("heartbeat", ticks)
      BY <1>11, <2>2 DEF CheckHeartbeat
    <3> QED
      BY <2>1, <3>1, <1>0, LastAdded, StillSilent DEF Destroy, DestroyOnce, Watched
  <2>3. CASE ~Expired
    <3>1. check' = HB_MOF_MAX /\ UNCHANGED <<answer, destroyed, ticks>>
      BY <1>11, <2>3 DEF CheckHeartbeat
    <3>2. Allowed' = Allowed /\ Watched' = Watched
      BY <2>1, <3>1 DEF Allowed, Interval, Watched
    <3>3. Watched => age <= Interval + Margin(Interval)
      <4> SUFFICES ASSUME Watched PROVE age <= Interval + Margin(Interval)
        OBVIOUS
      <4>1. options.heartbeat = user.heartbeat
        BY DEF Watched, Limits, LimitsSettled
      <4>2. ~(age > Interval + Margin(Interval))
        BY <2>3, <4>1 DEF Expired, Interval
      <4> QED
        BY <4>2, AllowedIsNat DEF Silence
    <3>4. HB_MOF_MAX \in Nat
      BY SessionAssumption
    <3>5. Watched => age + HB_MOF_MAX <= Allowed
      BY <3>3, <3>4, AllowedIsNat DEF Allowed, Silence
    <3> QED
      BY <2>1, <3>1, <3>2, <3>4, <3>5 DEF Silence
  <2> QED
    BY <2>2, <2>3
<1>12. CASE SocketTimeout \/ GiveUp
  <2>1. ticks' = Append(ticks, "ended") /\ UNCHANGED <<user, age, answer, opened, destroyed, check>>
    BY <1>12 DEF SocketTimeout, GiveUp, SocketEnds, timers
  <2> QED
    BY <2>1, <1>0, LastAdded, StillSilent DEF Watched
<1>13. CASE Deliver \/ Beat
  BY <1>13, Heard DEF Deliver, Beat
<1>14. CASE Serve \/ Interrupt \/ Stop
  BY <1>14, StillSilent DEF Serve, Interrupt, Stop, ClientRuns, loop, ending, Watched
<1>15. CASE Pass
  <2>1. ticks = <<>> /\ answer = None /\ check # 0
    BY <1>15 DEF Pass, Busy, Quiet, Continuations
  <2>2. /\ check' = Earlier(check) /\ age' = Later(age) /\ ticks' = ticks
        /\ UNCHANGED <<user, answer, opened, destroyed>>
    BY <1>15 DEF Pass, loop, ending
  <2>3. age' \in Nat /\ age' <= age + 1
    <3>1. Longest \in Nat
      BY LongestIsNat
    <3> QED
      BY <2>2, <3>1 DEF Later, Least2, Silence
  <2>4. Own(ticks') /\ answer' # "open_ok"
    BY <2>1, <2>2 DEF Own, None
  <2>5. Allowed' = Allowed /\ Watched' = Watched
    BY <2>2 DEF Allowed, Interval, Watched
  <2>6. Watched => check' \in 0..HB_MOF_MAX /\ check' = check - 1
    BY <2>1, <2>2, SessionAssumption DEF Earlier, Off, Silence
  <2>7. Watched => age' + check' <= Allowed
    BY <2>3, <2>6, AllowedIsNat, SessionAssumption DEF Silence
  <2> QED
    BY <2>3, <2>4, <2>5, <2>6, <2>7 DEF Silence
<1>16. CASE UNCHANGED vars
  BY <1>16, StillSilent DEF vars, timers, loop, Watched
<1> QED
  BY <1>1, <1>2, <1>3, <1>4, <1>5, <1>6, <1>7, <1>8, <1>9, <1>10, <1>11, <1>12, <1>13, <1>14,
     <1>15, <1>16 DEF Next, Client, Environment

LEMMA SilenceFirst == Init => Silence
<1> SUFFICES ASSUME Init PROVE Silence
  OBVIOUS
<1>1. ticks = <<"ask">> /\ age = 0 /\ ~opened /\ answer = None
  BY DEF Init
<1> QED
  BY <1>1 DEF Silence, Own, Messages, Watched

LEMMA SilenceAlways == Spec => []Silence
<1> QED
  BY SilenceFirst, SilenceKept, HandshakeAlways, LimitsAlways, PTL DEF Spec

\* For every user, every server and every margin: a connection that is open and watches its server
\* has heard of it within an interval, the margin and the period of the check
\* (start_check_heartbeat, channel.ts): however calls, destroys and timers interleave.
THEOREM SilentServerFound == Spec => []SilenceFound
<1>1. Limits /\ Silence => SilenceFound
  <2> SUFFICES ASSUME Limits, Silence, opened, ~destroyed, user.heartbeat # 0
               PROVE  age <= Allowed
    BY DEF SilenceFound, Allowed, Interval
  <2> QED
    BY AllowedIsNat, SessionAssumption DEF Silence, Watched
<1> QED
  BY <1>1, SilenceAlways, LimitsAlways, PTL

-----------------------------------------------------------------------------
(* Timers.                                                                 *)

\* a connection that was destroyed has no timers and no socket, unless open() went on after that
TimersEnd ==
    destroyed => ~socketOpen /\ (cause # "late" => send = Off /\ check = Off)

LEMMA TimersKept ==
    ASSUME TimersEnd, [Next]_vars
    PROVE  TimersEnd'
<1>1. ASSUME NEW why, NEW rest, Destroy(why, rest) \/ DestroyOnce(why, rest)
      PROVE  TimersEnd'
  BY <1>1 DEF Destroy, DestroyOnce, TimersEnd
<1>2. CASE MethodTick \/ EndedTick \/ ContinueClose
  BY <1>1, <1>2 DEF MethodTick, EndedTick, ContinueClose, NoDestroy, TimersEnd, ending
<1>3. CASE Failing
  <2>1. Fail /\ UNCHANGED opened
    BY <1>3 DEF Failing
  <2> QED
    BY <1>1, <2>1 DEF Fail, TimersEnd, ending
<1>4. CASE CheckHeartbeat
  <2>1. Off # 0
    BY DEF Off
  <2> QED
    BY <1>1, <1>4, <2>1 DEF CheckHeartbeat, TimersEnd, ending
<1>5. CASE SendHeartbeat
  BY <1>5 DEF SendHeartbeat, TimersEnd, ending
<1>6. CASE Opened
  BY <1>6 DEF Opened, Continue, TimersEnd
<1>7. CASE SocketTimeout \/ GiveUp
  BY <1>7 DEF SocketTimeout, GiveUp, SocketEnds, TimersEnd
<1>8. CASE AskTick \/ DropTick \/ Started \/ Tuned \/ Flushed \/ Told \/ Deliver \/ Beat
  BY <1>8 DEF AskTick, DropTick, Started, Tuned, Flushed, Told, Deliver, Beat, TimersEnd, timers, ending
<1>9. CASE Serve \/ Interrupt \/ Stop \/ UNCHANGED vars
  BY <1>9 DEF Serve, Interrupt, Stop, ClientRuns, TimersEnd, vars, timers, ending
<1>10. CASE Pass
  <2>1. send' = Earlier(send) /\ check' = Earlier(check) /\ UNCHANGED <<destroyed, socketOpen, cause>>
    BY <1>10 DEF Pass, ending
  <2> QED
    BY <2>1 DEF Earlier, TimersEnd
<1> QED
  BY <1>2, <1>3, <1>4, <1>5, <1>6, <1>7, <1>8, <1>9, <1>10 DEF Next, Client, Environment

\* For every user, every server and every length of the intervals: however a connection ends, its
\* two heartbeat timers end with it (Connection.destroy, channel.ts), unless its open() is continued
\* afterwards and sets them again.
THEOREM TimersEndWithConnection == Spec => []TimersEnd
<1>1. Init => TimersEnd
  BY DEF Init, TimersEnd
<1> QED
  BY <1>1, TimersKept, PTL DEF Spec

-----------------------------------------------------------------------------
(* Which jobs and messages are waiting.                                    *)

Lacks(jobs, A) == \A i \in 1..Len(jobs) : jobs[i] \notin A
Once(jobs, A)  == \A i, j \in 1..Len(jobs) : jobs[i] \in A /\ jobs[j] \in A => i = j

LEMMA WithoutFirst ==
    ASSUME NEW S, NEW jobs \in Seq(S), jobs # <<>>, NEW A
    PROVE  /\ Lacks(jobs, A) => Lacks(Tail(jobs), A) /\ Head(jobs) \notin A
           /\ Once(jobs, A) => Once(Tail(jobs), A)
           /\ Once(jobs, A) /\ Head(jobs) \in A => Lacks(Tail(jobs), A)
<1>1. Len(jobs) \in Nat /\ Len(jobs) # 0
  BY EmptySeq
<1>2. Head(jobs) = jobs[1] /\ 1 \in 1..Len(jobs) /\ Len(Tail(jobs)) = Len(jobs) - 1
  BY <1>1
<1>3. \A i \in 1..Len(Tail(jobs)) : Tail(jobs)[i] = jobs[i + 1] /\ i + 1 \in 1..Len(jobs) /\ i + 1 # 1
  BY <1>1, <1>2
<1>4. Lacks(jobs, A) => Lacks(Tail(jobs), A) /\ Head(jobs) \notin A
  BY <1>2, <1>3 DEF Lacks
<1>5. Once(jobs, A) => Once(Tail(jobs), A)
  BY <1>1, <1>2, <1>3 DEF Once
<1>6. Once(jobs, A) /\ Head(jobs) \in A => Lacks(Tail(jobs), A)
  <2> SUFFICES ASSUME Once(jobs, A), Head(jobs) \in A, NEW i \in 1..Len(Tail(jobs)), Tail(jobs)[i] \in A
               PROVE  FALSE
    BY DEF Lacks
  <2>1. jobs[i + 1] \in A /\ i + 1 \in 1..Len(jobs) /\ i + 1 # 1
    BY <1>3
  <2> QED
    BY <2>1, <1>2 DEF Once
<1> QED
  BY <1>4, <1>5, <1>6

LEMMA WithLast ==
    ASSUME NEW S, NEW jobs \in Seq(S), NEW job \in S, NEW A
    PROVE  /\ Append(jobs, job) \in Seq(S) /\ Append(jobs, job) # <<>>
           /\ Lacks(jobs, A) /\ job \notin A => Lacks(Append(jobs, job), A)
           /\ Once(jobs, A) /\ job \notin A => Once(Append(jobs, job), A)
           /\ Lacks(jobs, A) => Once(Append(jobs, job), A)
<1>1. Append(jobs, job) \in Seq(S) /\ Len(Append(jobs, job)) = Len(jobs) + 1 /\ Len(jobs) \in Nat
  BY AppendProperties
<1>2. \A i \in 1..Len(jobs) + 1 :
        \/ i \in 1..Len(jobs) /\ Append(jobs, job)[i] = jobs[i]
        \/ i = Len(jobs) + 1 /\ Append(jobs, job)[i] = job
  BY <1>1
<1>3. Append(jobs, job) # <<>>
  BY <1>1, EmptySeq
<1>4. Lacks(jobs, A) /\ job \notin A => Lacks(Append(jobs, job), A)
  BY <1>1, <1>2 DEF Lacks
<1>5. Once(jobs, A) /\ job \notin A => Once(Append(jobs, job), A)
  BY <1>1, <1>2 DEF Once
<1>6. Lacks(jobs, A) => Once(Append(jobs, job), A)
  BY <1>1, <1>2 DEF Once, Lacks
<1> QED
  BY <1>1, <1>3, <1>4, <1>5, <1>6

LEMMA InPieces ==
    ASSUME NEW S, NEW stream \in Seq(S), NEW n \in 1..Len(stream), NEW A
    PROVE  LET piece == SubSeq(stream, 1, n)
               rest  == SubSeq(stream, n + 1, Len(stream))
           IN /\ piece \in Seq(S) /\ rest \in Seq(S)
              /\ Lacks(stream, A) => Lacks(piece, A) /\ Lacks(rest, A)
              /\ Once(stream, A) => Once(piece, A) /\ Once(rest, A) /\ (Lacks(piece, A) \/ Lacks(rest, A))
<1> DEFINE piece == SubSeq(stream, 1, n)
           rest == SubSeq(stream, n + 1, Len(stream))
<1>1. Len(stream) \in Nat /\ n \in Nat /\ n <= Len(stream) /\ 1 <= n
  OBVIOUS
<1>2. piece \in Seq(S) /\ Len(piece) = n
  BY <1>1, SubSeqProperties
<1>3. rest \in Seq(S) /\ Len(rest) = Len(stream) - n
  BY <1>1, SubSeqProperties
<1>4. \A i \in 1..n : piece[i] = stream[i] /\ i \in 1..Len(stream)
  BY <1>1, SubSeqProperties
<1>5. \A i \in 1..Len(stream) - n : rest[i] = stream[n + i] /\ n + i \in 1..Len(stream)
  <2> SUFFICES ASSUME NEW i \in 1..Len(stream) - n PROVE rest[i] = stream[n + i] /\ n + i \in 1..Len(stream)
    OBVIOUS
  <2>1. rest[i] = stream[n + 1 + i - 1]
    BY <1>1, <1>3, SubSeqProperties
  <2> QED
    BY <2>1, <1>1
<1> HIDE DEF piece, rest
<1>6. Lacks(stream, A) => Lacks(piece, A) /\ Lacks(rest, A)
  BY <1>2, <1>3, <1>4, <1>5 DEF Lacks
<1>7. Once(stream, A) => Once(piece, A)
  BY <1>2, <1>4 DEF Once
<1>8. Once(stream, A) => Once(rest, A)
  <2> SUFFICES ASSUME Once(stream, A), NEW i \in 1..Len(rest), NEW j \in 1..Len(rest), rest[i] \in A, rest[j] \in A
               PROVE  i = j
    BY DEF Once
  <2>1. n + i = n + j
    BY <1>3, <1>5 DEF Once
  <2> QED
    BY <2>1, <1>1, <1>3
<1>9. Once(stream, A) => Lacks(piece, A) \/ Lacks(rest, A)
  <2> SUFFICES ASSUME Once(stream, A), NEW i \in 1..Len(piece), piece[i] \in A,
                      NEW j \in 1..Len(rest), rest[j] \in A
               PROVE  FALSE
    BY DEF Lacks
  <2>1. stream[i] \in A /\ i \in 1..Len(stream) /\ stream[n + j] \in A /\ n + j \in 1..Len(stream)
    BY <1>2, <1>3, <1>4, <1>5
  <2>2. i = n + j
    BY <2>1 DEF Once
  <2> QED
    BY <2>2, <1>1, <1>2, <1>3
<1> QED
  BY <1>2, <1>3, <1>6, <1>7, <1>8, <1>9 DEF piece, rest

LEMMA NoneWaiting ==
    ASSUME NEW A PROVE Lacks(<<>>, A) /\ Once(<<>>, A)
BY DEF Lacks, Once

LEMMA OneWaiting ==
    ASSUME NEW job, NEW A, job \notin A
    PROVE  Append(<<>>, job) = <<job>> /\ <<job>> # <<>> /\ Lacks(Append(<<>>, job), A) /\ Once(Append(<<>>, job), A)
<1>1. Append(<<>>, job) = <<job>> /\ <<job>> # <<>>
  OBVIOUS
<1>2. Len(<<job>>) = 1 /\ <<job>>[1] = job
  OBVIOUS
<1> QED
  BY <1>1, <1>2 DEF Lacks, Once

-----------------------------------------------------------------------------
(* The end of a connection.                                                *)

OutOfTurn == {"close", "update_secret"}

\* the server interrupts once
Interrupted ==
    /\ extra => Lacks(ticks, OutOfTurn) /\ Lacks(toClient, OutOfTurn) /\ ~closing
    /\ Lacks(ticks, OutOfTurn) \/ (Lacks(toClient, OutOfTurn) /\ ~closing)
    /\ Lacks(toClient, OutOfTurn) \/ ~closing
    /\ Once(ticks, OutOfTurn) /\ Once(toClient, OutOfTurn)

\* the end of the socket is handled before anything else
EndedAlone ==
    /\ Lacks(ticks, {"ended"}) \/ (ticks = <<"ended">> /\ ~closing /\ answer = None /\ ~draining)
    /\ socketOpen \/ destroyed \/ ticks = <<"ended">>

\* the close of destroy is registered after the handler of connection_close has gone on
Drops ==
    /\ ~destroyed => ~dropping /\ ~crashed /\ Lacks(ticks, {"drop"})
    /\ closing => ~dropping /\ (Lacks(ticks, {"drop"}) \/ draining)
    /\ destroyed /\ cause # "late" => ~crashed

\* the ticks of a step: the first one gone, or one more, or both
LEMMA TicksMove ==
    ASSUME NEW rest, rest = ticks \/ (ticks # <<>> /\ rest = Tail(ticks)), ticks \in Seq(Jobs),
           NEW A, ticks' = rest \/ (\E job \in Jobs \ A : ticks' = Append(rest, job))
    PROVE  /\ Lacks(ticks, A) => Lacks(ticks', A) /\ Lacks(rest, A)
           /\ Once(ticks, A) => Once(ticks', A)
<1>1. rest \in Seq(Jobs) /\ (Lacks(ticks, A) => Lacks(rest, A)) /\ (Once(ticks, A) => Once(rest, A))
  <2>1. CASE rest = ticks
    BY <2>1
  <2>2. CASE ticks # <<>> /\ rest = Tail(ticks)
    BY <2>2, FirstGone, WithoutFirst
  <2> QED
    BY <2>1, <2>2
<1>2. CASE ticks' = rest
  BY <1>1, <1>2
<1>3. ASSUME NEW job \in Jobs \ A, ticks' = Append(rest, job)
      PROVE  (Lacks(rest, A) => Lacks(ticks', A)) /\ (Once(rest, A) => Once(ticks', A))
  BY <1>1, <1>3, WithLast
<1> QED
  BY <1>1, <1>2, <1>3

LEMMA StillInterrupted ==
    ASSUME Interrupted, UNCHANGED <<extra, toClient>>, closing' => closing, ticks \in Seq(Jobs),
           NEW rest, rest = ticks \/ (ticks # <<>> /\ rest = Tail(ticks)),
           ticks' = rest \/ (\E job \in {"ask", "ended", "drop"} : ticks' = Append(rest, job))
    PROVE  Interrupted'
<1>1. \A job \in {"ask", "ended", "drop"} : job \in Jobs \ OutOfTurn
  BY DEF Jobs, OutOfTurn
<1>2. ticks' = rest \/ (\E job \in Jobs \ OutOfTurn : ticks' = Append(rest, job))
  BY <1>1
<1>3. /\ Lacks(ticks, OutOfTurn) => Lacks(ticks', OutOfTurn)
      /\ Once(ticks, OutOfTurn) => Once(ticks', OutOfTurn)
  BY <1>2, TicksMove
<1> QED
  BY <1>3 DEF Interrupted

LEMMA InterruptedKept ==
    ASSUME Handshake, Interrupted, [Next]_vars
    PROVE  Interrupted'
<1>0. ticks \in Seq(Jobs) /\ toClient \in Seq(Messages)
  BY DEF Handshake
<1>1. CASE AskTick \/ DropTick
  <2>1. ticks # <<>> /\ ticks' = Tail(ticks) /\ UNCHANGED <<extra, toClient, closing>>
    BY <1>1 DEF AskTick, DropTick, Tick, RunTick
  <2> QED
    BY <2>1, <1>0, StillInterrupted
<1>2. CASE MethodTick
  <2> DEFINE m == Head(ticks)
             rest == Tail(ticks)
  <2>1. ticks # <<>> /\ UNCHANGED <<extra, toClient>>
    BY <1>2 DEF MethodTick, Tick, RunTick
  <2>2. \/ closing' = closing /\ ticks' \in {rest, Append(rest, "drop")}
        \/ closing' = TRUE /\ ticks' = rest /\ m = "close"
    BY <1>2 DEF MethodTick, NoDestroy, Destroy, DestroyOnce
  <2>3. CASE closing' = closing /\ ticks' \in {rest, Append(rest, "drop")}
    BY <2>1, <2>3, <1>0, StillInterrupted
  <2>4. CASE closing' = TRUE /\ ticks' = rest /\ m = "close"
    <3>1. ~Lacks(ticks, OutOfTurn)
      BY <2>1, <2>4, <1>0, WithoutFirst DEF OutOfTurn
    <3>2. Lacks(rest, OutOfTurn) /\ Once(rest, OutOfTurn)
      BY <2>1, <2>4, <1>0, WithoutFirst DEF OutOfTurn, Interrupted
    <3> QED
      BY <2>1, <2>4, <3>1, <3>2 DEF Interrupted
  <2> QED
    BY <2>2, <2>3, <2>4
<1>3. CASE EndedTick
  <2>1. ticks # <<>> /\ UNCHANGED <<extra, toClient, closing>>
        /\ ticks' \in {Tail(ticks), Append(Tail(ticks), "drop")}
    BY <1>3 DEF EndedTick, Tick, RunTick, Destroy, DestroyOnce
  <2> QED
    BY <2>1, <1>0, StillInterrupted
<1>4. CASE Failing \/ ContinueClose \/ CheckHeartbeat
  <2>1. UNCHANGED <<extra, toClient>> /\ (closing' => closing) /\ ticks' \in {ticks, Append(ticks, "drop")}
    BY <1>4 DEF Failing, Fail, ContinueClose, CheckHeartbeat, Destroy, DestroyOnce
  <2> QED
    BY <2>1, <1>0, StillInterrupted
<1>5. CASE Started \/ Told \/ SocketTimeout \/ GiveUp
  <2>1. UNCHANGED <<extra, toClient, closing>> /\ ticks' \in {Append(ticks, "ask"), Append(ticks, "ended")}
    BY <1>5 DEF Started, Told, Ask, SocketTimeout, GiveUp, SocketEnds
  <2> QED
    BY <2>1, <1>0, StillInterrupted
<1>6. CASE Tuned \/ Flushed \/ Opened \/ SendHeartbeat \/ Beat \/ Pass \/ Stop \/ UNCHANGED vars
  <2>1. UNCHANGED <<extra, toClient, closing, ticks>>
    BY <1>6 DEF Tuned, Flushed, Opened, SendHeartbeat, Beat, Pass, Stop, ClientRuns, loop, vars
  <2> QED
    BY <2>1 DEF Interrupted
<1>7. CASE Deliver
  <2>1. PICK n \in 1..Least2(2, Len(toClient)) :
          /\ Turn
          /\ ticks' = SubSeq(toClient, 1, n)
          /\ toClient' = SubSeq(toClient, n + 1, Len(toClient))
          /\ UNCHANGED <<extra, closing>>
    BY <1>7 DEF Deliver
  <2>2. n \in 1..Len(toClient)
    BY <1>0 DEF Least2
  <2>3. ~closing
    BY <2>1 DEF Turn, BeginTurn, Quiet, Continuations
  <2> QED
    BY <2>1, <2>2, <2>3, <1>0, InPieces DEF Interrupted
<1>8. CASE Serve
  <2>1. UNCHANGED <<extra, ticks, closing>>
    BY <1>8 DEF Serve, ClientRuns, loop
  <2>2. toClient' = toClient \/ \E a \in Messages \ OutOfTurn : toClient' = Append(toClient, a)
    <3>1. \A m \in DOMAIN Answers : Answers[m] \subseteq Messages \ OutOfTurn
      BY DEF Answers, Messages, OutOfTurn
    <3> QED
      BY <1>8, <3>1 DEF Serve
  <2>3. /\ Lacks(toClient, OutOfTurn) => Lacks(toClient', OutOfTurn)
        /\ Once(toClient, OutOfTurn) => Once(toClient', OutOfTurn)
    BY <2>2, <1>0, WithLast
  <2> QED
    BY <2>1, <2>3 DEF Interrupted
<1>9. CASE Interrupt
  <2>1. extra /\ extra' = FALSE /\ UNCHANGED <<ticks, closing>>
    BY <1>9 DEF Interrupt, ClientRuns, loop
  <2>2. PICK m \in Messages : toClient' = Append(toClient, m)
    BY <1>9 DEF Interrupt, Messages
  <2>3. Once(toClient', OutOfTurn)
    BY <2>1, <2>2, <1>0, WithLast DEF Interrupted
  <2> QED
    BY <2>1, <2>3 DEF Interrupted
<1> QED
  BY <1>1, <1>2, <1>3, <1>4, <1>5, <1>6, <1>7, <1>8, <1>9 DEF Next, Client, Environment

LEMMA StillAlone ==
    ASSUME ticks \in Seq(Jobs), Lacks(ticks, {"ended"}), socketOpen' \/ destroyed',
           NEW rest, rest = ticks \/ (ticks # <<>> /\ rest = Tail(ticks)),
           ticks' = rest \/ (\E job \in {"ask", "drop"} : ticks' = Append(rest, job))
    PROVE  EndedAlone'
<1>1. \A job \in {"ask", "drop"} : job \in Jobs \ {"ended"}
  BY DEF Jobs
<1>2. Lacks(ticks', {"ended"})
  BY <1>1, TicksMove
<1> QED
  BY <1>2 DEF EndedAlone

LEMMA EndedAloneKept ==
    ASSUME Handshake, EndedAlone, [Next]_vars
    PROVE  EndedAlone'
<1>0. ticks \in Seq(Jobs) /\ toClient \in Seq(Messages)
  BY DEF Handshake
<1>1. CASE AskTick \/ DropTick \/ MethodTick
  <2>1. ticks # <<>> /\ Head(ticks) # "ended" /\ (socketOpen \/ destroyed => socketOpen' \/ destroyed')
        /\ ticks' \in {Tail(ticks), Append(Tail(ticks), "drop")}
    BY <1>1 DEF AskTick, DropTick, MethodTick, Tick, RunTick, NoDestroy, Destroy, DestroyOnce
  <2>2. Lacks(ticks, {"ended"}) /\ (socketOpen \/ destroyed)
    BY <2>1 DEF EndedAlone
  <2> QED
    BY <2>1, <2>2, <1>0, StillAlone
<1>2. CASE EndedTick
  <2>1. ticks # <<>> /\ Head(ticks) = "ended" /\ destroyed'
        /\ ticks' \in {Tail(ticks), Append(Tail(ticks), "drop")}
    BY <1>2 DEF EndedTick, Tick, RunTick, NoDestroy, Destroy, DestroyOnce
  <2>2. ~Lacks(ticks, {"ended"})
    BY <2>1, <1>0, WithoutFirst
  <2>3. Tail(ticks) = <<>>
    <3>1. ticks = <<"ended">>
      BY <2>2 DEF EndedAlone
    <3>2. Tail(<<"ended">>) = <<>>
      OBVIOUS
    <3> QED
      BY <3>1, <3>2
  <2>4. Lacks(ticks', {"ended"})
    BY <2>1, <2>3, NoneWaiting, OneWaiting
  <2> QED
    BY <2>1, <2>4 DEF EndedAlone
<1>3. CASE Failing \/ Started \/ Told \/ Tuned \/ Opened \/ ContinueClose
  <2>1. RunContinuation /\ (socketOpen \/ destroyed => socketOpen' \/ destroyed')
        /\ (ticks' = ticks \/ ticks' \in {Append(ticks, "ask"), Append(ticks, "drop")})
    BY <1>3 DEF Failing, Started, Told, Tuned, Opened, ContinueClose, Continue, Fail, Ask, Destroy, DestroyOnce
  <2>2. ticks = <<>> \/ draining
    BY <2>1 DEF RunContinuation
  <2>3. Lacks(ticks, {"ended"}) /\ (socketOpen \/ destroyed)
    <3>1. ~(ticks = <<"ended">> /\ ~draining)
      <4>1. <<"ended">> # <<>>
        OBVIOUS
      <4> QED
        BY <2>2, <4>1
    <3>2. Lacks(ticks, {"ended"})
      BY <3>1 DEF EndedAlone
    <3>3. CASE ticks = <<"ended">>
      <4>1. ~Lacks(<<"ended">>, {"ended"})
        BY DEF Lacks
      <4> QED
        BY <3>2, <3>3, <4>1
    <3> QED
      BY <3>2, <3>3 DEF EndedAlone
  <2> QED
    BY <2>1, <2>3, <1>0, StillAlone
<1>4. CASE Flushed \/ SendHeartbeat \/ CheckHeartbeat \/ Beat
  <2>1. Turn /\ (socketOpen \/ destroyed => socketOpen' \/ destroyed')
        /\ (ticks' = ticks \/ ticks' = Append(ticks, "drop"))
    BY <1>4 DEF Flushed, SendHeartbeat, CheckHeartbeat, Beat, Destroy, DestroyOnce, ending
  <2>2. ticks = <<>>
    BY <2>1 DEF Turn, BeginTurn, Quiet
  <2>3. Lacks(ticks, {"ended"}) /\ (socketOpen \/ destroyed)
    <3>1. <<"ended">> # <<>>
      OBVIOUS
    <3> QED
      BY <2>2, <3>1, NoneWaiting DEF EndedAlone
  <2> QED
    BY <2>1, <2>3, <1>0, StillAlone
<1>5. CASE SocketTimeout \/ GiveUp
  <2>1. Turn /\ ticks' = Append(ticks, "ended") /\ UNCHANGED <<closing, answer>>
    BY <1>5 DEF SocketTimeout, GiveUp, SocketEnds
  <2>2. ticks = <<>> /\ ~closing /\ answer = None /\ ~draining'
    BY <2>1 DEF Turn, BeginTurn, Quiet, Continuations
  <2>3. ticks' = <<"ended">>
    BY <2>1, <2>2
  <2> QED
    BY <2>1, <2>2, <2>3 DEF EndedAlone, None
<1>6. CASE Deliver
  <2>1. PICK n \in 1..Least2(2, Len(toClient)) :
          /\ socketOpen /\ UNCHANGED socketOpen
          /\ ticks' = SubSeq(toClient, 1, n)
    BY <1>6 DEF Deliver
  <2>2. n \in 1..Len(toClient)
    BY <1>0 DEF Least2
  <2>3. Lacks(toClient, {"ended"})
    BY <1>0 DEF Lacks, Messages
  <2>4. Lacks(ticks', {"ended"})
    BY <2>1, <2>2, <2>3, <1>0, InPieces
  <2> QED
    BY <2>1, <2>4 DEF EndedAlone
<1>7. CASE Serve \/ Interrupt \/ Stop \/ Pass \/ UNCHANGED vars
  <2>1. UNCHANGED <<ticks, closing, answer, draining, socketOpen, destroyed>>
    BY <1>7 DEF Serve, Interrupt, Stop, Pass, ClientRuns, loop, vars
  <2> QED
    BY <2>1 DEF EndedAlone, None
<1> QED
  BY <1>1, <1>2, <1>3, <1>4, <1>5, <1>6, <1>7 DEF Next, Client, Environment

LEMMA DropsKept ==
    ASSUME Handshake, TimersEnd, Interrupted, EndedAlone, Drops, [Next]_vars
    PROVE  Drops'
<1>0. ticks \in Seq(Jobs) /\ toClient \in Seq(Messages)
  BY DEF Handshake
<1>1. CASE AskTick
  <2>1. ticks # <<>> /\ ticks' = Tail(ticks) /\ UNCHANGED <<closing, destroyed, dropping, crashed, cause>>
        /\ (draining => ~closing)
    BY <1>1 DEF AskTick, Tick, RunTick, Continuations, ending
  <2>2. Lacks(ticks, {"drop"}) => Lacks(ticks', {"drop"})
    BY <2>1, <1>0, WithoutFirst
  <2> QED
    BY <2>1, <2>2 DEF Drops
<1>2. CASE DropTick
  <2>1. ticks # <<>> /\ Head(ticks) = "drop" /\ UNCHANGED <<closing, destroyed, crashed, cause>>
        /\ (draining => ~closing)
    BY <1>2 DEF DropTick, Tick, RunTick, Continuations
  <2>2. ~Lacks(ticks, {"drop"})
    BY <2>1, <1>0, WithoutFirst
  <2>3. destroyed /\ ~closing
    BY <2>1, <2>2 DEF Drops
  <2> QED
    BY <2>1, <2>3 DEF Drops
<1>3. CASE MethodTick
  <2> DEFINE m == Head(ticks)
             rest == Tail(ticks)
  <2>1. ticks # <<>> /\ (draining => ~closing)
    BY <1>3 DEF MethodTick, Tick, RunTick, Continuations
  <2>2. (Lacks(ticks, {"drop"}) => Lacks(rest, {"drop"})) /\ (Lacks(ticks, OutOfTurn) => m \notin OutOfTurn)
    BY <2>1, <1>0, WithoutFirst
  <2>3. \/ ticks' = rest /\ UNCHANGED <<closing, destroyed, ending>>
        \/ ~destroyed /\ closing' = TRUE /\ ticks' = rest /\ UNCHANGED <<destroyed, ending>>
        \/ ~destroyed /\ m = "update_secret" /\ Destroy("update_secret", rest) /\ UNCHANGED closing
    BY <1>3 DEF MethodTick, NoDestroy, ending
  <2>4. CASE ticks' = rest /\ UNCHANGED <<closing, destroyed, ending>>
    BY <2>1, <2>2, <2>4 DEF Drops, ending
  <2>5. CASE ~destroyed /\ closing' = TRUE /\ ticks' = rest /\ UNCHANGED <<destroyed, ending>>
    BY <2>2, <2>5 DEF Drops, ending
  <2>6. CASE ~destroyed /\ m = "update_secret" /\ Destroy("update_secret", rest) /\ UNCHANGED closing
    <3>1. ~closing
      BY <2>2, <2>6 DEF Interrupted, OutOfTurn
    <3>2. destroyed' /\ ~crashed'
      BY <2>6 DEF Destroy, DestroyOnce, Drops
    <3> QED
      BY <2>6, <3>1, <3>2 DEF Drops
  <2> QED
    BY <2>3, <2>4, <2>5, <2>6
<1>4. CASE EndedTick
  <2>1. ticks # <<>> /\ Head(ticks) = "ended" /\ UNCHANGED closing
        /\ IF destroyed THEN NoDestroy ELSE Destroy(cause, Tail(ticks))
    BY <1>4 DEF EndedTick, Tick, RunTick
  <2>2. ~Lacks(ticks, {"ended"})
    BY <2>1, <1>0, WithoutFirst
  <2>3. ~closing
    BY <2>2 DEF EndedAlone
  <2>4. destroyed' /\ (cause' # "late" => ~crashed')
    BY <2>1 DEF NoDestroy, Destroy, DestroyOnce, Drops, ending
  <2> QED
    BY <2>1, <2>3, <2>4 DEF Drops
<1>5. CASE ContinueClose
  <2>1. closing /\ ~closing' /\ Destroy("close", ticks)
    BY <1>5 DEF ContinueClose
  <2>2. destroyed' /\ ~crashed'
    BY <2>1 DEF Destroy, DestroyOnce, Drops
  <2> QED
    BY <2>1, <2>2 DEF Drops
<1>6. CASE Failing
  <2>1. draining' /\ UNCHANGED closing /\ Fail
    BY <1>6 DEF Failing, Continue, RunContinuation
  <2>2. CASE destroyed
    BY <2>1, <2>2 DEF Fail, ending, Drops
  <2>3. CASE ~destroyed
    <3>1. destroyed' /\ ~crashed' /\ ~dropping'
      BY <2>1, <2>3 DEF Fail, DestroyOnce, Drops
    <3> QED
      BY <2>1, <3>1 DEF Drops
  <2> QED
    BY <2>2, <2>3
<1>7. CASE Started \/ Told
  <2>1. draining' /\ ticks' = Append(ticks, "ask") /\ UNCHANGED <<closing, destroyed, ending>>
    BY <1>7 DEF Started, Told, Continue, RunContinuation, Ask
  <2>2. Lacks(ticks, {"drop"}) => Lacks(ticks', {"drop"})
    BY <2>1, <1>0, WithLast DEF Jobs
  <2> QED
    BY <2>1, <2>2 DEF Drops, ending
<1>8. CASE Tuned
  BY <1>8 DEF Tuned, RunContinuation, Drops, ending
<1>9. CASE Opened
  BY <1>9 DEF Opened, Continue, RunContinuation, Drops
<1>10. CASE Flushed \/ SendHeartbeat \/ Beat \/ Deliver
  <2>1. Turn /\ UNCHANGED <<closing, destroyed, ending>>
    BY <1>10 DEF Flushed, SendHeartbeat, Beat, Deliver
  <2>2. ~closing
    BY <2>1 DEF Turn, BeginTurn, Quiet, Continuations
  <2>3. Lacks(ticks', {"drop"})
    <3>1. CASE Flushed \/ SendHeartbeat \/ Beat
      <4>1. ticks' = <<>>
        BY <3>1, <2>1 DEF Flushed, SendHeartbeat, Beat, Turn, BeginTurn, Quiet
      <4> QED
        BY <4>1, NoneWaiting
    <3>2. CASE Deliver
      <4>1. PICK n \in 1..Least2(2, Len(toClient)) : ticks' = SubSeq(toClient, 1, n)
        BY <3>2 DEF Deliver
      <4>2. n \in 1..Len(toClient)
        BY <1>0 DEF Least2
      <4>3. Lacks(toClient, {"drop"})
        BY <1>0 DEF Lacks, Messages
      <4> QED
        BY <4>1, <4>2, <4>3, <1>0, InPieces
    <3> QED
      BY <1>10, <3>1, <3>2
  <2> QED
    BY <2>1, <2>2, <2>3 DEF Drops, ending
<1>11. CASE CheckHeartbeat
  <2>1. Turn /\ UNCHANGED closing /\ check = 0
    BY <1>11 DEF CheckHeartbeat
  <2>2. ~closing /\ ticks = <<>>
    BY <2>1 DEF Turn, BeginTurn, Quiet, Continuations
  <2>3. destroyed => cause = "late"
    BY <2>1 DEF TimersEnd, Off
  <2>4. CASE Destroy("heartbeat", ticks)
    <3>1. destroyed' /\ (cause' # "late" => ~crashed')
      BY <2>3, <2>4 DEF Destroy, DestroyOnce, Drops
    <3> QED
      BY <2>1, <2>2, <3>1 DEF Drops
  <2>5. CASE UNCHANGED <<destroyed, ending, ticks>>
    BY <2>1, <2>2, <2>5 DEF Drops, ending
  <2> QED
    BY <1>11, <2>4, <2>5 DEF CheckHeartbeat
<1>12. CASE SocketTimeout \/ GiveUp
  <2>1. Turn /\ socketOpen /\ ticks' = Append(ticks, "ended") /\ UNCHANGED <<closing, destroyed, dropping, crashed>>
    BY <1>12 DEF SocketTimeout, GiveUp, SocketEnds
  <2>2. ~closing /\ ticks = <<>> /\ ~destroyed
    BY <2>1 DEF Turn, BeginTurn, Quiet, Continuations, TimersEnd
  <2>3. Lacks(ticks', {"drop"})
    BY <2>1, <2>2, OneWaiting
  <2> QED
    BY <2>1, <2>2, <2>3 DEF Drops
<1>13. CASE Serve \/ Interrupt \/ Stop \/ Pass \/ UNCHANGED vars
  <2>1. UNCHANGED <<ticks, closing, draining, destroyed, ending>>
    BY <1>13 DEF Serve, Interrupt, Stop, Pass, ClientRuns, loop, vars
  <2> QED
    BY <2>1 DEF Drops, ending
<1> QED
  BY <1>1, <1>2, <1>3, <1>4, <1>5, <1>6, <1>7, <1>8, <1>9, <1>10, <1>11, <1>12, <1>13
     DEF Next, Client, Environment

LEMMA EndingAlways == Spec => [](Interrupted /\ EndedAlone /\ Drops)
<1>1. Init => Interrupted /\ EndedAlone /\ Drops
  <2> SUFFICES ASSUME Init PROVE Interrupted /\ EndedAlone /\ Drops
    OBVIOUS
  <2>1. /\ ticks = Append(<<>>, "ask") /\ toClient = <<>> /\ extra = TRUE /\ closing = FALSE
        /\ socketOpen = TRUE /\ destroyed = FALSE /\ dropping = FALSE /\ crashed = FALSE
    BY DEF Init
  <2>2. \A A : "ask" \notin A => Lacks(ticks, A) /\ Once(ticks, A)
    BY <2>1, OneWaiting
  <2> QED
    BY <2>1, <2>2, NoneWaiting DEF Interrupted, EndedAlone, Drops, OutOfTurn
<1>2. Init => TimersEnd
  BY DEF Init, TimersEnd
<1> QED
  BY <1>1, <1>2, HandshakeAlways, TimersKept, InterruptedKept, EndedAloneKept, DropsKept, PTL DEF Spec

\* For every user and every server that interrupts at most once: a connection that was destroyed
\* has no timers and is not destroyed again, which would end the process (Connection.destroy,
\* channel.ts), unless its open() went on after that.
THEOREM ConnectionEndsQuietly == Spec => []EndIsQuiet
<1>1. TimersEnd /\ Drops => EndIsQuiet
  BY DEF TimersEnd, Drops, EndIsQuiet
<1> QED
  BY <1>1, EndingAlways, TimersEndWithConnection, PTL

-----------------------------------------------------------------------------
(* Clocks.                                                                 *)

Sent == {"header", "start_ok", "tune_ok", "open", "heartbeat", "close_ok"}

\* the answer that opens the connection is on its way
Welcome ==
    \/ socketOpen /\ ~Lacks(toClient, {"open_ok"})
    \/ ~Lacks(ticks, {"open_ok"})
    \/ answer = "open_ok"

\* no time passes between the answer of the server and the end of open()
Welcomed ==
    /\ toServer \in Seq(Sent) /\ server \in {"header", "open", "stopped", "closed"} /\ silence \in Nat
    /\ Welcome => silence = 0
    /\ Welcome \/ opened => server # "header"

LEMMA Written ==
    ASSUME toServer \in Seq(Sent), NEW m \in Sent, Write(m) \/ NoWrite
    PROVE  toServer' \in Seq(Sent) /\ (toServer' = toServer \/ toServer' # <<>>) /\ idle' \in {0, idle}
<1>1. CASE toServer' = Append(toServer, m)
  BY <1>1, WithLast DEF Write, NoWrite
<1> QED
  BY <1>1 DEF Write, NoWrite

\* what brings the answer nearer keeps it in view
LEMMA StillWelcome ==
    ASSUME ticks \in Seq(Jobs), UNCHANGED toClient, socketOpen' => socketOpen,
           answer' = "open_ok" => Welcome,
           NEW rest, rest = ticks \/ (ticks # <<>> /\ rest = Tail(ticks)),
           ticks' = rest \/ (\E job \in {"ask", "ended", "drop"} : ticks' = Append(rest, job))
    PROVE  Welcome' => Welcome
<1>1. \A job \in {"ask", "ended", "drop"} : job \in Jobs \ {"open_ok"}
  BY DEF Jobs
<1>2. ticks' = rest \/ (\E job \in Jobs \ {"open_ok"} : ticks' = Append(rest, job))
  BY <1>1
<1>3. Lacks(ticks, {"open_ok"}) => Lacks(ticks', {"open_ok"})
  BY <1>2, TicksMove
<1> QED
  BY <1>3 DEF Welcome

LEMMA StillWelcomed ==
    ASSUME Welcomed, Welcome' => Welcome, UNCHANGED <<server, silence>>,
           toServer' \in Seq(Sent), opened' => opened \/ Welcome
    PROVE  Welcomed'
BY DEF Welcomed

LEMMA WelcomedKept ==
    ASSUME Handshake, Limits, Welcomed, [Next]_vars
    PROVE  Welcomed'
<1>0. ticks \in Seq(Jobs) /\ toClient \in Seq(Messages) /\ toServer \in Seq(Sent)
  BY DEF Handshake, Welcomed
<1>1. CASE AskTick
  <2>1. /\ ticks # <<>> /\ Head(ticks) = "ask" /\ ticks' = Tail(ticks) /\ Write(Request[place])
        /\ UNCHANGED <<answer, socketOpen, toClient, server, silence, opened>>
    BY <1>1 DEF AskTick, Tick, RunTick
  <2>2. ~NoAsk(ticks)
    BY <2>1, <1>0, FirstGone
  <2>3. Request[place] \in Sent
    BY <2>2 DEF Handshake, Asked, Request, Sent
  <2>4. toServer' \in Seq(Sent)
    BY <2>1, <2>3, <1>0, Written
  <2>5. Welcome' => Welcome
    BY <2>1, <1>0, StillWelcome DEF Welcome
  <2> QED
    BY <2>1, <2>4, <2>5, StillWelcomed
<1>2. CASE DropTick
  <2>1. /\ ticks # <<>> /\ ticks' = Tail(ticks)
        /\ UNCHANGED <<answer, socketOpen, toClient, toServer, server, silence, opened>>
    BY <1>2 DEF DropTick, Tick, RunTick, timers
  <2>2. Welcome' => Welcome
    BY <2>1, <1>0, StillWelcome DEF Welcome
  <2> QED
    BY <2>1, <2>2, <1>0, StillWelcomed
<1>3. CASE MethodTick
  <2> DEFINE m == Head(ticks)
             rest == Tail(ticks)
  <2>1. /\ ticks # <<>> /\ ticks' \in {rest, Append(rest, "drop")}
        /\ UNCHANGED <<toClient, server, silence, opened>> /\ (socketOpen' => socketOpen)
    BY <1>3 DEF MethodTick, Tick, RunTick, NoDestroy, Destroy, DestroyOnce
  <2>2. answer' \in {answer, m, "rejected"}
    BY <1>3 DEF MethodTick, NoDestroy, Destroy
  <2>3. m = "open_ok" => Welcome
    BY <2>1, <1>0, WithoutFirst DEF Welcome
  <2>4. Welcome' => Welcome
    <3>1. answer' = "open_ok" => Welcome
      BY <2>2, <2>3 DEF Welcome
    <3> QED
      BY <2>1, <3>1, <1>0, StillWelcome
  <2>5. NoWrite \/ Write("close_ok")
    BY <1>3 DEF MethodTick
  <2>6. toServer' \in Seq(Sent)
    BY <2>5, <1>0, Written DEF Sent
  <2> QED
    BY <2>1, <2>4, <2>6, StillWelcomed
<1>4. CASE EndedTick
  <2>1. /\ ticks # <<>> /\ ticks' \in {Tail(ticks), Append(Tail(ticks), "drop")} /\ answer' \in {answer, "rejected"}
        /\ UNCHANGED <<toClient, toServer, server, silence, opened>> /\ (socketOpen' => socketOpen)
    BY <1>4 DEF EndedTick, Tick, RunTick, NoDestroy, Destroy, DestroyOnce, NoWrite
  <2>2. Welcome' => Welcome
    BY <2>1, <1>0, StillWelcome DEF Welcome
  <2> QED
    BY <2>1, <2>2, <1>0, StillWelcomed
<1>5. CASE Failing \/ ContinueClose \/ CheckHeartbeat
  <2>1. /\ ticks' \in {ticks, Append(ticks, "drop")} /\ answer' \in {answer, "rejected", None}
        /\ UNCHANGED <<toClient, toServer, server, silence, opened>> /\ (socketOpen' => socketOpen)
    BY <1>5 DEF Failing, Fail, Continue, ContinueClose, CheckHeartbeat, Destroy, DestroyOnce, NoWrite
  <2>2. Welcome' => Welcome
    BY <2>1, <1>0, StillWelcome DEF Welcome, None
  <2> QED
    BY <2>1, <2>2, <1>0, StillWelcomed
<1>6. CASE Started \/ Told
  <2>1. /\ ticks' = Append(ticks, "ask") /\ answer' = None
        /\ UNCHANGED <<toClient, toServer, server, silence, opened, socketOpen>>
    BY <1>6 DEF Started, Told, Continue, Ask, NoWrite
  <2>2. Welcome' => Welcome
    BY <2>1, <1>0, StillWelcome DEF None
  <2> QED
    BY <2>1, <2>2, <1>0, StillWelcomed
<1>7. CASE Tuned \/ Flushed
  <2>1. /\ ticks' = ticks /\ answer' \in {None, "written"}
        /\ UNCHANGED <<toClient, server, silence, opened, socketOpen>>
    BY <1>7 DEF Tuned, Flushed, timers
  <2>2. Welcome' => Welcome
    BY <2>1, <1>0, StillWelcome DEF None
  <2>3. Write("tune_ok") \/ toServer' = toServer
    BY <1>7 DEF Tuned, Flushed
  <2>4. toServer' \in Seq(Sent)
    BY <2>3, <1>0, Written DEF Sent
  <2> QED
    BY <2>1, <2>2, <2>4, StillWelcomed
<1>8. CASE Opened
  <2>1. /\ ticks' = ticks /\ answer = "open_ok" /\ answer' = None
        /\ UNCHANGED <<toClient, toServer, server, silence, socketOpen>>
    BY <1>8 DEF Opened, Continue, NoWrite
  <2>2. (Welcome' => Welcome) /\ Welcome
    BY <2>1, <1>0, StillWelcome DEF None, Welcome
  <2> QED
    BY <2>1, <2>2, <1>0, StillWelcomed
<1>9. CASE SendHeartbeat \/ Beat \/ UNCHANGED vars
  <2>1. UNCHANGED <<ticks, answer, toClient, server, silence, opened, socketOpen>>
    BY <1>9 DEF SendHeartbeat, Beat, vars, timers, loop
  <2>2. Write("heartbeat") \/ toServer' = toServer
    BY <1>9 DEF SendHeartbeat, NoWrite, Beat, vars
  <2>3. toServer' \in Seq(Sent)
    BY <2>2, <1>0, Written DEF Sent
  <2>4. Welcome' => Welcome
    BY <2>1 DEF Welcome
  <2> QED
    BY <2>1, <2>3, <2>4, StillWelcomed
<1>10. CASE SocketTimeout \/ GiveUp
  <2>1. /\ ticks' = Append(ticks, "ended") /\ ~socketOpen' /\ socketOpen
        /\ UNCHANGED <<answer, toClient, toServer, server, silence, opened>>
    BY <1>10 DEF SocketTimeout, GiveUp, SocketEnds, timers
  <2>2. Welcome' => Welcome
    BY <2>1, <1>0, StillWelcome DEF Welcome
  <2> QED
    BY <2>1, <2>2, <1>0, StillWelcomed
<1>11. CASE Deliver
  <2>1. PICK n \in 1..Least2(2, Len(toClient)) :
          /\ socketOpen
          /\ ticks' = SubSeq(toClient, 1, n)
          /\ toClient' = SubSeq(toClient, n + 1, Len(toClient))
          /\ UNCHANGED <<answer, toServer, server, silence, opened, socketOpen>>
    BY <1>11 DEF Deliver
  <2>2. n \in 1..Len(toClient)
    BY <1>0 DEF Least2
  <2>3. Welcome' => Welcome
    BY <2>1, <2>2, <1>0, InPieces DEF Welcome
  <2> QED
    BY <2>1, <2>3, <1>0, StillWelcomed
<1>12. CASE Serve
  <2> DEFINE m == Head(toServer)
  <2>1. /\ toServer # <<>> /\ toServer' = Tail(toServer) /\ silence' = 0
        /\ server' = IF m = "open" THEN "open" ELSE server
        /\ UNCHANGED <<ticks, answer, opened, socketOpen>>
    BY <1>12 DEF Serve, ClientRuns, loop
  <2>2. toServer' \in Seq(Sent)
    BY <2>1, <1>0, HeadTailProperties
  <2>3. CASE m = "open"
    BY <2>1, <2>2, <2>3 DEF Welcomed
  <2>4. CASE m # "open"
    <3>1. \A r \in DOMAIN Answers : r # "open" => Answers[r] \subseteq Messages \ {"open_ok"}
      BY DEF Answers, Messages
    <3>2. toClient' = toClient \/ \E a \in Messages \ {"open_ok"} : toClient' = Append(toClient, a)
      BY <1>12, <2>4, <3>1 DEF Serve
    <3>3. Lacks(toClient, {"open_ok"}) => Lacks(toClient', {"open_ok"})
      BY <3>2, <1>0, WithLast
    <3>4. Welcome' => Welcome
      BY <2>1, <3>3 DEF Welcome
    <3> QED
      BY <2>1, <2>2, <2>4, <3>4 DEF Welcomed
  <2> QED
    BY <2>3, <2>4
<1>13. CASE Interrupt \/ Stop
  <2>1. /\ server' \in {server, "closed", "stopped"} /\ toServer' \in {toServer, <<>>}
        /\ UNCHANGED <<silence, ticks, answer, opened, socketOpen>>
    BY <1>13 DEF Interrupt, Stop, ClientRuns, loop
  <2>2. toClient' = toClient \/ \E a \in Messages \ {"open_ok"} : toClient' = Append(toClient, a)
    <3>1. {"close", "update_secret"} \subseteq Messages \ {"open_ok"}
      BY DEF Messages
    <3> QED
      BY <1>13, <3>1 DEF Interrupt, Stop
  <2>3. Lacks(toClient, {"open_ok"}) => Lacks(toClient', {"open_ok"})
    BY <2>2, <1>0, WithLast
  <2>4. Welcome' => Welcome
    BY <2>1, <2>3 DEF Welcome
  <2>5. toServer' \in Seq(Sent)
    BY <2>1, <1>0, EmptySeq
  <2> QED
    BY <2>1, <2>4, <2>5 DEF Welcomed
<1>14. CASE Pass
  <2>1. /\ ticks = <<>> /\ answer = None /\ (socketOpen => toClient = <<>>)
        /\ UNCHANGED <<ticks, answer, toClient, socketOpen, opened, server, toServer>>
        /\ silence' = Later(silence)
    BY <1>14 DEF Pass, Busy, Quiet, Continuations, loop
  <2>2. ~Welcome'
    BY <2>1, NoneWaiting DEF Welcome, None
  <2>3. silence' \in Nat
    <3>1. Longest \in Nat
      BY LongestIsNat
    <3> QED
      BY <2>1, <3>1 DEF Later, Least2, Welcomed
  <2> QED
    BY <2>1, <2>2, <2>3, <1>0 DEF Welcomed
<1> QED
  BY <1>1, <1>2, <1>3, <1>4, <1>5, <1>6, <1>7, <1>8, <1>9, <1>10, <1>11, <1>12, <1>13, <1>14
     DEF Next, Client, Environment

Offered == tune.heartbeat * SECOND

\* both ends are there
Living == opened /\ ~destroyed /\ socketOpen /\ server = "open"

\* while they are, the server is heard within a margin after the interval, and hears of the client
\* within its own interval: what is left of it is on the timer, or a heartbeat is on its way
Clocks ==
    /\ idle \in Nat /\ idle <= age
    /\ check \in {Off} \cup 0..HB_MOF_MAX /\ (check # Off => opened /\ options.heartbeat # 0)
    /\ send \in {Off} \cup 0..Offered /\ (send # Off => tune.heartbeat # 0)
    /\ Living /\ Agreed # 0 => age <= Agreed + Margin(Agreed)
    /\ Living /\ tune.heartbeat # 0 =>
          /\ send # Off /\ silence <= Offered /\ idle + send <= Offered
          /\ toServer = <<>> => silence + send <= Offered

LEMMA IntervalsAreNat ==
    ASSUME Limits
    PROVE  Offered \in Nat /\ Agreed \in Nat /\ Margin(Offered) \in Nat /\ Margin(Agreed) \in Nat
<1>1. tune.heartbeat \in Nat /\ tune_ok.heartbeat \in Nat /\ SECOND \in Nat
  BY SessionAssumption DEF Limits, TuneLimits
<1>2. Offered \in Nat /\ Agreed \in Nat
  BY <1>1 DEF Offered, Agreed
<1> QED
  BY <1>2, MarginIsNat

LEMMA NoLessThanOne ==
    ASSUME NEW n \in Nat \ {0}, NEW m \in Nat
    PROVE  m <= n * m
<1>1. n - 1 \in Nat /\ (n - 1) * m \in Nat
  OBVIOUS
<1>2. n * m = (n - 1) * m + m
  OBVIOUS
<1> QED
  BY <1>1, <1>2

LEMMA MarginFits ==
    ASSUME Limits, tune.heartbeat # 0
    PROVE  Margin(Offered) <= Offered
<1>1. tune.heartbeat \in Nat \ {0} /\ SECOND \in Nat /\ HB_MOF_MIN \in Nat /\ HB_MOF_MIN <= SECOND
      /\ HB_MOF_MAX \in Nat /\ HB_MOF_DENOMINATOR \in Nat \ {0}
  BY SessionAssumption DEF Limits, TuneLimits
<1>2. SECOND <= Offered /\ Offered \in Nat
  BY <1>1, NoLessThanOne, IntervalsAreNat DEF Offered
<1>3. Offered \div HB_MOF_DENOMINATOR \in Int /\ Offered \div HB_MOF_DENOMINATOR <= Offered
  <2> DEFINE d == HB_MOF_DENOMINATOR
             part == Offered \div d
  <2>1. part \in Int /\ Offered = d * part + (Offered % d) /\ Offered % d \in 0..(d - 1)
    BY <1>1, <1>2
  <2> HIDE DEF part
  <2>2. part \in Nat
    <3> SUFFICES ASSUME part <= -1 PROVE FALSE
      BY <2>1
    <3>1. -part \in Nat /\ 1 <= -part /\ d \in Nat \ {0}
      BY <1>1, <2>1
    <3>2. d <= (-part) * d
      BY <3>1, NoLessThanOne
    <3>3. (-part) * d = -(d * part)
      BY <3>1, <2>1
    <3> QED
      BY <3>1, <3>2, <3>3, <2>1, <1>2
  <2>3. part <= d * part
    BY <1>1, <2>2, NoLessThanOne
  <2> QED
    BY <1>1, <1>2, <2>1, <2>2, <2>3 DEF part
<1> QED
  BY <1>1, <1>2, <1>3 DEF Margin, Least2, Greatest

LEMMA StillClocked ==
    ASSUME Clocks, Silence, UNCHANGED <<age, silence, send, check, tune>>, opened' = opened,
           (options' = options /\ tune_ok' = tune_ok) \/ ~opened,
           idle' \in {0, idle}, toServer' = toServer \/ toServer' # <<>>, Living' => Living, Limits
    PROVE  Clocks'
<1>1. Offered' = Offered /\ (opened => Agreed' = Agreed)
  BY DEF Offered, Agreed
<1>2. idle' \in Nat /\ idle' <= idle /\ idle' <= age'
  BY DEF Clocks, Silence
<1>3. Living' /\ Agreed' # 0 => age' <= Agreed' + Margin(Agreed')
  BY <1>1 DEF Clocks, Living
<1>4. ASSUME Living', tune'.heartbeat # 0
      PROVE  /\ send' # Off /\ silence' <= Offered' /\ idle' + send' <= Offered'
             /\ toServer' = <<>> => silence' + send' <= Offered'
  <2>1. /\ send # Off /\ silence <= Offered /\ idle + send <= Offered
        /\ toServer = <<>> => silence + send <= Offered
    BY <1>4 DEF Clocks
  <2>2. send \in Nat /\ Offered \in Nat /\ idle \in Nat
    BY <2>1, IntervalsAreNat DEF Clocks
  <2>3. idle' + send' <= Offered'
    <3>1. send' = send /\ Offered' = Offered
      BY <1>1
    <3>2. CASE idle' = idle
      BY <3>1, <3>2, <2>1
    <3>3. CASE idle' = 0
      BY <3>1, <3>3, <2>1, <2>2
    <3> QED
      BY <3>2, <3>3
  <2>4. toServer' = <<>> => silence' + send' <= Offered'
    BY <1>1, <2>1
  <2> QED
    BY <1>1, <2>1, <2>3, <2>4
<1>5. send' \in {Off} \cup 0..Offered' /\ (send' # Off => tune'.heartbeat # 0)
  BY <1>1 DEF Clocks
<1>6. check' \in {Off} \cup 0..HB_MOF_MAX /\ (check' # Off => opened' /\ options'.heartbeat # 0)
  BY DEF Clocks
<1> QED
  BY <1>2, <1>3, <1>4, <1>5, <1>6 DEF Clocks

LEMMA ClocksStopped ==
    ASSUME Clocks, ~Living', send' = Off, check' = Off, age' = age, idle' \in {0, idle}, Silence
    PROVE  Clocks'
<1>1. idle' \in Nat /\ idle' <= age'
  BY DEF Clocks, Silence
<1> QED
  BY <1>1 DEF Clocks

LEMMA ClocksKept ==
    ASSUME Handshake, Limits, Silence, TimersEnd, Welcomed, Clocks, [Next]_vars
    PROVE  Clocks'
<1>0. toServer \in Seq(Sent) /\ (opened => place = "opened")
  BY DEF Welcomed, Limits
<1>1. CASE AskTick
  <2>1. UNCHANGED <<age, silence, send, check, tune, opened, settled, destroyed, socketOpen, server>>
        /\ Write(Request[place]) /\ ~NoAsk(ticks)
    BY <1>1, FirstGone DEF AskTick, Tick, RunTick, ending, Handshake
  <2>2. Request[place] \in Sent
    BY <2>1 DEF Handshake, Asked, Request, Sent
  <2> QED
    BY <2>1, <2>2, <1>0, Written, StillClocked DEF settled, Living
<1>2. CASE DropTick \/ Started \/ Told
  BY <1>2, StillClocked DEF DropTick, Started, Told, NoWrite, timers, settled, ending, Living
<1>3. CASE MethodTick
  <2>1. UNCHANGED <<age, silence, tune, opened, settled, server>> /\ (NoWrite \/ Write("close_ok"))
    BY <1>3 DEF MethodTick
  <2>2. idle' \in {0, idle} /\ (toServer' = toServer \/ toServer' # <<>>)
    BY <2>1, <1>0, Written DEF Sent
  <2>3. UNCHANGED <<send, check, destroyed, socketOpen>> \/ DestroyOnce("update_secret", Tail(ticks))
    BY <1>3 DEF MethodTick, NoDestroy, Destroy
  <2>4. CASE UNCHANGED <<send, check, destroyed, socketOpen>>
    BY <2>1, <2>2, <2>4, StillClocked DEF settled, Living
  <2>5. CASE DestroyOnce("update_secret", Tail(ticks))
    BY <2>1, <2>2, <2>5, ClocksStopped DEF DestroyOnce, Living
  <2> QED
    BY <2>3, <2>4, <2>5
<1>4. CASE EndedTick \/ Failing \/ ContinueClose
  <2>1. UNCHANGED <<age, silence, tune, opened, settled, server, idle, toServer>>
    BY <1>4 DEF EndedTick, Failing, ContinueClose, NoWrite
  <2>2. UNCHANGED <<send, check, destroyed, socketOpen>> \/ \E why, rest : DestroyOnce(why, rest)
    BY <1>4 DEF EndedTick, Failing, Fail, ContinueClose, NoDestroy, Destroy
  <2>3. CASE UNCHANGED <<send, check, destroyed, socketOpen>>
    BY <2>1, <2>3, StillClocked DEF settled, Living
  <2>4. CASE \E why, rest : DestroyOnce(why, rest)
    BY <2>1, <2>4, ClocksStopped DEF DestroyOnce, Living
  <2> QED
    BY <2>2, <2>3, <2>4
<1>5. CASE Tuned \/ Flushed
  <2>1. UNCHANGED <<age, silence, send, check, tune, opened, destroyed, socketOpen, server>>
        /\ (NoWrite \/ Write("tune_ok"))
    BY <1>5 DEF Tuned, Flushed, timers, ending, NoWrite
  <2>2. UNCHANGED settled \/ ~opened
    <3>1. CASE Flushed
      BY <3>1 DEF Flushed
    <3>2. CASE Tuned
      <4>1. answer = "tune"
        BY <3>2 DEF Tuned
      <4> QED
        BY <4>1, <1>0 DEF Handshake, Possible, None
    <3> QED
      BY <1>5, <3>1, <3>2
  <2>3. idle' \in {0, idle} /\ (toServer' = toServer \/ toServer' # <<>>)
    BY <2>1, <1>0, Written DEF Sent
  <2> QED
    BY <2>1, <2>2, <2>3, StillClocked DEF settled, Living
<1>6. CASE Opened
  <2>1. answer = "open_ok" /\ send' = StartSend /\ check' = StartCheck /\ opened'
        /\ UNCHANGED <<tune, settled, age, silence, server, toServer, idle, destroyed, socketOpen>>
    BY <1>6 DEF Opened, Continue, NoWrite
  <2>2. age = 0 /\ silence = 0 /\ idle = 0
    BY <2>1 DEF Silence, Welcomed, Welcome, Clocks
  <2>3. Offered' = Offered /\ Agreed' = Agreed
    BY <2>1 DEF Offered, Agreed, settled
  <2>4. HB_MOF_MAX \in Nat
    BY SessionAssumption
  <2>5. check' \in {Off} \cup 0..HB_MOF_MAX /\ (check' # Off => options'.heartbeat # 0)
    BY <2>1, <2>4 DEF StartCheck, settled
  <2>6. send' = IF tune.heartbeat # 0 THEN Offered ELSE Off
    BY <2>1 DEF StartSend, Offered
  <2>7. send' \in {Off} \cup 0..Offered /\ (send' # Off => tune'.heartbeat # 0)
    BY <2>1, <2>6, IntervalsAreNat
  <2>8. Offered # Off
    BY IntervalsAreNat DEF Off
  <2> QED
    BY <2>1, <2>2, <2>3, <2>5, <2>6, <2>7, <2>8, IntervalsAreNat DEF Clocks, settled
<1>7. CASE SendHeartbeat
  <2>1. UNCHANGED <<tune, settled, age, silence, server, opened, destroyed, socketOpen, check>>
    BY <1>7 DEF SendHeartbeat, ending
  <2>2. CASE destroyed
    <3>1. send' = Off /\ NoWrite /\ ~Living'
      BY <1>7, <2>1, <2>2 DEF SendHeartbeat, Living
    <3> QED
      BY <2>1, <3>1 DEF Clocks, settled, NoWrite
  <2>3. CASE ~destroyed
    <3>1. send' = NextSend /\ Write("heartbeat") /\ send = 0
      BY <1>7, <2>3 DEF SendHeartbeat
    <3>2. idle' \in {0, idle} /\ (Living => idle' = 0 /\ toServer' # <<>>)
      BY <3>1, <1>0, WithLast DEF Write, Living, Sent, Alive
    <3>3. Offered' = Offered /\ Agreed' = Agreed /\ (Living' => Living)
      BY <2>1 DEF Offered, Agreed, settled, Living
    <3>4. idle' \in Nat /\ idle' <= age'
      BY <2>1, <3>2 DEF Clocks, Silence
    <3>5. CASE tune.heartbeat # 0
      <4>1. NextSend = Offered - Margin(Offered)
        BY DEF NextSend, Offered
      <4>2. send' \in 0..Offered /\ send' # Off
        BY <3>1, <3>5, <4>1, MarginFits, IntervalsAreNat DEF Off
      <4>3. Living' => /\ send' # Off /\ silence' <= Offered' /\ idle' + send' <= Offered'
                       /\ toServer' # <<>>
        BY <2>1, <3>2, <3>3, <3>5, <4>2, IntervalsAreNat DEF Clocks
      <4>4. Living' /\ Agreed' # 0 => age' <= Agreed' + Margin(Agreed')
        BY <2>1, <3>3 DEF Clocks
      <4>5. check' \in {Off} \cup 0..HB_MOF_MAX /\ (check' # Off => opened' /\ options'.heartbeat # 0)
        BY <2>1 DEF Clocks, settled
      <4>6. tune'.heartbeat # 0
        BY <2>1, <3>5
      <4> QED
        BY <3>3, <3>4, <4>2, <4>3, <4>4, <4>5, <4>6 DEF Clocks
    <3>6. tune.heartbeat # 0
      BY <3>1 DEF Clocks, Off
    <3> QED
      BY <3>5, <3>6
  <2> QED
    BY <2>2, <2>3
<1>8. CASE CheckHeartbeat
  <2>1. UNCHANGED <<tune, settled, age, silence, server, opened, toServer, idle>> /\ check = 0
    BY <1>8 DEF CheckHeartbeat, NoWrite
  <2>2. DestroyOnce("heartbeat", ticks) \/ (check' = HB_MOF_MAX /\ UNCHANGED <<send, destroyed, socketOpen>>)
    BY <1>8 DEF CheckHeartbeat, Destroy
  <2>3. CASE DestroyOnce("heartbeat", ticks)
    BY <2>1, <2>3, ClocksStopped DEF DestroyOnce, Living
  <2>4. CASE check' = HB_MOF_MAX /\ UNCHANGED <<send, destroyed, socketOpen>>
    <3>1. Offered' = Offered /\ Agreed' = Agreed /\ Living' = Living
      BY <2>1, <2>4 DEF Offered, Agreed, Living, settled
    <3>2. HB_MOF_MAX \in Nat /\ check # Off
      BY <2>1, SessionAssumption DEF Off
    <3>3. check' \in 0..HB_MOF_MAX /\ opened' /\ options'.heartbeat # 0
      BY <2>1, <2>4, <3>2 DEF Clocks, settled
    <3> QED
      BY <2>1, <2>4, <3>1, <3>3 DEF Clocks
  <2> QED
    BY <2>2, <2>3, <2>4
<1>9. CASE SocketTimeout \/ GiveUp
  BY <1>9, StillClocked DEF SocketTimeout, GiveUp, SocketEnds, timers, settled, Living
<1>10. CASE Deliver \/ Beat
  <2>1. age' = 0 /\ idle' = 0
        /\ UNCHANGED <<tune, settled, silence, send, check, server, opened, destroyed, socketOpen, toServer>>
    BY <1>10 DEF Deliver, Beat, ending
  <2>2. Offered' = Offered /\ Agreed' = Agreed /\ (Living' => Living)
    BY <2>1 DEF Offered, Agreed, settled, Living
  <2>3. Living' /\ tune'.heartbeat # 0 => idle' + send' <= Offered'
    BY <2>1, <2>2, IntervalsAreNat DEF Clocks
  <2>4. Living' /\ Agreed' # 0 => age' <= Agreed' + Margin(Agreed')
    BY <2>1, <2>2, IntervalsAreNat
  <2> QED
    BY <2>1, <2>2, <2>3, <2>4 DEF Clocks, settled
<1>11. CASE Serve
  <2>1. silence' = 0
        /\ UNCHANGED <<tune, settled, idle, age, send, check, opened, destroyed, socketOpen>>
    BY <1>11 DEF Serve, ClientRuns, ending
  <2>2. Offered' = Offered /\ Agreed' = Agreed
    BY <2>1 DEF Offered, Agreed, settled
  <2>3. Living' => Living
    <3>1. opened => server # "header"
      BY DEF Welcomed
    <3>2. Alive
      BY <1>11 DEF Serve
    <3> QED
      BY <2>1, <3>1, <3>2 DEF Living, Alive, Welcomed
  <2>4. ASSUME Living', tune'.heartbeat # 0
        PROVE  /\ send' # Off /\ silence' <= Offered' /\ idle' + send' <= Offered'
               /\ silence' + send' <= Offered'
    <3>1. send # Off /\ idle + send <= Offered /\ send \in 0..Offered
      BY <2>1, <2>3, <2>4 DEF Clocks
    <3> QED
      BY <2>1, <2>2, <3>1, IntervalsAreNat
  <2>5. Living' /\ Agreed' # 0 => age' <= Agreed' + Margin(Agreed')
    BY <2>1, <2>2, <2>3 DEF Clocks
  <2> QED
    BY <2>1, <2>2, <2>4, <2>5 DEF Clocks, settled
<1>12. CASE Interrupt \/ Stop
  <2>1. UNCHANGED <<tune, settled, idle, age, silence, send, check, opened, destroyed, socketOpen>>
    BY <1>12 DEF Interrupt, Stop, ClientRuns, ending
  <2>2. server' = "open" => server = "open" /\ toServer' = toServer
    BY <1>12 DEF Interrupt, Stop
  <2>3. Offered' = Offered /\ Agreed' = Agreed /\ (Living' => Living /\ toServer' = toServer)
    BY <2>1, <2>2 DEF Offered, Agreed, settled, Living
  <2> QED
    BY <2>1, <2>3 DEF Clocks, settled
<1>13. CASE Pass
  <2>1. /\ send' = Earlier(send) /\ check' = Earlier(check) /\ send # 0 /\ check # 0
        /\ idle' = Later(idle) /\ age' = Later(age) /\ silence' = Later(silence)
        /\ UNCHANGED <<tune, settled, opened, destroyed, socketOpen, server, toServer>>
    BY <1>13 DEF Pass, Busy, ending
  <2>2. /\ Living => toServer = <<>>
        /\ Living /\ Agreed # 0 => ~(age >= Agreed + Margin(Agreed))
    BY <1>13 DEF Pass, Busy, Living, Alive
  <2>3. Longest \in Nat /\ idle \in Nat /\ age \in Nat /\ silence \in Nat /\ idle <= age
    BY LongestIsNat DEF Clocks, Silence, Welcomed
  <2>4. /\ idle' \in Nat /\ idle' <= idle + 1 /\ idle' <= age' /\ age' <= age + 1
        /\ age' \in Nat /\ silence' \in Nat /\ silence' <= silence + 1
    BY <2>1, <2>3 DEF Later, Least2
  <2>5. Offered' = Offered /\ Agreed' = Agreed /\ Living' = Living
    BY <2>1 DEF Offered, Agreed, Living, settled
  <2>6. check' \in {Off} \cup 0..HB_MOF_MAX /\ (check' # Off => opened' /\ options'.heartbeat # 0)
    BY <2>1, SessionAssumption DEF Clocks, Earlier, Off, settled
  <2>7. send' \in {Off} \cup 0..Offered /\ (send # Off => send' = send - 1 /\ send' # Off)
        /\ (send' # Off => tune.heartbeat # 0)
    BY <2>1, IntervalsAreNat DEF Clocks, Earlier, Off
  <2>8. ASSUME Living, Agreed # 0
        PROVE  age' <= Agreed + Margin(Agreed)
    BY <2>2, <2>3, <2>4, <2>8, IntervalsAreNat DEF Clocks, Silence
  <2>9. ASSUME Living, tune.heartbeat # 0
        PROVE  send' # Off /\ silence' <= Offered /\ idle' + send' <= Offered /\ silence' + send' <= Offered
    <3>1. send # Off /\ silence + send <= Offered /\ idle + send <= Offered /\ send \in 0..Offered
      BY <2>2, <2>9 DEF Clocks
    <3>2. silence' + send' <= Offered /\ idle' + send' <= Offered
      BY <3>1, <2>3, <2>4, <2>7, IntervalsAreNat
    <3>3. send' \in Nat
      BY <3>1, <2>7, IntervalsAreNat
    <3> QED
      BY <3>1, <3>2, <3>3, <2>4, <2>7, IntervalsAreNat
  <2> QED
    BY <2>1, <2>4, <2>5, <2>6, <2>7, <2>8, <2>9 DEF Clocks
<1>14. CASE UNCHANGED vars
  BY <1>14, StillClocked DEF vars, timers, settled, Living
<1> QED
  BY <1>1, <1>2, <1>3, <1>4, <1>5, <1>6, <1>7, <1>8, <1>9, <1>10, <1>11, <1>12, <1>13, <1>14
     DEF Next, Client, Environment

-----------------------------------------------------------------------------
(* What is taken for dead.                                                 *)

\* a dead server was found; the end of a socket is blamed on two ends that are alive only for
\* what they agreed on, or before the connection was open
Blame ==
    /\ cause = "heartbeat" => server \in {"stopped", "closed"}
    /\ opened /\ server = "open" =>
          (cause = "silence" => Mismatched) /\ (cause = "timeout" => Quieter)
    /\ ~opened /\ cause \in {"silence", "timeout"} => destroyed \/ ticks = <<"ended">>

LEMMA OnlyTheEnd ==
    ASSUME EndedAlone, ticks = <<"ended">>
    PROVE  ticks # <<>> /\ Head(ticks) = "ended" /\ ~draining
<1>1. <<"ended">> # <<>> /\ Head(<<"ended">>) = "ended" /\ Len(<<"ended">>) = 1
  OBVIOUS
<1>2. ~Lacks(<<"ended">>, {"ended"})
  BY <1>1 DEF Lacks
<1> QED
  BY <1>1, <1>2 DEF EndedAlone

LEMMA StillBlamed ==
    ASSUME Blame, UNCHANGED <<user, tune, opened>>, UNCHANGED settled \/ ~opened,
           cause' = cause \/ cause' \in {"open", "close", "update_secret"},
           opened /\ server' = "open" => server = "open",
           server \in {"stopped", "closed"} => server' = server,
           destroyed => destroyed', ticks = <<"ended">> => ticks' = ticks \/ destroyed'
    PROVE  Blame'
<1>1. cause' = "heartbeat" => server' \in {"stopped", "closed"}
  BY DEF Blame
<1>2. opened => (Mismatched => Mismatched') /\ (Quieter => Quieter')
  BY DEF Mismatched, Quieter, Agreed, settled
<1>3. opened' /\ server' = "open" =>
          (cause' = "silence" => Mismatched') /\ (cause' = "timeout" => Quieter')
  BY <1>2 DEF Blame
<1>4. ~opened' /\ cause' \in {"silence", "timeout"} => destroyed' \/ ticks' = <<"ended">>
  BY DEF Blame
<1> QED
  BY <1>1, <1>3, <1>4 DEF Blame

LEMMA QuietInterval ==
    ASSUME Limits, Clocks, Silence, Living, TimedOut
    PROVE  Quieter
<1>0. user.timeout \in Nat /\ idle \in Nat /\ idle >= user.timeout /\ age \in Nat /\ idle <= age
  BY DEF Limits, UserLimits, Clocks, TimedOut, Silence
<1>1. tune.heartbeat # 0 => Offered >= user.timeout
  <2> SUFFICES ASSUME tune.heartbeat # 0 PROVE Offered >= user.timeout
    OBVIOUS
  <2>1. send # Off /\ idle + send <= Offered /\ send \in 0..Offered
    BY DEF Clocks
  <2> QED
    BY <1>0, <2>1, IntervalsAreNat
<1>2. Agreed # 0 => Agreed + Margin(Agreed) >= user.timeout
  <2> SUFFICES ASSUME Agreed # 0 PROVE Agreed + Margin(Agreed) >= user.timeout
    OBVIOUS
  <2>1. age <= Agreed + Margin(Agreed)
    BY DEF Clocks
  <2> QED
    BY <1>0, <2>1, IntervalsAreNat
<1> QED
  BY <1>1, <1>2 DEF Quieter, Offered

LEMMA LongInterval ==
    ASSUME Limits, Clocks, Welcomed, Living, GivesUp
    PROVE  Mismatched
<1>0. /\ tune.heartbeat \in Nat /\ user.heartbeat \in Nat /\ SECOND \in Nat
      /\ tune_ok.heartbeat = user.heartbeat /\ silence \in Nat
  BY SessionAssumption DEF Limits, LimitsSettled, UserLimits, TuneLimits, Living, Welcomed
<1> SUFFICES ASSUME tune.heartbeat # 0, tune.heartbeat <= 2 * user.heartbeat
             PROVE  FALSE
  BY <1>0 DEF Mismatched, GivesUp
<1>1. Offered \in Nat /\ Agreed \in Nat /\ Margin(Agreed) \in Nat
  BY IntervalsAreNat
<1>2. silence <= Offered /\ silence > 2 * Agreed + Margin(Agreed)
  BY DEF Clocks, GivesUp
<1>3. Offered <= 2 * Agreed
  <2> DEFINE d == 2 * user.heartbeat - tune.heartbeat
  <2>1. d \in Nat /\ d * SECOND \in Nat
    BY <1>0
  <2>2. d * SECOND = 2 * (user.heartbeat * SECOND) - tune.heartbeat * SECOND
    BY <1>0
  <2> QED
    BY <1>0, <2>1, <2>2 DEF Offered, Agreed
<1> QED
  BY <1>0, <1>1, <1>2, <1>3

LEMMA DeadServer ==
    ASSUME Limits, Clocks, Silence, Welcomed, EndedAlone, check = 0, ticks = <<>>, Expired, ~destroyed
    PROVE  server \in {"stopped", "closed"}
<1>1. opened /\ options.heartbeat # 0
  BY DEF Clocks, Off
<1>2. socketOpen
  BY OnlyTheEnd DEF EndedAlone
<1>3. options.heartbeat = tune_ok.heartbeat /\ options.heartbeat \in Nat \ {0} /\ SECOND \in Nat \ {0}
  BY <1>1, SessionAssumption DEF Limits, LimitsSettled, UserLimits
<1>4. Agreed # 0 /\ age > Agreed + Margin(Agreed)
  <2>1. SECOND <= options.heartbeat * SECOND
    BY <1>3, NoLessThanOne
  <2> QED
    BY <1>3, <2>1 DEF Agreed, Expired
<1>5. ~Living
  BY <1>4, IntervalsAreNat DEF Clocks, Silence
<1> QED
  BY <1>1, <1>2, <1>5 DEF Living, Welcomed

LEMMA BlameKept ==
    ASSUME Handshake, Limits, Silence, TimersEnd, EndedAlone, Welcomed, Clocks, Blame, [Next]_vars
    PROVE  Blame'
<1>0. UNCHANGED <<user, tune>> /\ (UNCHANGED settled \/ ~opened)
  BY LimitsMove DEF Limits
<1>1. CASE AskTick \/ DropTick \/ MethodTick \/ EndedTick
  <2>1. /\ UNCHANGED <<opened, server>> /\ (destroyed => destroyed')
        /\ cause' = cause \/ cause' \in {"open", "close", "update_secret"}
    BY <1>1 DEF AskTick, DropTick, MethodTick, EndedTick, NoDestroy, Destroy, DestroyOnce, ending
  <2>2. ticks = <<"ended">> => destroyed'
    <3>1. ticks = <<"ended">> => EndedTick
      BY <1>1, OnlyTheEnd DEF AskTick, DropTick, MethodTick, Tick, RunTick
    <3> QED
      BY <3>1 DEF EndedTick, NoDestroy, Destroy, DestroyOnce
  <2> QED
    BY <1>0, <2>1, <2>2, StillBlamed
<1>2. CASE Failing \/ Started \/ Tuned \/ Told \/ ContinueClose
  <2>1. /\ UNCHANGED <<opened, server>> /\ (destroyed => destroyed') /\ RunContinuation
        /\ cause' = cause \/ cause' \in {"open", "close", "update_secret"}
    BY <1>2 DEF Failing, Continue, Fail, Started, Tuned, Told, ContinueClose, Destroy, DestroyOnce, ending
  <2>2. ticks # <<"ended">>
    BY <2>1, OnlyTheEnd DEF RunContinuation
  <2> QED
    BY <1>0, <2>1, <2>2, StillBlamed
<1>3. CASE Opened
  <2>1. answer = "open_ok" /\ RunContinuation /\ opened' /\ UNCHANGED <<server, destroyed>>
        /\ cause' = IF destroyed THEN "late" ELSE cause
    BY <1>3 DEF Opened, Continue
  <2>2. ~opened
    BY <2>1 DEF Handshake, Possible, Limits, None
  <2>3. ticks # <<"ended">>
    BY <2>1, OnlyTheEnd DEF RunContinuation
  <2> QED
    BY <2>1, <2>2, <2>3 DEF Blame
<1>4. CASE Flushed \/ SendHeartbeat \/ Deliver \/ Beat
  <2>1. Turn /\ UNCHANGED <<opened, server, destroyed, cause>>
    BY <1>4 DEF Flushed, SendHeartbeat, Deliver, Beat, ending
  <2>2. ticks # <<"ended">>
    BY <2>1, OnlyTheEnd DEF Turn, BeginTurn, Quiet
  <2> QED
    BY <1>0, <2>1, <2>2, StillBlamed
<1>5. CASE CheckHeartbeat
  <2>1. Turn /\ check = 0 /\ UNCHANGED <<opened, server>>
    BY <1>5 DEF CheckHeartbeat
  <2>2. ticks = <<>>
    BY <2>1 DEF Turn, BeginTurn, Quiet
  <2>3. ticks # <<"ended">>
    BY <2>2, OnlyTheEnd
  <2>4. CASE Expired /\ ~destroyed
    <3>1. Destroy("heartbeat", ticks)
      BY <1>5, <2>4 DEF CheckHeartbeat
    <3>2. destroyed' /\ cause' = "heartbeat"
      BY <2>4, <3>1 DEF Destroy, DestroyOnce
    <3>3. server \in {"stopped", "closed"}
      BY <2>1, <2>2, <2>4, DeadServer
    <3> QED
      BY <2>1, <3>2, <3>3 DEF Blame
  <2>5. CASE ~Expired \/ destroyed
    <3>1. cause' = cause /\ (destroyed => destroyed')
      BY <1>5, <2>5 DEF CheckHeartbeat, Destroy, DestroyOnce, ending
    <3> QED
      BY <1>0, <2>1, <2>3, <3>1, StillBlamed
  <2> QED
    BY <2>4, <2>5
<1>6. CASE SocketTimeout \/ GiveUp
  <2>1. /\ Turn /\ socketOpen /\ ticks' = Append(ticks, "ended")
        /\ UNCHANGED <<user, tune, settled, opened, server, destroyed>>
        /\ \/ TimedOut /\ cause' = "timeout"
           \/ GivesUp /\ cause' = "silence"
    BY <1>6 DEF SocketTimeout, GiveUp, SocketEnds
  <2>2. ticks' = <<"ended">>
    BY <2>1 DEF Turn, BeginTurn, Quiet
  <2>3. ~destroyed
    BY <2>1 DEF TimersEnd
  <2>4. opened /\ server = "open" =>
          (TimedOut => Quieter) /\ (GivesUp => Mismatched)
    BY <2>1, <2>3, QuietInterval, LongInterval DEF Living
  <2>5. (Quieter => Quieter') /\ (Mismatched => Mismatched')
    BY <2>1 DEF Quieter, Mismatched, Agreed, settled
  <2> QED
    BY <2>1, <2>2, <2>4, <2>5 DEF Blame
<1>7. CASE Serve \/ Interrupt \/ Stop \/ Pass \/ UNCHANGED vars
  <2>1. UNCHANGED <<opened, destroyed, cause, ticks>>
    BY <1>7 DEF Serve, Interrupt, Stop, Pass, ClientRuns, ending, loop, vars
  <2>2. (opened /\ server' = "open" => server = "open") /\ (server \in {"stopped", "closed"} => server' = server)
    BY <1>7 DEF Serve, Interrupt, Stop, Alive, Pass, vars, Welcomed
  <2> QED
    BY <1>0, <2>1, <2>2, StillBlamed
<1> QED
  BY <1>1, <1>2, <1>3, <1>4, <1>5, <1>6, <1>7 DEF Next, Client, Environment

LEMMA ClocksAlways == Spec => [](Welcomed /\ Clocks /\ Blame)
<1>1. Init => Welcomed /\ Clocks /\ Blame
  <2> SUFFICES ASSUME Init PROVE Welcomed /\ Clocks /\ Blame
    OBVIOUS
  <2>1. /\ ticks = Append(<<>>, "ask") /\ toClient = <<>> /\ toServer = <<>> /\ answer = None /\ opened = FALSE
        /\ server = "header" /\ cause = None /\ silence = 0 /\ idle = 0 /\ age = 0 /\ send = Off /\ check = Off
    BY DEF Init
  <2>2. ~Welcome
    BY <2>1, OneWaiting, NoneWaiting DEF Welcome, None
  <2>3. toServer \in Seq(Sent)
    BY <2>1, EmptySeq
  <2> QED
    BY <2>1, <2>2, <2>3 DEF Welcomed, Clocks, Blame, Living, None
<1> QED
  BY <1>1, HandshakeAlways, LimitsAlways, SilenceAlways, TimersEndWithConnection, EndingAlways,
     WelcomedKept, ClocksKept, BlameKept, PTL DEF Spec

\* For every user, every server and every margin, as long as the margin fits a second: an open
\* connection is not ended by its check or its timeout while the server lives and beats, nor by the
\* server, unless the two follow different intervals (start_send_heartbeat goes by that of the
\* server, start_check_heartbeat by that of the user, channel.ts).
THEOREM LivingEndsStay == Spec => []LivingStay
<1>1. Blame => LivingStay
  BY DEF Blame, LivingStay
<1> QED
  BY <1>1, ClocksAlways, PTL

-----------------------------------------------------------------------------
(* Types.                                                                  *)

Causes == { None, "open", "close", "update_secret", "heartbeat", "timeout", "silence", "late" }

Flags ==
    /\ destroyed \in BOOLEAN /\ opened \in BOOLEAN /\ socketOpen \in BOOLEAN /\ closing \in BOOLEAN
    /\ extra \in BOOLEAN /\ dropping \in BOOLEAN /\ crashed \in BOOLEAN
    /\ cause \in Causes

\* what a step writes into a flag
LEMMA FlagsKept ==
    ASSUME Flags, [Next]_vars
    PROVE  Flags'
<1>1. ASSUME NEW why \in Causes, NEW rest, DestroyOnce(why, rest),
             UNCHANGED <<opened, extra>>, closing' \in BOOLEAN
      PROVE  Flags'
  BY <1>1, Zenon DEF DestroyOnce, Flags
<1>2. CASE AskTick \/ DropTick \/ Started \/ Tuned \/ Flushed \/ Told
  BY <1>2 DEF AskTick, DropTick, Started, Tuned, Flushed, Told, Flags, ending
<1>3. CASE MethodTick
  <2>1. UNCHANGED <<opened, extra>> /\ closing' \in BOOLEAN
    BY <1>3 DEF MethodTick, Flags
  <2>2. UNCHANGED <<destroyed, socketOpen, ending>> \/ DestroyOnce("update_secret", Tail(ticks))
    BY <1>3 DEF MethodTick, NoDestroy, Destroy
  <2> QED
    BY <1>1, <2>1, <2>2 DEF Flags, ending, Causes
<1>4. CASE EndedTick \/ Failing \/ ContinueClose \/ CheckHeartbeat
  <2>1. UNCHANGED <<opened, extra>> /\ closing' \in BOOLEAN
    BY <1>4 DEF EndedTick, Failing, ContinueClose, CheckHeartbeat, Flags
  <2>2. \/ UNCHANGED <<destroyed, socketOpen, ending>>
        \/ \E why \in {cause, "open", "close", "heartbeat"} : \E rest : DestroyOnce(why, rest)
    BY <1>4 DEF EndedTick, Failing, Fail, ContinueClose, CheckHeartbeat, NoDestroy, Destroy
  <2>3. {cause, "open", "close", "heartbeat"} \subseteq Causes
    BY DEF Flags, Causes
  <2> QED
    BY <1>1, <2>1, <2>2, <2>3 DEF Flags, ending
<1>5. CASE Opened
  BY <1>5 DEF Opened, Flags, Causes
<1>6. CASE SendHeartbeat \/ Deliver \/ Beat
  BY <1>6 DEF SendHeartbeat, Deliver, Beat, Flags, ending
<1>7. CASE SocketTimeout \/ GiveUp
  BY <1>7 DEF SocketTimeout, GiveUp, SocketEnds, Flags, Causes
<1>8. CASE Serve \/ Interrupt \/ Stop \/ Pass \/ UNCHANGED vars
  BY <1>8 DEF Serve, Interrupt, Stop, Pass, ClientRuns, Flags, ending, vars
<1> QED
  BY <1>2, <1>3, <1>4, <1>5, <1>6, <1>7, <1>8 DEF Next, Client, Environment

Bounded == idle \in Clock /\ age \in Clock /\ silence \in Clock

LEMMA BoundedKept ==
    ASSUME Limits, Bounded, [Next]_vars
    PROVE  Bounded'
<1>1. Longest \in Nat /\ user' = user
  <2>1. user' = user
    <3>1. CASE Client \/ UNCHANGED vars
      BY <3>1 DEF Client, AskTick, DropTick, MethodTick, EndedTick, Failing, Started, Tuned, Flushed, Told,
                  Opened, ContinueClose, SendHeartbeat, CheckHeartbeat, SocketTimeout, SocketEnds, vars
    <3>2. CASE Environment \/ Pass
      BY <3>2 DEF Environment, Serve, Interrupt, Stop, Deliver, Beat, GiveUp, SocketEnds, Pass, ClientRuns
    <3> QED
      BY <3>1, <3>2 DEF Next
  <2> QED
    BY <2>1, LongestIsNat
<1>2. Clock' = Clock /\ 0 \in Clock
  BY <1>1 DEF Clock, Longest
<1>3. \A t \in Clock : Later(t) \in Clock
  BY <1>1 DEF Clock, Later, Least2
<1>4. idle' \in {idle, 0, Later(idle)} /\ age' \in {age, 0, Later(age)} /\ silence' \in {silence, 0, Later(silence)}
  <2>1. CASE AskTick \/ DropTick \/ MethodTick \/ EndedTick \/ Failing \/ Started \/ Told \/ ContinueClose
    BY <2>1 DEF AskTick, DropTick, MethodTick, EndedTick, Failing, Started, Told, ContinueClose,
                Write, NoWrite, timers
  <2>2. CASE Tuned \/ Flushed \/ Opened \/ SendHeartbeat \/ CheckHeartbeat \/ SocketTimeout \/ GiveUp
    BY <2>2 DEF Tuned, Flushed, Opened, SendHeartbeat, CheckHeartbeat, SocketTimeout, GiveUp, SocketEnds,
                Write, NoWrite, timers
  <2>3. CASE Serve \/ Interrupt \/ Stop \/ Deliver \/ Beat \/ Pass \/ UNCHANGED vars
    BY <2>3 DEF Serve, Interrupt, Stop, Deliver, Beat, Pass, ClientRuns, vars, timers
  <2> QED
    BY <2>1, <2>2, <2>3 DEF Next, Client, Environment
<1> QED
  BY <1>2, <1>3, <1>4 DEF Bounded

LEMMA FlagsAlways == Spec => [](Flags /\ Bounded)
<1>1. Init => Flags /\ Bounded
  <2> SUFFICES ASSUME Init PROVE Flags /\ Bounded
    OBVIOUS
  <2>1. Longest \in Nat
    BY LimitsFirst, LongestIsNat
  <2>2. idle = 0 /\ age = 0 /\ silence = 0
    BY DEF Init
  <2>3. Bounded
    BY <2>1, <2>2 DEF Bounded, Clock
  <2>4. Flags
    BY DEF Init, Flags, Causes
  <2> QED
    BY <2>3, <2>4
<1> QED
  BY <1>1, FlagsKept, BoundedKept, LimitsAlways, PTL DEF Spec

\* Every variable has its type, for every user, every server and every margin that fits a second.
THEOREM SessionTypeOK == Spec => []TypeOK
<1>1. Handshake /\ Limits /\ Welcomed /\ Clocks /\ Flags /\ Bounded => TypeOK
  <2> SUFFICES ASSUME Handshake, Limits, Welcomed, Clocks, Flags, Bounded
               PROVE  TypeOK
    OBVIOUS
  <2>1. send \in {Off} \cup 0..(tune.heartbeat * SECOND) /\ check \in {Off} \cup 0..HB_MOF_MAX
    BY DEF Clocks, Offered
  <2>2. {destroyed, opened, socketOpen, closing, extra, dropping, crashed} \subseteq BOOLEAN
    BY DEF Flags
  <2> QED
    BY <2>1, <2>2 DEF Handshake, Places, Limits, UserLimits, TuneLimits, Welcomed, Flags, Causes, Bounded, TypeOK
<1> QED
  BY <1>1, HandshakeAlways, LimitsAlways, ClocksAlways, FlagsAlways, PTL
-----------------------------------------------------------------------------
(* Nobody waits for nothing: the part of OpenSettles that does not depend  *)
(* on time and fairness.                                                   *)

\* the server's close is to be read, to be handled, or its handler to go on
CloseComing ==
    server = "closed" /\ socketOpen /\ ~destroyed
        => closing \/ ~Lacks(ticks, {"close"}) \/ ~Lacks(toClient, {"close"})

\* a call that is registered has its request or an answer on the way, if the server lives
Attended ==
    \/ ~Alive
    \/ ~Lacks(toServer, {Request[place]})
    \/ ~Lacks(toClient, Responses[place]) \/ ~Lacks(ticks, Responses[place])

\* until open() has ended there is something that takes it further: what it waits for has come,
\* its next call is to be made, tune_ok is being written, a call is attended to or about to be
\* rejected with the end of the socket; or it is stranded on a connection that was destroyed
OpenUnderWay ==
    place \notin {"opened", "failed"} =>
        \/ answer # None \/ ~Lacks(ticks, {"ask"})
        \/ ~destroyed /\ place = "told"
        \/ ~destroyed /\ awaiting # {} /\ (~socketOpen \/ Attended)
        \/ Stranded

\* the end of a socket is about to be handled
EndComing == socketOpen \/ destroyed \/ ticks = <<"ended">>

\* What is waiting still waits when another is taken, or one is added.
LEMMA StillWaiting ==
    ASSUME NEW S, NEW jobs \in Seq(S), NEW A, ~Lacks(jobs, A)
    PROVE  /\ jobs # <<>> /\ Head(jobs) \notin A => ~Lacks(Tail(jobs), A)
           /\ \A job \in S : ~Lacks(Append(jobs, job), A)
<1>1. PICK i \in 1..Len(jobs) : jobs[i] \in A
  BY DEF Lacks
<1>2. ASSUME jobs # <<>>, Head(jobs) \notin A PROVE ~Lacks(Tail(jobs), A)
  <2>1. Len(jobs) \in Nat /\ Len(jobs) # 0 /\ Head(jobs) = jobs[1] /\ Len(Tail(jobs)) = Len(jobs) - 1
    BY <1>2, EmptySeq
  <2>2. i # 1
    BY <1>1, <1>2, <2>1
  <2>3. i - 1 \in 1..Len(Tail(jobs)) /\ Tail(jobs)[i - 1] = jobs[i]
    BY <2>1, <2>2
  <2> QED
    BY <1>1, <2>3 DEF Lacks
<1>3. ASSUME NEW job \in S PROVE ~Lacks(Append(jobs, job), A)
  <2>1. i \in 1..Len(Append(jobs, job)) /\ Append(jobs, job)[i] = jobs[i]
    BY <1>3, AppendProperties
  <2> QED
    BY <1>1, <2>1 DEF Lacks
<1> QED
  BY <1>2, <1>3

\* What is added waits.
LEMMA AddedWaits ==
    ASSUME NEW S, NEW jobs \in Seq(S), NEW job \in S, NEW A, job \in A
    PROVE  ~Lacks(Append(jobs, job), A)
<1>1. Len(jobs) + 1 \in 1..Len(Append(jobs, job)) /\ Append(jobs, job)[Len(jobs) + 1] = job
  BY AppendProperties
<1> QED
  BY <1>1 DEF Lacks

\* What is in a stream is in its first piece or in what is left of it.
LEMMA InOnePiece ==
    ASSUME NEW S, NEW stream \in Seq(S), NEW n \in 1..Len(stream), NEW A, ~Lacks(stream, A)
    PROVE  ~Lacks(SubSeq(stream, 1, n), A) \/ ~Lacks(SubSeq(stream, n + 1, Len(stream)), A)
<1> DEFINE piece == SubSeq(stream, 1, n)
           rest == SubSeq(stream, n + 1, Len(stream))
<1>1. Len(stream) \in Nat /\ n \in Nat /\ n <= Len(stream) /\ 1 <= n
  OBVIOUS
<1>2. Len(piece) = n /\ \A i \in 1..n : piece[i] = stream[i]
  BY <1>1, SubSeqProperties
<1>3. Len(rest) = Len(stream) - n
  BY <1>1, SubSeqProperties
<1>4. \A i \in 1..Len(stream) - n : rest[i] = stream[n + i]
  <2> SUFFICES ASSUME NEW i \in 1..Len(stream) - n PROVE rest[i] = stream[n + i]
    OBVIOUS
  <2>1. rest[i] = stream[n + 1 + i - 1]
    BY <1>1, <1>3, SubSeqProperties
  <2> QED
    BY <2>1, <1>1
<1>5. PICK i \in 1..Len(stream) : stream[i] \in A
  BY DEF Lacks
<1> HIDE DEF piece, rest
<1>6. CASE i <= n
  BY <1>1, <1>2, <1>5, <1>6 DEF Lacks, piece
<1>7. CASE n < i
  <2>1. i - n \in 1..Len(rest) /\ n + (i - n) = i
    BY <1>1, <1>3, <1>7
  <2>2. rest[i - n] = stream[i]
    BY <2>1, <1>3, <1>4
  <2> QED
    BY <2>1, <2>2, <1>5 DEF Lacks, rest
<1> QED
  BY <1>1, <1>6, <1>7

\* A step that leaves open() where it is.
LEMMA StillUnderWay ==
    ASSUME OpenUnderWay, UNCHANGED <<place, awaiting, destroyed>>,
           answer' = answer \/ answer' # None, socketOpen' => socketOpen,
           ~Lacks(ticks, {"ask"}) => ~Lacks(ticks', {"ask"}),
           ~destroyed /\ awaiting # {} /\ socketOpen' /\ Attended => Attended'
    PROVE  OpenUnderWay'
BY DEF OpenUnderWay, Stranded

\* A destroy rejects what open() waits for.
LEMMA DestroyedUnderWay ==
    ASSUME OpenUnderWay, NEW why, NEW rest, Destroy(why, rest), place' = place,
           ~Lacks(ticks, {"ask"}) => ~Lacks(ticks', {"ask"})
    PROVE  OpenUnderWay' /\ CloseComing'
<1>1. destroyed' = TRUE /\ (answer' = answer \/ answer' = "rejected")
      /\ (awaiting # {} \/ (place = "told" /\ answer = None) => answer' = "rejected")
  BY DEF Destroy, DestroyOnce
<1>2. "rejected" # None
  BY DEF None
<1> QED
  BY <1>1, <1>2 DEF OpenUnderWay, CloseComing, Stranded
\* The calls are of three places, and their answers are messages of the server.
LEMMA CallsAre ==
    /\ DOMAIN Request = {"start", "tune", "open"} /\ DOMAIN Responses = {"start", "tune", "open"}
    /\ \A p \in {"start", "tune", "open"} :
          /\ Request[p] \in {"header", "start_ok", "open"} \cap Sent /\ Request[p] \in DOMAIN Answers
          /\ Responses[p] # {} /\ Responses[p] \subseteq Messages \ OutOfTurn
          /\ Answers[Request[p]] \subseteq Responses[p]
BY DEF Request, Responses, Answers, Sent, Messages, OutOfTurn

LEMMA UnderWayKept ==
    ASSUME Handshake, TimersEnd, EndedAlone, Welcomed, OpenUnderWay, CloseComing, [Next]_vars
    PROVE  OpenUnderWay' /\ CloseComing'
<1>0. /\ ticks \in Seq(Jobs) /\ toClient \in Seq(Messages) /\ toServer \in Seq(Sent)
      /\ awaiting # {} => Asked /\ awaiting = Responses[place]
      /\ ~Lacks(ticks, {"ask"}) => Asked
      /\ destroyed => ~socketOpen
      /\ Asked => place \in {"start", "tune", "open"} /\ answer = None
  BY DEF Handshake, Welcomed, TimersEnd, Asked, NoAsk, Lacks
<1>j. {"ask", "ended", "drop"} \subseteq Jobs
  BY DEF Jobs
<1>1. CASE AskTick
  <2>1. /\ ticks # <<>> /\ Head(ticks) = "ask" /\ ticks' = Tail(ticks)
        /\ awaiting' = Responses[place] /\ Write(Request[place])
        /\ UNCHANGED <<place, answer, destroyed, socketOpen, closing, server, toClient>>
    BY <1>1 DEF AskTick, Tick, RunTick
  <2>2. place \in {"start", "tune", "open"} /\ answer = None
    <3>1. ~Lacks(ticks, {"ask"})
      BY <2>1, <1>0, WithoutFirst
    <3> QED
      BY <3>1, <1>0
  <2>3. awaiting' # {} /\ Request[place] \in Sent
    BY <2>1, <2>2, CallsAre
  <2>4. CASE destroyed
    BY <2>1, <2>2, <2>3, <2>4, CallsAre DEF OpenUnderWay, Stranded, CloseComing
  <2>5. CASE ~destroyed
    <3>1. socketOpen /\ Alive => ~Lacks(toServer', {Request[place]})
      BY <2>1, <2>3, <1>0, AddedWaits DEF Write
    <3>2. socketOpen => Attended'
      BY <3>1, <2>1 DEF Attended, Alive
    <3>3. OpenUnderWay'
      BY <3>2, <2>1, <2>3, <2>5 DEF OpenUnderWay
    <3>4. ~Lacks(ticks, {"close"}) => ~Lacks(ticks', {"close"})
      BY <2>1, <1>0, StillWaiting
    <3> QED
      BY <3>3, <3>4, <2>1 DEF CloseComing
  <2> QED
    BY <2>4, <2>5
<1>2. CASE DropTick
  <2>1. /\ ticks # <<>> /\ Head(ticks) = "drop" /\ ticks' = Tail(ticks)
        /\ UNCHANGED <<place, answer, awaiting, destroyed, socketOpen, closing, server, toClient, toServer>>
    BY <1>2 DEF DropTick, Tick, RunTick
  <2>2. \A A : "drop" \notin A /\ ~Lacks(ticks, A) => ~Lacks(ticks', A)
    BY <2>1, <1>0, StillWaiting
  <2>3. awaiting # {} /\ Attended => Attended'
    <3>1. awaiting # {} => "drop" \notin Responses[place]
      BY <1>0, CallsAre DEF Messages
    <3> QED
      BY <2>1, <2>2, <3>1 DEF Attended, Alive
  <2> QED
    BY <2>1, <2>2, <2>3, StillUnderWay DEF CloseComing
<1>3. CASE MethodTick
  <2> DEFINE m == Head(ticks)
             rest == Tail(ticks)
  <2>1. /\ ticks # <<>> /\ m \notin {"ask", "ended", "drop"}
        /\ UNCHANGED <<place, server, toClient>>
    BY <1>3 DEF MethodTick, Tick, RunTick
  <2>2. m \in Messages /\ rest \in Seq(Jobs)
    BY <2>1, <1>0, FirstGone DEF Jobs
  <2>3. \A A : m \notin A /\ ~Lacks(ticks, A) => ~Lacks(rest, A)
    BY <2>1, <1>0, StillWaiting
  <2>4. \/ destroyed /\ NoDestroy /\ ticks' = rest /\ closing' = closing
        \/ ~destroyed /\ m \in awaiting /\ answer' = m /\ ticks' = rest /\ UNCHANGED <<destroyed, closing>>
        \/ ~destroyed /\ m = "close" /\ closing' = TRUE /\ ticks' = rest /\ Write("close_ok") /\ NoDestroy
        \/ ~destroyed /\ m = "update_secret" /\ Destroy("update_secret", rest)
    BY <1>3 DEF MethodTick
  <2> HIDE DEF m, rest
  <2>5. CASE destroyed /\ NoDestroy /\ ticks' = rest /\ closing' = closing
    BY <2>1, <2>3, <2>5, StillUnderWay DEF NoDestroy, CloseComing
  <2>6. CASE ~destroyed /\ m \in awaiting /\ answer' = m /\ ticks' = rest /\ UNCHANGED <<destroyed, closing>>
    <3>1. m # None /\ m # "close"
      BY <2>2, <2>6, <1>0, CallsAre DEF Messages, None, OutOfTurn
    <3>2. OpenUnderWay'
      BY <2>6, <3>1 DEF OpenUnderWay
    <3>3. socketOpen' = socketOpen
      BY <1>3, <2>1, <2>6, <1>0 DEF MethodTick, m, Destroy, NoDestroy
    <3>4. CloseComing'
      BY <2>1, <2>3, <2>6, <3>1, <3>3 DEF CloseComing
    <3> QED
      BY <3>2, <3>4
  <2>7. CASE ~destroyed /\ m = "close" /\ closing' = TRUE /\ ticks' = rest /\ Write("close_ok") /\ NoDestroy
    <3>1. UNCHANGED <<awaiting, answer, destroyed, socketOpen>>
      BY <2>7 DEF NoDestroy
    <3>2. \A A : ~Lacks(toServer, A) => ~Lacks(toServer', A)
      BY <2>7, <1>0, StillWaiting DEF Write, Sent
    <3>3. awaiting # {} /\ Attended => Attended'
      <4>1. awaiting # {} => m \notin Responses[place]
        BY <2>7, <1>0, CallsAre DEF OutOfTurn
      <4> QED
        BY <2>1, <2>3, <2>7, <3>2, <4>1 DEF Attended, Alive
    <3>4. OpenUnderWay'
      BY <2>1, <2>3, <2>7, <3>1, <3>3, StillUnderWay
    <3> QED
      BY <2>7, <3>4 DEF CloseComing
  <2>8. CASE ~destroyed /\ m = "update_secret" /\ Destroy("update_secret", rest)
    <3>1. ticks' = rest \/ ticks' = Append(rest, "drop")
      BY <2>8 DEF Destroy, DestroyOnce
    <3>2. ~Lacks(ticks, {"ask"}) => ~Lacks(ticks', {"ask"})
      BY <2>2, <2>3, <2>8, <3>1, <1>j, StillWaiting
    <3> QED
      BY <2>1, <2>8, <3>2, DestroyedUnderWay
  <2> QED
    BY <2>4, <2>5, <2>6, <2>7, <2>8
<1>4. CASE EndedTick
  <2>1. /\ ticks # <<>> /\ Head(ticks) = "ended" /\ UNCHANGED <<place, server, toClient, toServer, closing>>
        /\ \/ destroyed /\ NoDestroy /\ ticks' = Tail(ticks)
           \/ Destroy(cause, Tail(ticks))
    BY <1>4 DEF EndedTick, Tick, RunTick, NoWrite
  <2>2. Tail(ticks) \in Seq(Jobs) /\ \A A : "ended" \notin A /\ ~Lacks(ticks, A) => ~Lacks(Tail(ticks), A)
    BY <2>1, <1>0, StillWaiting, FirstGone
  <2>3. CASE destroyed /\ NoDestroy /\ ticks' = Tail(ticks)
    BY <2>1, <2>2, <2>3, StillUnderWay DEF NoDestroy, CloseComing
  <2>4. CASE Destroy(cause, Tail(ticks))
    <3>1. ticks' = Tail(ticks) \/ ticks' = Append(Tail(ticks), "drop")
      BY <2>4 DEF Destroy, DestroyOnce
    <3>2. ~Lacks(ticks, {"ask"}) => ~Lacks(ticks', {"ask"})
      BY <2>2, <3>1, <1>j, StillWaiting
    <3> QED
      BY <2>1, <2>4, <3>2, DestroyedUnderWay
  <2> QED
    BY <2>1, <2>3, <2>4
<1>5. CASE ContinueClose \/ CheckHeartbeat
  <2>1. place' = place /\ UNCHANGED <<server, toClient, toServer>>
    BY <1>5 DEF ContinueClose, CheckHeartbeat, NoWrite
  <2>2. ASSUME NEW why, Destroy(why, ticks) PROVE OpenUnderWay' /\ CloseComing'
    <3>1. ticks' = ticks \/ ticks' = Append(ticks, "drop")
      BY <2>2 DEF Destroy, DestroyOnce
    <3>2. ~Lacks(ticks, {"ask"}) => ~Lacks(ticks', {"ask"})
      BY <3>1, <1>0, <1>j, StillWaiting
    <3> QED
      BY <2>1, <2>2, <3>2, DestroyedUnderWay
  <2>3. CASE UNCHANGED <<awaiting, answer, destroyed, socketOpen, ticks, closing>>
    BY <2>1, <2>3, StillUnderWay DEF Attended, Alive, CloseComing
  <2> QED
    BY <1>5, <2>2, <2>3 DEF ContinueClose, CheckHeartbeat
<1>6. CASE Failing
  <2>1. place' = "failed" /\ UNCHANGED <<server, toClient, closing>>
        /\ (UNCHANGED <<destroyed, socketOpen, ticks>> \/ destroyed' = TRUE)
    BY <1>6 DEF Failing, Fail, DestroyOnce
  <2> QED
    BY <2>1 DEF OpenUnderWay, CloseComing
<1>7. CASE Started \/ Told
  <2>1. ticks' = Append(ticks, "ask") /\ UNCHANGED <<server, toClient, closing, destroyed, socketOpen>>
    BY <1>7 DEF Started, Told, Ask
  <2>2. ~Lacks(ticks', {"ask"}) /\ (~Lacks(ticks, {"close"}) => ~Lacks(ticks', {"close"}))
    BY <2>1, <1>0, <1>j, AddedWaits, StillWaiting
  <2> QED
    BY <2>1, <2>2 DEF OpenUnderWay, CloseComing
<1>8. CASE Tuned \/ Flushed
  <2>1. /\ place' = "told" /\ UNCHANGED <<ticks, server, toClient, closing, destroyed, socketOpen>>
        /\ answer' = "written" \/ socketOpen
    BY <1>8 DEF Tuned, Flushed
  <2>2. "written" # None
    BY DEF None
  <2> QED
    BY <2>1, <2>2, <1>0 DEF OpenUnderWay, CloseComing
<1>9. CASE Opened
  <2>1. place' = "opened" /\ UNCHANGED <<ticks, server, toClient, closing, destroyed, socketOpen>>
    BY <1>9 DEF Opened
  <2> QED
    BY <2>1 DEF OpenUnderWay, CloseComing
<1>10. CASE SendHeartbeat
  <2>1. /\ UNCHANGED <<place, awaiting, answer, destroyed, socketOpen, ticks, server, toClient, closing>>
        /\ Write("heartbeat") \/ NoWrite
    BY <1>10 DEF SendHeartbeat
  <2>2. \A A : ~Lacks(toServer, A) => ~Lacks(toServer', A)
    BY <2>1, <1>0, StillWaiting DEF Write, NoWrite, Sent
  <2> QED
    BY <2>1, <2>2, StillUnderWay DEF Attended, Alive, CloseComing
<1>11. CASE SocketTimeout \/ GiveUp
  <2>1. socketOpen' = FALSE /\ ticks' = Append(ticks, "ended") /\ UNCHANGED <<place, awaiting, answer, destroyed>>
    BY <1>11 DEF SocketTimeout, GiveUp, SocketEnds
  <2>2. ~Lacks(ticks, {"ask"}) => ~Lacks(ticks', {"ask"})
    BY <2>1, <1>0, <1>j, StillWaiting
  <2> QED
    BY <2>1, <2>2, StillUnderWay DEF CloseComing
<1>12. CASE Serve
  <2> DEFINE m == Head(toServer)
  <2>1. /\ toServer # <<>> /\ Alive /\ toServer' = Tail(toServer) /\ server' \in {"open", server}
        /\ IF m \in DOMAIN Answers THEN \E a \in Answers[m] : toClient' = Append(toClient, a)
           ELSE toClient' = toClient
        /\ UNCHANGED <<place, awaiting, answer, destroyed, socketOpen, ticks, closing>>
    BY <1>12 DEF Serve, ClientRuns, loop
  <2>2. \A k \in DOMAIN Answers : Answers[k] \subseteq Messages
    BY DEF Answers, Messages
  <2>3. \A A : ~Lacks(toClient, A) => ~Lacks(toClient', A)
    BY <2>1, <2>2, <1>0, StillWaiting
  <2>4. \A A : m \notin A /\ ~Lacks(toServer, A) => ~Lacks(toServer', A)
    BY <2>1, <1>0, StillWaiting
  <2>5. ASSUME awaiting # {}, Attended PROVE Attended'
    <3>1. place \in {"start", "tune", "open"} /\ place' = place
      BY <2>1, <2>5, <1>0
    <3>2. CASE m = Request[place]
      <4>1. PICK a \in Answers[m] : toClient' = Append(toClient, a)
        BY <2>1, <3>1, <3>2, CallsAre
      <4>2. a \in Messages /\ a \in Responses[place]
        BY <4>1, <3>1, <3>2, <2>2, CallsAre
      <4>3. ~Lacks(toClient', Responses[place])
        BY <4>1, <4>2, <1>0, AddedWaits
      <4> QED
        BY <4>3, <3>1 DEF Attended
    <3>3. CASE m # Request[place]
      BY <2>1, <2>3, <2>4, <2>5, <3>1, <3>3 DEF Attended
    <3> QED
      BY <3>2, <3>3
  <2>6. OpenUnderWay'
    BY <2>1, <2>5, StillUnderWay
  <2>7. server' # "closed"
    BY <2>1 DEF Alive
  <2> QED
    BY <2>6, <2>7 DEF CloseComing
<1>13. CASE Interrupt
  <2>1. UNCHANGED <<place, awaiting, answer, destroyed, socketOpen, ticks, closing>>
    BY <1>13 DEF Interrupt, ClientRuns, loop
  <2>2. PICK m \in {"close", "update_secret"} :
          /\ toClient' = Append(toClient, m)
          /\ server' = IF m = "close" THEN "closed" ELSE server
          /\ toServer' = IF m = "close" THEN <<>> ELSE toServer
    BY <1>13 DEF Interrupt
  <2>3. m \in Messages
    BY DEF Messages
  <2>4. \A A : ~Lacks(toClient, A) => ~Lacks(toClient', A)
    BY <2>2, <2>3, <1>0, StillWaiting
  <2>5. Attended => Attended'
    BY <2>1, <2>2, <2>4 DEF Attended, Alive
  <2>6. m = "close" => ~Lacks(toClient', {"close"})
    BY <2>2, <2>3, <1>0, AddedWaits
  <2>7. OpenUnderWay'
    BY <2>1, <2>5, StillUnderWay
  <2> QED
    BY <2>1, <2>2, <2>4, <2>6, <2>7 DEF CloseComing
<1>14. CASE Stop
  <2>1. server' = "stopped" /\ UNCHANGED <<place, awaiting, answer, destroyed, socketOpen, ticks, closing>>
    BY <1>14 DEF Stop, ClientRuns, loop
  <2> QED
    BY <2>1, StillUnderWay DEF Attended, Alive, CloseComing
<1>15. CASE Deliver
  <2>1. PICK n \in 1..Least2(2, Len(toClient)) :
          /\ Turn
          /\ ticks' = SubSeq(toClient, 1, n)
          /\ toClient' = SubSeq(toClient, n + 1, Len(toClient))
          /\ UNCHANGED <<place, awaiting, answer, destroyed, socketOpen, server, toServer, closing>>
    BY <1>15 DEF Deliver
  <2>2. n \in 1..Len(toClient)
    BY <1>0 DEF Least2
  <2>3. ticks = <<>>
    BY <2>1 DEF Turn, BeginTurn, Quiet
  <2>4. \A A : Lacks(ticks, A)
    BY <2>3, NoneWaiting
  <2>5. \A A : ~Lacks(toClient, A) => ~Lacks(ticks', A) \/ ~Lacks(toClient', A)
    BY <2>1, <2>2, <1>0, InOnePiece
  <2>6. Attended => Attended'
    BY <2>1, <2>4, <2>5 DEF Attended, Alive
  <2>7. OpenUnderWay'
    BY <2>1, <2>4, <2>6, StillUnderWay
  <2> QED
    BY <2>1, <2>4, <2>5, <2>7 DEF CloseComing
<1>16. CASE Beat \/ Pass \/ UNCHANGED vars
  <2>1. UNCHANGED <<place, awaiting, answer, destroyed, socketOpen, ticks, server, toServer, toClient, closing>>
    BY <1>16 DEF Beat, Pass, vars, loop
  <2> QED
    BY <2>1, StillUnderWay DEF Attended, Alive, CloseComing
<1> QED
  BY <1>1, <1>2, <1>3, <1>4, <1>5, <1>6, <1>7, <1>8, <1>9, <1>10, <1>11, <1>12, <1>13, <1>14,
     <1>15, <1>16 DEF Next, Client, Environment

\* For any users, servers and times: open() is never forgotten. Until it has ended, what takes it
\* further is on its way, or the server is silent, or it is stranded; a close of the server is
\* never lost while the connection lives, and the end of a socket is handled next.
THEOREM OpenNeverForgotten == Spec => [](OpenUnderWay /\ CloseComing /\ EndComing)
<1>1. Init => OpenUnderWay /\ CloseComing
  <2> SUFFICES ASSUME Init PROVE OpenUnderWay /\ CloseComing
    OBVIOUS
  <2>1. ticks = <<"ask">> /\ server = "header"
    BY DEF Init
  <2>2. Len(ticks) = 1 /\ ticks[1] = "ask"
    BY <2>1
  <2> QED
    BY <2>1, <2>2 DEF OpenUnderWay, CloseComing, Lacks
<1>2. EndedAlone => EndComing
  BY DEF EndedAlone, EndComing
<1> QED
  BY <1>1, <1>2, UnderWayKept, HandshakeAlways, TimersEndWithConnection, EndingAlways, ClocksAlways,
     PTL DEF Spec
=============================================================================
