------------------------------ MODULE Session ------------------------------
(***************************************************************************)
(* The life of a connection between Client._connect and its end: the       *)
(* handshake of Connection.open, the limits it settles, the two heartbeat  *)
(* timers and the timeout of the socket (src/lib/channel.ts,               *)
(* src/lib/client.ts), against a server that may refuse, break off, close  *)
(* at any moment or fall silent.                                           *)
(*                                                                         *)
(* Time is counted in units of which SECOND make a second.  The network    *)
(* takes no time, but a heartbeat of the server may come a margin late.    *)
(***************************************************************************)
EXTENDS EventLoop, Integers, FiniteSets

CONSTANTS
    Options,      \* what a user may ask for: channel_max, frame_max, heartbeat, timeout
    Tunes,        \* what a server may propose: channel_max, frame_max, heartbeat
    SECOND, HB_MOF_DENOMINATOR, HB_MOF_MIN, HB_MOF_MAX   \* DATE_CONST

ASSUME SessionAssumption ==
    /\ \A o \in Options : o \in [channel_max : Nat, frame_max : Nat, heartbeat : Nat, timeout : Nat]
    /\ \A t \in Tunes : t \in [channel_max : Nat, frame_max : Nat, heartbeat : Nat]
    /\ SECOND \in Nat \ {0} /\ HB_MOF_DENOMINATOR \in Nat \ {0}
    /\ HB_MOF_MIN \in 1..SECOND /\ HB_MOF_MAX \in Nat \ {0}

VARIABLES
    user,       \* the options of the client, which are frozen
    options,    \* Connection.options, a copy
    tune,       \* what the server proposes
    tune_ok,    \* what the client answers
    place,      \* where open() stands, and how it ended
    awaiting,   \* the responses that are registered in request_callbacks
    answer,     \* what the await of open() has been answered with
    closing,    \* the handler of connection_close has yet to continue
    destroyed, opened, socketOpen,
    send, check,   \* units until the timers fire; Off when they are not set
    idle,       \* units since the socket was read or written
    age,        \* units since the last input: Date.now() - this.heartbeat
    server,     \* where the server stands
    silence,    \* units since the server heard of the client
    extra,      \* the server may still send a message out of turn
    toServer, toClient,
    cause,      \* what destroyed the connection; "late": open() went on after that
    dropping,   \* the close of destroy() waits for its answer
    crashed     \* fatal: process.exit

settled == <<options, tune_ok>>
timers == <<send, check, idle, age, silence>>
loop == <<ticks, draining>>
ending == <<cause, dropping, crashed>>
vars == <<user, tune, settled, place, awaiting, answer, closing, destroyed, opened,
          socketOpen, timers, server, extra, toServer, toClient, ending, loop>>

Off == -1
None == "none"
Unsettled == [channel_max |-> 0, frame_max |-> 0, heartbeat |-> 0]

Init ==
    /\ user \in Options /\ options = user
    /\ tune \in Tunes /\ tune_ok = Unsettled
    /\ place = "start" /\ awaiting = {} /\ answer = None /\ closing = FALSE
    /\ destroyed = FALSE /\ opened = FALSE /\ socketOpen = TRUE
    /\ send = Off /\ check = Off /\ idle = 0 /\ age = 0 /\ silence = 0
    /\ server = "header" /\ extra = TRUE
    /\ toServer = <<>> /\ toClient = <<>>
    /\ cause = None /\ dropping = FALSE /\ crashed = FALSE
    /\ ticks = <<"ask">> /\ draining = FALSE

-----------------------------------------------------------------------------
(* open() waits for the answer to what it asks.                            *)

Request == [start |-> "header", tune |-> "start_ok", open |-> "open"]
Responses ==
    [start |-> {"start", "start_old", "start_other"}, tune |-> {"secure", "tune"}, open |-> {"open_ok"}]

Continuations == answer # None \/ closing

Turn      == ~crashed /\ BeginTurn(Continuations)
Tick(job) == ~crashed /\ RunTick(job, Continuations)

Alive == server \notin {"stopped", "closed"}

\* what a server that is gone is sent is lost
Write(m) ==
    /\ toServer' = IF socketOpen /\ Alive THEN Append(toServer, m) ELSE toServer
    /\ idle' = IF socketOpen THEN 0 ELSE idle

NoWrite == UNCHANGED <<toServer, idle>>

\* call_api schedules the registration of the callback and the request
Ask(next) ==
    /\ place' = next
    /\ ticks' = Append(ticks, "ask")

AskTick ==
    /\ Tick("ask")
    /\ ticks' = Tail(ticks)
    /\ awaiting' = Responses[place]
    /\ Write(Request[place])
    /\ UNCHANGED <<user, tune, settled, place, answer, closing, destroyed, opened, socketOpen,
                   send, check, age, silence, server, extra, toClient, ending>>

\* mutant: the interval of the check runs on
DestroyOnceUnclear(why, rest) ==
    /\ send' = Off /\ check' = check
    /\ awaiting' = {}
    /\ destroyed' = TRUE /\ socketOpen' = FALSE
    /\ cause' = IF destroyed THEN cause ELSE why
    /\ ticks' = IF socketOpen /\ ~destroyed THEN Append(rest, "drop") ELSE rest
    /\ dropping' = FALSE
    /\ crashed' = dropping

\* the part of destroy that open() does not wait for: the timers are cleared, a close is made
\* that nothing can answer; that of an earlier destroy is rejected, which is fatal
DestroyOnce(why, rest) ==
    /\ send' = Off /\ check' = Off
    /\ awaiting' = {}
    /\ destroyed' = TRUE /\ socketOpen' = FALSE
    /\ cause' = IF destroyed THEN cause ELSE why
    /\ ticks' = IF socketOpen /\ ~destroyed THEN Append(rest, "drop") ELSE rest
    /\ dropping' = FALSE
    /\ crashed' = dropping

\* mutant: the calls that are registered are forgotten
DestroyForgetsCalls(why, rest) ==
    /\ DestroyOnce(why, rest)
    /\ answer' = IF place = "told" /\ answer = None THEN "rejected" ELSE answer

\* destroy: the calls that are registered are rejected, and a write that is waited for fails
Destroy(why, rest) ==
    /\ DestroyOnce(why, rest)
    /\ answer' = IF awaiting # {} \/ (place = "told" /\ answer = None) THEN "rejected" ELSE answer

NoDestroy == UNCHANGED <<send, check, awaiting, answer, destroyed, socketOpen, ending>>

\* the close of destroy is registered; the socket is destroyed by now
DropTick ==
    /\ Tick("drop")
    /\ ticks' = Tail(ticks)
    /\ dropping' = TRUE
    /\ UNCHANGED <<user, tune, settled, place, awaiting, answer, closing, destroyed, opened,
                   socketOpen, timers, server, extra, toServer, toClient, cause, crashed>>

-----------------------------------------------------------------------------
(* The handlers of methods.                                                *)

MethodTick ==
    LET m == Head(ticks)
    IN /\ Tick(m) /\ m \notin {"ask", "ended", "drop"}
       /\ IF destroyed THEN NoDestroy /\ ticks' = Tail(ticks) /\ UNCHANGED closing /\ NoWrite
          ELSE IF m \in awaiting
          THEN /\ answer' = m /\ awaiting' = {} /\ ticks' = Tail(ticks)
               /\ UNCHANGED <<send, check, destroyed, socketOpen, ending, closing>> /\ NoWrite
          ELSE IF m = "close"
          THEN closing' = TRUE /\ ticks' = Tail(ticks) /\ Write("close_ok") /\ NoDestroy
          ELSE /\ m = "update_secret"
               /\ Destroy("update_secret", Tail(ticks)) /\ UNCHANGED closing /\ NoWrite
       /\ UNCHANGED <<user, tune, settled, place, opened, age, silence, server, extra, toClient>>

\* the handler of connection_close goes on after its answer was written
ContinueClose ==
    /\ closing /\ ~crashed /\ RunContinuation
    /\ closing' = FALSE
    /\ Destroy("close", ticks) /\ NoWrite
    /\ UNCHANGED <<user, tune, settled, place, opened, age, silence, server, extra, toClient>>

\* the pipeline from the socket to the decoder has ended
EndedTick ==
    /\ Tick("ended")
    /\ IF destroyed THEN NoDestroy /\ ticks' = Tail(ticks) ELSE Destroy(cause, Tail(ticks))
    /\ NoWrite
    /\ UNCHANGED <<user, tune, settled, place, closing, opened, age, silence, server, extra, toClient>>

-----------------------------------------------------------------------------
(* The continuations of open().                                            *)

Continue(m) == ~crashed /\ answer = m /\ RunContinuation /\ answer' = None

\* open() throws; Client._connect destroys the connection, if that is not done, and throws on
Fail ==
    /\ place' = "failed"
    /\ IF destroyed THEN UNCHANGED <<send, check, awaiting, destroyed, socketOpen, ending, ticks>>
       ELSE DestroyOnce("open", ticks)

Failing ==
    /\ \/ Continue("rejected")
       \/ Continue("start_old")
       \/ Continue("start_other")
       \/ Continue("secure")
       \/ Continue("tune") /\ tune.channel_max = 0
    /\ Fail /\ NoWrite
    /\ UNCHANGED <<user, tune, settled, closing, opened, age, silence, server, extra, toClient>>

Started ==
    /\ Continue("start")
    /\ Ask("tune") /\ NoWrite
    /\ UNCHANGED <<user, tune, settled, awaiting, closing, destroyed, opened, socketOpen,
                   send, check, age, silence, server, extra, toClient, ending>>

\* the smaller of two limits, where the one that the user did not set does not count
Least(asked, offered) == IF asked # 0 /\ asked < offered THEN asked ELSE offered

\* mutant: the limit of the server stays out of the options
SettledByUser(limits) == options

\* the limits that the connection goes by; the one that is offered replaces a larger one
Settled(limits) ==
    [options EXCEPT !.channel_max = limits.channel_max, !.frame_max = limits.frame_max]

\* notnull of tune_ok refuses a server without a limit of channels (see Failing)
Tuned ==
    LET limits == [channel_max |-> Least(options.channel_max, tune.channel_max),
                   frame_max   |-> Least(options.frame_max, tune.frame_max),
                   heartbeat   |-> options.heartbeat]
    IN /\ ~crashed /\ answer = "tune" /\ tune.channel_max # 0 /\ RunContinuation
       /\ tune_ok' = limits
       /\ options' = Settled(limits)
       /\ Write("tune_ok")
       /\ place' = "told"
       /\ answer' = IF socketOpen THEN None ELSE "written"
       /\ UNCHANGED <<user, tune, awaiting, closing, destroyed, opened, socketOpen,
                      send, check, age, silence, server, extra, toClient, ending, ticks>>

\* the callback of the write of tune_ok
Flushed ==
    /\ place = "told" /\ answer = None /\ socketOpen /\ Turn
    /\ answer' = "written"
    /\ UNCHANGED <<user, tune, settled, place, awaiting, closing, destroyed, opened, socketOpen,
                   timers, server, extra, toServer, toClient, ending, ticks>>

Told ==
    /\ Continue("written")
    /\ Ask("open") /\ NoWrite
    /\ UNCHANGED <<user, tune, settled, awaiting, closing, destroyed, opened, socketOpen,
                   send, check, age, silence, server, extra, toClient, ending>>

\* mutant: the server is checked when it asked for heartbeats
StartCheckWhenOffered == IF tune.heartbeat # 0 THEN HB_MOF_MAX ELSE Off

\* start_send_heartbeat goes by the interval of the server, start_check_heartbeat by its own
StartSend  == IF tune.heartbeat # 0 THEN tune.heartbeat * SECOND ELSE Off
StartCheck == IF options.heartbeat # 0 THEN HB_MOF_MAX ELSE Off

\* nothing asks whether the connection is destroyed by now
Opened ==
    /\ Continue("open_ok")
    /\ send' = StartSend /\ check' = StartCheck
    /\ opened' = TRUE /\ place' = "opened"
    /\ cause' = IF destroyed THEN "late" ELSE cause
    /\ NoWrite
    /\ UNCHANGED <<user, tune, settled, awaiting, closing, destroyed, socketOpen, age, silence,
                   server, extra, toClient, dropping, crashed, ticks>>

-----------------------------------------------------------------------------
(* Timers.                                                                 *)

Least2(a, b)  == IF a < b THEN a ELSE b
Greatest(a, b) == IF a > b THEN a ELSE b
Margin(hb) == Least2(Greatest(hb \div HB_MOF_DENOMINATOR, HB_MOF_MIN), HB_MOF_MAX)

\* mutant: the next heartbeat a margin after it is due
NextSendLate == tune.heartbeat * SECOND + Margin(tune.heartbeat * SECOND)

\* the next heartbeat goes out a margin before it is due
NextSend == tune.heartbeat * SECOND - Margin(tune.heartbeat * SECOND)

SendHeartbeat ==
    /\ send = 0 /\ Turn
    /\ IF destroyed THEN send' = Off /\ NoWrite
       ELSE /\ send' = NextSend
            /\ Write("heartbeat")
    /\ UNCHANGED <<user, tune, settled, place, awaiting, answer, closing, destroyed, opened, socketOpen,
                   check, age, silence, server, extra, toClient, ending, ticks>>

\* mutant: no margin for a heartbeat that is late
ExpiredAtOnce == age >= options.heartbeat * SECOND

Expired == age > options.heartbeat * SECOND + Margin(options.heartbeat * SECOND)

CheckHeartbeat ==
    /\ check = 0 /\ Turn
    /\ IF Expired THEN Destroy("heartbeat", ticks)
       ELSE check' = HB_MOF_MAX /\ UNCHANGED <<send, awaiting, answer, destroyed, socketOpen, ending, ticks>>
    /\ NoWrite
    /\ UNCHANGED <<user, tune, settled, place, closing, opened, age, silence, server, extra, toClient>>

\* socket.setTimeout of _connect: the socket is destroyed when nothing passed it for so long
TimedOut == user.timeout # 0 /\ idle >= user.timeout

\* the end of the socket reaches the pipeline, whose callback destroys the connection
SocketEnds(why) ==
    /\ socketOpen' = FALSE
    /\ cause' = why
    /\ ticks' = Append(ticks, "ended")
    /\ UNCHANGED <<user, tune, settled, place, awaiting, answer, closing, destroyed, opened,
                   timers, server, extra, toServer, toClient, dropping, crashed>>

SocketTimeout == TimedOut /\ socketOpen /\ Turn /\ SocketEnds("timeout")

-----------------------------------------------------------------------------
(* The server: what the client may meet.                                   *)

Answers ==
    [header |-> {"start", "start_old", "start_other"}, start_ok |-> {"secure", "tune"},
     open |-> {"open_ok"}]

ClientRuns == UNCHANGED <<user, tune, settled, place, awaiting, answer, closing, destroyed, opened,
                          socketOpen, send, check, idle, age, ending, loop>>

\* it takes what the client sends and answers a request
Serve ==
    LET m == Head(toServer)
    IN /\ toServer # <<>> /\ Alive /\ ~crashed
       /\ toServer' = Tail(toServer)
       /\ silence' = 0
       /\ IF m \in DOMAIN Answers
          THEN \E a \in Answers[m] : toClient' = Append(toClient, a)
          ELSE UNCHANGED toClient
       /\ server' = IF m = "open" THEN "open" ELSE server
       /\ UNCHANGED extra /\ ClientRuns

\* out of turn: it closes the connection or wants to renew a secret
Interrupt ==
    /\ extra /\ Alive /\ ~crashed
    /\ extra' = FALSE
    /\ \E m \in {"close", "update_secret"} :
         /\ toClient' = Append(toClient, m)
         /\ server' = IF m = "close" THEN "closed" ELSE server
         /\ toServer' = IF m = "close" THEN <<>> ELSE toServer
    /\ UNCHANGED silence /\ ClientRuns

Stop ==
    /\ Alive /\ ~crashed
    /\ server' = "stopped" /\ toServer' = <<>>
    /\ UNCHANGED <<extra, toClient, silence>> /\ ClientRuns

\* a piece of the stream: one message or two
Deliver ==
    \E n \in 1..Least2(2, Len(toClient)) :
      /\ socketOpen /\ Turn
      /\ ticks' = SubSeq(toClient, 1, n)
      /\ toClient' = SubSeq(toClient, n + 1, Len(toClient))
      /\ age' = 0 /\ idle' = 0
      /\ UNCHANGED <<user, tune, settled, place, awaiting, answer, closing, destroyed, opened,
                     socketOpen, send, check, silence, server, extra, toServer, ending>>

Agreed == tune_ok.heartbeat * SECOND

\* a heartbeat of the server, a margin early or late
Beat ==
    /\ server = "open" /\ Agreed # 0 /\ socketOpen /\ Turn
    /\ age >= Agreed - Margin(Agreed)
    /\ age' = 0 /\ idle' = 0
    /\ UNCHANGED <<user, tune, settled, place, awaiting, answer, closing, destroyed, opened,
                   socketOpen, send, check, silence, server, extra, toServer, toClient, ending, ticks>>

\* it gives up a client that it has not heard for two intervals
GivesUp == server = "open" /\ Agreed # 0 /\ silence > 2 * Agreed + Margin(Agreed)

GiveUp == GivesUp /\ socketOpen /\ Turn /\ SocketEnds("silence")

-----------------------------------------------------------------------------
\* time stands still while anything is to be done
Busy ==
    \/ ~ Quiet(Continuations)
    \/ socketOpen /\ (toClient # <<>> \/ TimedOut \/ GivesUp \/ place = "told")
    \/ Alive /\ toServer # <<>>
    \/ send = 0 \/ check = 0
    \/ server = "open" /\ Agreed # 0 /\ socketOpen /\ age >= Agreed + Margin(Agreed)

Running == socketOpen \/ send # Off \/ check # Off

\* a bound on the clocks, beyond every limit that they are compared with
Longest == 2 * user.heartbeat * SECOND + user.timeout + 3 * HB_MOF_MAX

Later(t)    == Least2(t + 1, Longest)
Earlier(t)  == IF t = Off THEN Off ELSE t - 1

Pass ==
    /\ ~ Busy /\ Running /\ ~crashed
    /\ send' = Earlier(send) /\ check' = Earlier(check)
    /\ idle' = Later(idle) /\ age' = Later(age) /\ silence' = Later(silence)
    /\ UNCHANGED <<user, tune, settled, place, awaiting, answer, closing, destroyed, opened, socketOpen,
                   server, extra, toServer, toClient, ending, loop>>

Client == \/ AskTick \/ MethodTick \/ EndedTick \/ DropTick
          \/ Failing \/ Started \/ Tuned \/ Flushed \/ Told \/ Opened \/ ContinueClose
          \/ SendHeartbeat \/ CheckHeartbeat \/ SocketTimeout

Environment == Serve \/ Interrupt \/ Stop \/ Deliver \/ Beat \/ GiveUp

Next == Client \/ Environment \/ Pass

Spec == Init /\ [][Next]_vars

\* the event loop runs, what arrived is read, at the server as long as it lives, and time passes
FairSpec == Spec /\ WF_vars(Client) /\ WF_vars(Deliver) /\ WF_vars(Serve) /\ WF_vars(Pass)

-----------------------------------------------------------------------------
(* Properties.                                                             *)

Clock == 0..Longest

\* every variable has its type
TypeOK ==
    /\ options \in [channel_max : Nat, frame_max : Nat, heartbeat : Nat, timeout : Nat]
    /\ tune_ok \in [channel_max : Nat, frame_max : Nat, heartbeat : Nat]
    /\ place \in {"start", "tune", "told", "open", "opened", "failed"}
    /\ {destroyed, opened, socketOpen, closing, extra, dropping, crashed} \subseteq BOOLEAN
    /\ send \in {Off} \cup 0..(tune.heartbeat * SECOND) /\ check \in {Off} \cup 0..HB_MOF_MAX
    /\ idle \in Clock /\ age \in Clock /\ silence \in Clock
    /\ server \in {"header", "open", "stopped", "closed"}
    /\ cause \in { None, "open", "close", "update_secret", "heartbeat", "timeout", "silence", "late" }

\* an open connection goes by the limits that it told the server: no more than the server offers
\* and no more than the user asked for, unless the server does not limit the size of a frame
LimitsAgree ==
    opened =>
        /\ options.channel_max = tune_ok.channel_max /\ options.frame_max = tune_ok.frame_max
        /\ 0 < options.channel_max /\ options.channel_max <= tune.channel_max
        /\ options.frame_max <= tune.frame_max
        /\ user.channel_max # 0 => options.channel_max <= user.channel_max
        /\ user.frame_max # 0 => options.frame_max <= user.frame_max

\* the interval of the server is no use for the interval that was agreed on
Mismatched == Agreed # 0 /\ (tune.heartbeat = 0 \/ tune.heartbeat > 2 * user.heartbeat)

\* nothing need pass the socket for as long as the timeout of the socket
Quieter ==
    /\ tune.heartbeat = 0 \/ tune.heartbeat * SECOND >= user.timeout
    /\ Agreed = 0 \/ Agreed + Margin(Agreed) >= user.timeout

\* two ends that are alive do not take each other for dead: not the client the server, although
\* its heartbeats come late; the server the client only when they follow different intervals;
\* the timeout of the socket ends an open connection only when heartbeats do not keep it busy
LivingStay ==
    server = "open" /\ opened =>
        /\ cause # "heartbeat"
        /\ cause = "silence" => Mismatched
        /\ cause = "timeout" => Quieter

\* a connection that was destroyed has no timers and is not destroyed again, which would end the
\* process; but for one whose open() went on after it was destroyed
EndIsQuiet ==
    destroyed /\ cause # "late" => send = Off /\ check = Off /\ ~crashed

\* a silent server is found out: by the check of an open connection within an interval, the
\* margin and the period of the check
SilenceFound ==
    opened /\ ~destroyed /\ user.heartbeat # 0 =>
        age <= user.heartbeat * SECOND + Margin(user.heartbeat * SECOND) + HB_MOF_MAX

\* open() made a call on a connection that was destroyed while it waited to go on
Stranded == destroyed /\ awaiting # {} /\ place \in DOMAIN Request

\* with a timeout set, open() ends, unless it is stranded
OpenSettles == user.timeout # 0 ~> place \in {"opened", "failed"} \/ Stranded \/ crashed
=============================================================================
