--------------------------- MODULE ConnectionProofs ---------------------------
(***************************************************************************)
(* Proofs about Connection, for any set of channels, any channel_max, any  *)
(* number of deliveries and any choice of who may close what.              *)
(*                                                                         *)
(* The inductive invariant has three parts.  Types and Names always hold:  *)
(* which tick makes which call, whose number is whose, in what order an    *)
(* object's calls are made.  Clean says how the calls, the frames on their *)
(* way and the channels of the broker fit one another, and holds until a   *)
(* channel has ended otherwise than by one close() of its own (Spoilt),    *)
(* which stays so.                                                         *)
(***************************************************************************)
EXTENDS Connection, FiniteSetTheorems, SequenceTheorems, TLAPS

-----------------------------------------------------------------------------
(* What is waiting: the ticks t, the frames s to the client, the frames p  *)
(* to the broker.                                                          *)

Waits(t, j) == \E i \in 1..Len(t) : t[i] = j
Once(t, j)  == \A i, k \in 1..Len(t) : t[i] = j /\ t[k] = j => i = k

\* a frame is the tick that handles it, or it is still on its way
Handles(t, i, x) == t[i].type = "method" /\ t[i].for = x

\* nothing for the object x
Nothing(t, s, x) ==
    /\ \A i \in 1..Len(t) : ~Handles(t, i, x)
    /\ \A i \in 1..Len(s) : s[i].for # x
\* no method m for it
No(t, s, x, m) ==
    /\ \A i \in 1..Len(t) : Handles(t, i, x) => t[i].m # m
    /\ \A i \in 1..Len(s) : s[i].for = x => s[i].m # m
\* at most one
Uniq(t, s, x, m) ==
    /\ \A i, j \in 1..Len(t) : Handles(t, i, x) /\ Handles(t, j, x) /\ t[i].m = m /\ t[j].m = m => i = j
    /\ \A i, j \in 1..Len(s) : s[i].for = x /\ s[j].for = x /\ s[i].m = m /\ s[j].m = m => i = j
    /\ \A i \in 1..Len(t), j \in 1..Len(s) :
          ~(Handles(t, i, x) /\ s[j].for = x /\ t[i].m = m /\ s[j].m = m)
\* nothing after close_ok
Final(t, s, x) ==
    /\ \A i, j \in 1..Len(t) : Handles(t, i, x) /\ Handles(t, j, x) /\ t[i].m = "close_ok" => j <= i
    /\ \A i, j \in 1..Len(s) : s[i].for = x /\ s[j].for = x /\ s[i].m = "close_ok" => j <= i
    /\ \A i \in 1..Len(t), j \in 1..Len(s) :
          ~(Handles(t, i, x) /\ s[j].for = x /\ t[i].m = "close_ok")

\* every method is handled by the object it was meant for
Own(t) == \A i \in 1..Len(t) : t[i].type = "method" => t[i].o = t[i].for
\* every frame is for the channel that the map m names
Routed(s, m) == \A i \in 1..Len(s) : s[i].n # 0 => m[s[i].n] = s[i].for

Asks(p, x, m) == \E i \in 1..Len(p) : p[i].for = x /\ p[i].m = m
\* at most one open or close under the number n
OneRequest(p, n) ==
    \A i, j \in 1..Len(p) :
        p[i].n = n /\ p[j].n = n /\ p[i].m \in {"open", "close"} /\ p[j].m \in {"open", "close"} => i = j

\* what a step keeps that moves no frame but from the stream to the ticks
Kept(t, s, u, r) ==
    /\ \A x : Nothing(u, r, x) <=> Nothing(t, s, x)
    /\ \A x, m : No(u, r, x, m) <=> No(t, s, x, m)
    /\ \A x, m : Uniq(t, s, x, m) => Uniq(u, r, x, m)
    /\ \A x : Final(t, s, x) => Final(u, r, x)
\* what is left of the frames s when the method m is sent for x
Sent(t, s, r, x, m) ==
    /\ \A y : y # x => (Nothing(t, r, y) <=> Nothing(t, s, y))
    /\ ~No(t, r, x, m)
    /\ \A y, k : y # x \/ k # m => (No(t, r, y, k) <=> No(t, s, y, k))
    /\ \A y, k : Uniq(t, s, y, k) /\ (y # x \/ k # m \/ No(t, s, y, k)) => Uniq(t, r, y, k)
    /\ \A y : Final(t, s, y) /\ (y # x \/ No(t, s, y, "close_ok")) => Final(t, r, y)

-----------------------------------------------------------------------------
(* Types.                                                                  *)

OpenJob(c) == [type |-> "channel_open", o |-> c]
Methods == {"open_ok", "close_ok", "content", "flow", "close"}

Jobs ==
    {Ended} \cup [type : {"call"}, o : Objects, k : Kinds] \cup [type : {"channel_open"}, o : Channels]
        \cup [type : {"method"}, o : Channels, m : Methods, for : Channels]
        \cup [type : {"method"}, o : {Conn}, m : {"close", "close_ok"}, for : {Conn}]
ToClient ==
    [n : Numbers, m : Methods, for : Channels] \cup [n : {0}, m : {"close", "close_ok"}, for : {Conn}]
ToPeer ==
    [n : Numbers, m : {"open", "close", "close_ok", "flow_ok"}, for : Channels]
        \cup [n : {0}, m : {"close", "close_ok"}, for : {Conn}]

Types ==
    /\ TypeOK
    /\ ticks \in Seq(Jobs) /\ toClient \in Seq(ToClient) /\ toPeer \in Seq(ToPeer)
    /\ \A n \in Numbers : session[n].state = "closed" <=> session[n].for = None

-----------------------------------------------------------------------------
(* What always holds.                                                      *)

\* a call is made by one tick, and a promise of channel_open by one
Scheduled ==
    /\ \A o \in Objects, k \in Kinds :
          /\ Once(ticks, CallJob(o, k))
          /\ Waits(ticks, CallJob(o, k)) <=> call[o][k] = "scheduled"
    /\ \A c \in Channels : Once(ticks, OpenJob(c)) /\ (Waits(ticks, OpenJob(c)) <=> stage[c] = "asked")

\* the frames p carry the numbers of their objects
Signed(p, num) == \A i \in 1..Len(p) : p[i].for # Conn => p[i].n = num[p[i].for]
\* what the ticks t handle belongs to objects with a number
Bound(t, num) == \A i \in 1..Len(t) : t[i].type = "method" /\ t[i].o # Conn => num[t[i].o] # 0

\* the number of a channel
Numbered ==
    /\ \A c \in Channels :
          /\ number[c] = 0 => c \notin destroyed /\ c \notin replying /\ \A k \in Kinds : call[c][k] = "none"
          /\ number[c] = 0 <=> stage[c] \in {"idle", "asked"} \/ (stage[c] = "failed" /\ call[c]["open"] = "none")
    /\ \A n \in Numbers : channels[n] # None => number[channels[n]] = n
    /\ \A n \in Numbers : session[n].for # None => number[session[n].for] = n
    /\ Signed(toPeer, number) /\ Bound(ticks, number)

\* the order of the calls of an object
Called ==
    /\ call[Conn]["open"] = "none"
    /\ \A c \in Channels :
          /\ call[c]["open"] \in {"scheduled", "pending"} => stage[c] = "made"
          /\ stage[c] = "open" => call[c]["open"] = "resolved"
          /\ stage[c] = "failed" => call[c]["open"] \in {"none", "rejected"}
          /\ call[c]["close"] # "none" => c \in Closers /\ call[c]["open"] = "resolved"
    /\ \A o \in Objects, k \in Kinds : call[o][k] = "rejected" => o \in destroyed
    /\ \A o \in Objects : call[o]["drop"] # "none" => o \in destroyed
    /\ closed \subseteq destroyed

\* the end of the connection
Over ==
    /\ Conn \in destroyed => ~socketOpen /\ toClient = <<>> /\ \A n \in Numbers : channels[n] = None
    /\ ~socketOpen => Conn \in destroyed \/ Waits(ticks, Ended)

Names == Scheduled /\ Numbered /\ Called /\ Over

-----------------------------------------------------------------------------
(* Until a channel ends otherwise than by one close() of its own.          *)

Unreturned(o) == o \notin closed /\ Resolved(o, "close")

\* c keeps its number until it is destroyed: the others that had it are done with
Safe(c) ==
    /\ number[c] # 0 /\ channels[number[c]] = c
    /\ \A d \in Channels \ {c} : number[d] = number[c] => d \in destroyed /\ d \notin replying /\ ~Unreturned(d)

Spoilt ==
    \/ Destroyers \cap destroyed # {}
    \/ \E c \in PeerCloses : c \in destroyed \/ (c \in replying /\ Safe(c))
    \/ Repeated
    \/ Crossed /\ peer # "open"

Past == {"pending", "resolved", "rejected"}

\* nothing has gone wrong, and only the connection answers a close of the broker
Sane == ~crashed /\ decoding # "failed" /\ offence = None /\ replying \subseteq {Conn}

\* the channels that live are in the map, and no others
Registered ==
    /\ \A c \in Channels \ destroyed : number[c] # 0 => channels[number[c]] = c
    /\ \A n \in Numbers : channels[n] \notin destroyed

\* destroy makes a call only when the connection goes, and nobody reads it
Dropped == \A o \in Objects : call[o]["drop"] # "none" => ~socketOpen

\* while the connection lives, a channel is destroyed by its close()
Dead ==
    Conn \notin destroyed =>
        \A c \in Channels \cap destroyed : c \in closed /\ call[c]["open"] = "resolved" /\ call[c]["close"] = "resolved"

\* a frame reaches its channel
Known == Own(ticks) /\ Routed(toClient, channels)

\* the socket has failed and the connection is about to learn it
Failing ==
    /\ socketOpen => ~Waits(ticks, Ended)
    /\ ~socketOpen /\ Conn \notin destroyed =>
          toClient = <<>> /\ replying = {} /\ \A o \in Objects : Nothing(ticks, toClient, o) /\ ~Unreturned(o)

\* what goes on after the end of the connection goes on in the same turn
Returning ==
    \A o \in destroyed : Unreturned(o) \/ (o = Conn /\ Conn \in replying) =>
        draining /\ call[o]["drop"] # "pending"

\* what the broker has been sent fits what it has
Broker ==
    peer = "open" =>
        /\ \A c \in Channels :
              /\ Asks(toPeer, c, "open") => session[number[c]].for = None
              /\ Asks(toPeer, c, "close") => session[number[c]].for = c /\ call[c]["close"] \in Past
              /\ Asks(toPeer, c, "flow_ok") => session[number[c]].for = c \/ call[c]["close"] \in Past
              /\ ~Asks(toPeer, c, "close_ok")
        /\ \A n \in Numbers : OneRequest(toPeer, n)

Linked == peer = "open" /\ socketOpen

\* a request on its way
Asking ==
    Linked => \A c \in Channels :
        /\ Asks(toPeer, c, "open") =>
              c \notin destroyed /\ call[c]["open"] = "pending" /\ Nothing(ticks, toClient, c)
        /\ Asks(toPeer, c, "close") =>
              c \notin destroyed /\ call[c]["close"] = "pending" /\ No(ticks, toClient, c, "close_ok")

\* a channel that the broker has
Serving ==
    Linked => \A n \in Numbers, c \in Channels : session[n].for = c =>
        /\ channels[n] = c
        /\ \/ call[c]["open"] = "resolved"
           \/ call[c]["open"] = "pending" /\ ~No(ticks, toClient, c, "open_ok")
        /\ call[c]["close"] # "resolved"
        /\ session[n].state = "open" => No(ticks, toClient, c, "close_ok")
        /\ session[n].state = "closing" => ~No(ticks, toClient, c, "close")

\* a channel that the client has
Served ==
    Linked => \A c \in Channels \ destroyed :
        /\ call[c]["open"] = "pending" => Asks(toPeer, c, "open") \/ session[number[c]].for = c
        /\ call[c]["open"] = "resolved" /\ call[c]["close"] \in {"none", "scheduled"} => session[number[c]].for = c
        /\ call[c]["close"] = "pending" => Asks(toPeer, c, "close") \/ ~No(ticks, toClient, c, "close_ok")

\* what comes for a channel that lives
Coming ==
    \A c \in Channels \ destroyed :
        /\ ~Nothing(ticks, toClient, c) => call[c]["open"] \in {"pending", "resolved"} /\ call[c]["close"] # "resolved"
        /\ ~No(ticks, toClient, c, "open_ok") => call[c]["open"] = "pending"
        /\ ~No(ticks, toClient, c, "close_ok") => call[c]["close"] = "pending"
        /\ ~No(ticks, toClient, c, "close") => c \in PeerCloses
        /\ Uniq(ticks, toClient, c, "open_ok") /\ Final(ticks, toClient, c)

\* the close() of the connection
ConnClose ==
    /\ ~No(ticks, toClient, Conn, "close_ok") => peer = "closed"
    /\ Conn \notin destroyed =>
          /\ Uniq(ticks, toClient, Conn, "close_ok") /\ OneRequest(toPeer, 0)
          /\ ~No(ticks, toClient, Conn, "close_ok") => call[Conn]["close"] = "pending"
          /\ Asks(toPeer, Conn, "close") => call[Conn]["close"] = "pending" /\ No(ticks, toClient, Conn, "close_ok")

Clean ==
    /\ Sane /\ Registered /\ Dropped /\ Dead /\ Known /\ Failing /\ Returning
    /\ Broker /\ Asking /\ Serving /\ Served /\ Coming /\ ConnClose

Inv == Types /\ Names /\ (Spoilt \/ Clean)

-----------------------------------------------------------------------------
(* What it does to the queues to take an element or to add one.            *)
\* A sequence and its tail.
LEMMA TailIs ==
    ASSUME NEW S, NEW t \in Seq(S), t # <<>>
    PROVE  /\ Len(t) \in Nat /\ 1 \in 1..Len(t)
           /\ Head(t) = t[1] /\ Head(t) \in S /\ Tail(t) \in Seq(S)
           /\ Len(Tail(t)) = Len(t) - 1
           /\ \A i \in 1..Len(Tail(t)) : Tail(t)[i] = t[i + 1] /\ i + 1 \in 2..Len(t)
           /\ \A i \in 1..Len(t) : i = 1 \/ (i - 1 \in 1..Len(Tail(t)) /\ Tail(t)[i - 1] = t[i])
<1>1. Len(t) \in Nat /\ Len(t) # 0
  BY EmptySeq
<1>2. Tail(t) \in Seq(S) /\ Head(t) = t[1] /\ Head(t) \in S
  BY <1>1
<1>3. Len(Tail(t)) = Len(t) - 1
  BY <1>1
<1>4. \A i \in 1..Len(Tail(t)) : Tail(t)[i] = t[i + 1] /\ i + 1 \in 2..Len(t)
  BY <1>1, <1>3
<1>5. \A i \in 1..Len(t) : i = 1 \/ (i - 1 \in 1..Len(Tail(t)) /\ Tail(t)[i - 1] = t[i])
  BY <1>1, <1>3
<1> QED
  BY <1>1, <1>2, <1>3, <1>4, <1>5

\* A sequence and one more.
LEMMA AppendIs ==
    ASSUME NEW S, NEW t \in Seq(S), NEW e \in S
    PROVE  /\ Append(t, e) \in Seq(S) /\ Len(t) \in Nat /\ Len(Append(t, e)) = Len(t) + 1
           /\ \A i \in 1..Len(t) : Append(t, e)[i] = t[i] /\ i \in 1..Len(Append(t, e))
           /\ Len(t) + 1 \in 1..Len(Append(t, e)) /\ Append(t, e)[Len(t) + 1] = e
           /\ \A i \in 1..Len(Append(t, e)) : i \in 1..Len(t) \/ i = Len(t) + 1
<1>1. Append(t, e) \in Seq(S) /\ Len(t) \in Nat /\ Len(Append(t, e)) = Len(t) + 1
  OBVIOUS
<1>2. \A i \in 1..Len(t) : Append(t, e)[i] = t[i]
  OBVIOUS
<1>3. Append(t, e)[Len(t) + 1] = e
  OBVIOUS
<1> QED
  BY <1>1, <1>2, <1>3

\* The first tick is taken: what waits, is once, is its own and has a number.
LEMMA JobTaken ==
    ASSUME NEW S, NEW t \in Seq(S), t # <<>>
    PROVE  /\ Waits(t, Head(t))
           /\ \A j : Waits(Tail(t), j) => Waits(t, j)
           /\ \A j : Waits(t, j) => j = Head(t) \/ Waits(Tail(t), j)
           /\ \A j : Once(t, j) => Once(Tail(t), j)
           /\ Once(t, Head(t)) => ~Waits(Tail(t), Head(t))
           /\ Own(t) => Own(Tail(t)) /\ (Head(t).type = "method" => Head(t).o = Head(t).for)
           /\ \A w : Bound(t, w) =>
                 Bound(Tail(t), w) /\ (Head(t).type = "method" /\ Head(t).o # Conn => w[Head(t).o] # 0)
<1>1. /\ Len(t) \in Nat /\ 1 \in 1..Len(t) /\ Head(t) = t[1]
      /\ Len(Tail(t)) = Len(t) - 1
      /\ \A i \in 1..Len(Tail(t)) : Tail(t)[i] = t[i + 1] /\ i + 1 \in 2..Len(t)
      /\ \A i \in 1..Len(t) : i = 1 \/ (i - 1 \in 1..Len(Tail(t)) /\ Tail(t)[i - 1] = t[i])
  BY TailIs
<1> DEFINE u == Tail(t)
           h == Head(t)
<1>2. /\ \A i \in 1..Len(u) : u[i] = t[i + 1] /\ i + 1 \in 1..Len(t) /\ i + 1 # 1
      /\ \A i \in 1..Len(t) : i = 1 \/ \E k \in 1..Len(u) : u[k] = t[i]
      /\ 1 \in 1..Len(t) /\ h = t[1]
  BY <1>1
<1>3. \A i, k \in 1..Len(u) : i + 1 = k + 1 => i = k
  BY <1>1
<1> HIDE DEF u, h
<1>4. Waits(t, h)
  BY <1>2 DEF Waits
<1>5. \A j : Waits(u, j) => Waits(t, j)
  BY <1>2 DEF Waits
<1>6. \A j : Waits(t, j) => j = h \/ Waits(u, j)
  BY <1>2 DEF Waits
<1>7. ASSUME NEW j, Once(t, j), NEW i \in 1..Len(u), NEW k \in 1..Len(u), u[i] = j, u[k] = j
      PROVE  i = k
  <2>1. t[i + 1] = j /\ t[k + 1] = j /\ i + 1 \in 1..Len(t) /\ k + 1 \in 1..Len(t)
    BY <1>2, <1>7
  <2>2. i + 1 = k + 1
    BY <2>1, <1>7 DEF Once
  <2> QED
    BY <2>2, <1>3
<1>8. Once(t, h) => ~Waits(u, h)
  BY <1>2 DEF Waits, Once
<1>9. ASSUME Own(t)
      PROVE  Own(u) /\ (h.type = "method" => h.o = h.for)
  <2>1. h.type = "method" => h.o = h.for
    BY <1>2, <1>9 DEF Own
  <2>2. ASSUME NEW i \in 1..Len(u), u[i].type = "method"
        PROVE  u[i].o = u[i].for
    <3>1. u[i] = t[i + 1] /\ i + 1 \in 1..Len(t)
      BY <1>2
    <3> QED
      BY <3>1, <2>2, <1>9 DEF Own
  <2> QED
    BY <2>1, <2>2 DEF Own
<1>10. ASSUME NEW w, Bound(t, w)
       PROVE  Bound(u, w) /\ (h.type = "method" /\ h.o # Conn => w[h.o] # 0)
  <2>1. h.type = "method" /\ h.o # Conn => w[h.o] # 0
    BY <1>2, <1>10 DEF Bound
  <2>2. ASSUME NEW i \in 1..Len(u), u[i].type = "method", u[i].o # Conn
        PROVE  w[u[i].o] # 0
    <3>1. u[i] = t[i + 1] /\ i + 1 \in 1..Len(t)
      BY <1>2
    <3> QED
      BY <3>1, <2>2, <1>10 DEF Bound
  <2> QED
    BY <2>1, <2>2 DEF Bound
<1> QED
  BY <1>4, <1>5, <1>6, <1>7, <1>8, <1>9, <1>10 DEF u, h, Once

\* A tick is added at the end.
LEMMA JobAdded ==
    ASSUME NEW S, NEW t \in Seq(S), NEW e \in S
    PROVE  /\ \A j : Waits(Append(t, e), j) <=> Waits(t, j) \/ j = e
           /\ \A j : Once(t, j) /\ (j # e \/ ~Waits(t, j)) => Once(Append(t, e), j)
           /\ Own(t) /\ (e.type = "method" => e.o = e.for) => Own(Append(t, e))
           /\ \A w : Bound(t, w) /\ (e.type = "method" /\ e.o # Conn => w[e.o] # 0) => Bound(Append(t, e), w)
<1> DEFINE u == Append(t, e)
           n == Len(t) + 1
<1>1. /\ \A i \in 1..Len(t) : u[i] = t[i] /\ i \in 1..Len(u)
      /\ n \in 1..Len(u) /\ u[n] = e
      /\ \A i \in 1..Len(u) : i \in 1..Len(t) \/ i = n
  BY AppendIs
<1> HIDE DEF u, n
<1>2. \A j : Waits(u, j) <=> Waits(t, j) \/ j = e
  BY <1>1 DEF Waits
<1>3. \A j : Once(t, j) /\ (j # e \/ ~Waits(t, j)) => Once(u, j)
  <2> SUFFICES ASSUME NEW j, Once(t, j), j # e \/ ~Waits(t, j), NEW i \in 1..Len(u), NEW k \in 1..Len(u),
                      u[i] = j, u[k] = j
               PROVE  i = k
    BY DEF Once
  <2> QED
    BY <1>1 DEF Once, Waits
<1>4. Own(t) /\ (e.type = "method" => e.o = e.for) => Own(u)
  BY <1>1 DEF Own
<1>5. \A w : Bound(t, w) /\ (e.type = "method" /\ e.o # Conn => w[e.o] # 0) => Bound(u, w)
  BY <1>1 DEF Bound
<1> QED
  BY <1>2, <1>3, <1>4, <1>5 DEF u

\* The handling of a method, or another tick, leaves the queue.
LEMMA HandlingTaken ==
    ASSUME NEW S, NEW t \in Seq(S), t # <<>>, NEW s
    PROVE  /\ \A x : Nothing(t, s, x) => Nothing(Tail(t), s, x)
           /\ \A x, m : No(t, s, x, m) => No(Tail(t), s, x, m)
           /\ \A x, m : Uniq(t, s, x, m) => Uniq(Tail(t), s, x, m)
           /\ \A x : Final(t, s, x) => Final(Tail(t), s, x)
           /\ \A x : ~(Head(t).type = "method" /\ Head(t).for = x) /\ Nothing(Tail(t), s, x) => Nothing(t, s, x)
           /\ \A x, m : ~(Head(t).type = "method" /\ Head(t).for = x /\ Head(t).m = m) /\ No(Tail(t), s, x, m)
                           => No(t, s, x, m)
           /\ Head(t).type = "method" =>
                 /\ ~Nothing(t, s, Head(t).for) /\ ~No(t, s, Head(t).for, Head(t).m)
                 /\ Uniq(t, s, Head(t).for, Head(t).m) => No(Tail(t), s, Head(t).for, Head(t).m)
                 /\ Head(t).m = "close_ok" /\ Final(t, s, Head(t).for) => Nothing(Tail(t), s, Head(t).for)
<1> DEFINE u == Tail(t)
           h == Head(t)
<1>1. /\ Len(t) \in Nat /\ 1 \in 1..Len(t) /\ h = t[1]
      /\ \A i \in 1..Len(u) : u[i] = t[i + 1] /\ i + 1 \in 2..Len(t)
      /\ \A i \in 1..Len(t) : i = 1 \/ (i - 1 \in 1..Len(u) /\ u[i - 1] = t[i])
      /\ Len(u) = Len(t) - 1
  BY TailIs
<1>2. /\ \A i \in 1..Len(u) : u[i] = t[i + 1] /\ i + 1 \in 1..Len(t)
      /\ \A i \in 1..Len(t) : i = 1 \/ \E k \in 1..Len(u) : u[k] = t[i]
      /\ 1 \in 1..Len(t) /\ h = t[1]
  BY <1>1
<1>3. \A i, k \in 1..Len(u) : (i + 1 = k + 1 => i = k) /\ (i + 1 <= k + 1 => i <= k) /\ ~(i + 1 <= 1) /\ i + 1 # 1
  BY <1>1
<1>4. \A x : \A i \in 1..Len(u) : Handles(u, i, x) => Handles(t, i + 1, x)
  BY <1>2 DEF Handles
<1> HIDE DEF u, h
<1>5. \A x : Nothing(t, s, x) => Nothing(u, s, x)
  BY <1>2, <1>4 DEF Nothing
<1>6. \A x, m : No(t, s, x, m) => No(u, s, x, m)
  <2> SUFFICES ASSUME NEW x, NEW m, No(t, s, x, m), NEW i \in 1..Len(u), Handles(u, i, x)
               PROVE  u[i].m # m
    BY DEF No
  <2>1. u[i] = t[i + 1] /\ i + 1 \in 1..Len(t) /\ Handles(t, i + 1, x)
    BY <1>2, <1>4
  <2> QED
    BY <2>1 DEF No
<1>7. \A x, m : Uniq(t, s, x, m) => Uniq(u, s, x, m)
  <2> SUFFICES ASSUME NEW x, NEW m, Uniq(t, s, x, m)
               PROVE  Uniq(u, s, x, m)
    OBVIOUS
  <2>1. ASSUME NEW i \in 1..Len(u), NEW j \in 1..Len(u), Handles(u, i, x), Handles(u, j, x), u[i].m = m, u[j].m = m
        PROVE  i = j
    <3>1. u[i] = t[i + 1] /\ i + 1 \in 1..Len(t) /\ Handles(t, i + 1, x)
      BY <1>2, <1>4, <2>1
    <3>2. u[j] = t[j + 1] /\ j + 1 \in 1..Len(t) /\ Handles(t, j + 1, x)
      BY <1>2, <1>4, <2>1
    <3>3. i + 1 = j + 1
      BY <3>1, <3>2, <2>1 DEF Uniq
    <3> QED
      BY <3>3, <1>3
  <2>2. ASSUME NEW i \in 1..Len(u), NEW j \in 1..Len(s), Handles(u, i, x), s[j].for = x, u[i].m = m, s[j].m = m
        PROVE  FALSE
    <3>1. u[i] = t[i + 1] /\ i + 1 \in 1..Len(t) /\ Handles(t, i + 1, x)
      BY <1>2, <1>4, <2>2
    <3> QED
      BY <3>1, <2>2 DEF Uniq
  <2> QED
    BY <2>1, <2>2 DEF Uniq
<1>8. \A x : Final(t, s, x) => Final(u, s, x)
  <2> SUFFICES ASSUME NEW x, Final(t, s, x)
               PROVE  Final(u, s, x)
    OBVIOUS
  <2>1. ASSUME NEW i \in 1..Len(u), NEW j \in 1..Len(u), Handles(u, i, x), Handles(u, j, x), u[i].m = "close_ok"
        PROVE  j <= i
    <3>1. u[i] = t[i + 1] /\ i + 1 \in 1..Len(t) /\ Handles(t, i + 1, x)
      BY <1>2, <1>4, <2>1
    <3>2. u[j] = t[j + 1] /\ j + 1 \in 1..Len(t) /\ Handles(t, j + 1, x)
      BY <1>2, <1>4, <2>1
    <3>3. j + 1 <= i + 1
      BY <3>1, <3>2, <2>1 DEF Final
    <3> QED
      BY <3>3, <1>3
  <2>2. ASSUME NEW i \in 1..Len(u), NEW j \in 1..Len(s), Handles(u, i, x), s[j].for = x, u[i].m = "close_ok"
        PROVE  FALSE
    <3>1. u[i] = t[i + 1] /\ i + 1 \in 1..Len(t) /\ Handles(t, i + 1, x)
      BY <1>2, <1>4, <2>2
    <3> QED
      BY <3>1, <2>2 DEF Final
  <2> QED
    BY <2>1, <2>2 DEF Final
<1>9. \A x : ~(h.type = "method" /\ h.for = x) /\ Nothing(u, s, x) => Nothing(t, s, x)
  BY <1>2 DEF Nothing, Handles
<1>10. \A x, m : ~(h.type = "method" /\ h.for = x /\ h.m = m) /\ No(u, s, x, m) => No(t, s, x, m)
  BY <1>2 DEF No, Handles
<1>11. ASSUME h.type = "method"
       PROVE  /\ ~Nothing(t, s, h.for) /\ ~No(t, s, h.for, h.m)
              /\ Uniq(t, s, h.for, h.m) => No(u, s, h.for, h.m)
              /\ h.m = "close_ok" /\ Final(t, s, h.for) => Nothing(u, s, h.for)
  <2>1. Handles(t, 1, h.for) /\ t[1].m = h.m /\ 1 \in 1..Len(t)
    BY <1>2, <1>11 DEF Handles
  <2>2. ~Nothing(t, s, h.for) /\ ~No(t, s, h.for, h.m)
    BY <2>1 DEF Nothing, No
  <2>3. ASSUME Uniq(t, s, h.for, h.m)
        PROVE  No(u, s, h.for, h.m)
    <3>1. ASSUME NEW i \in 1..Len(u), Handles(u, i, h.for), u[i].m = h.m
          PROVE  FALSE
      <4>1. u[i] = t[i + 1] /\ i + 1 \in 1..Len(t) /\ Handles(t, i + 1, h.for) /\ i + 1 # 1
        BY <1>2, <1>3, <1>4, <3>1
      <4> QED
        BY <4>1, <2>1, <2>3, <3>1 DEF Uniq
    <3>2. ASSUME NEW i \in 1..Len(s), s[i].for = h.for, s[i].m = h.m
          PROVE  FALSE
      BY <3>2, <2>1, <2>3 DEF Uniq
    <3> QED
      BY <3>1, <3>2 DEF No
  <2>4. ASSUME h.m = "close_ok", Final(t, s, h.for)
        PROVE  Nothing(u, s, h.for)
    <3>1. ASSUME NEW i \in 1..Len(u), Handles(u, i, h.for)
          PROVE  FALSE
      <4>1. u[i] = t[i + 1] /\ i + 1 \in 1..Len(t) /\ Handles(t, i + 1, h.for) /\ ~(i + 1 <= 1)
        BY <1>2, <1>3, <1>4, <3>1
      <4> QED
        BY <4>1, <2>1, <2>4 DEF Final
    <3>2. ASSUME NEW i \in 1..Len(s), s[i].for = h.for
          PROVE  FALSE
      BY <3>2, <2>1, <2>4 DEF Final
    <3> QED
      BY <3>1, <3>2 DEF Nothing
  <2> QED
    BY <2>2, <2>3, <2>4
<1> QED
  BY <1>5, <1>6, <1>7, <1>8, <1>9, <1>10, <1>11 DEF u, h

\* The tick that is gone handled nothing.
LEMMA OtherTaken ==
    ASSUME NEW S, NEW t \in Seq(S), t # <<>>, NEW s, Head(t).type # "method"
    PROVE  Kept(t, s, Tail(t), s)
BY HandlingTaken DEF Kept

\* Ticks that handle nothing are added.
LEMMA OthersAdded ==
    ASSUME NEW S, NEW t \in Seq(S), NEW q \in Seq(S), NEW s,
           \A i \in 1..Len(q) : q[i].type # "method"
    PROVE  /\ t \o q \in Seq(S) /\ Kept(t, s, t \o q, s) /\ (Own(t) => Own(t \o q))
           /\ \A w : Bound(t, w) => Bound(t \o q, w)
           /\ \A j : Waits(t \o q, j) <=> Waits(t, j) \/ Waits(q, j)
           /\ \A j : Once(t, j) /\ Once(q, j) /\ (~Waits(t, j) \/ ~Waits(q, j)) => Once(t \o q, j)
<1> DEFINE u == t \o q
           n == Len(t)
           k == Len(q)
<1>1. /\ n \in Nat /\ k \in Nat /\ Len(u) = n + k /\ u \in Seq(S)
      /\ \A i \in 1..n : u[i] = t[i]
      /\ \A i \in 1..Len(u) : i > n => u[i] = q[i - n]
  BY ConcatProperties
<1>2. /\ \A i \in 1..n : u[i] = t[i] /\ i \in 1..Len(u)
      /\ \A i \in 1..Len(u) : i \in 1..n \/ (i > n /\ i - n \in 1..k /\ u[i] = q[i - n])
      /\ \A i \in 1..k : i + n \in 1..Len(u) /\ u[i + n] = q[i]
      /\ \A i, j \in 1..Len(u) : i - n = j - n => i = j
  BY <1>1
<1>3. \A i \in 1..Len(u) : u[i].type = "method" => i \in 1..n
  BY <1>2
<1> HIDE DEF u, n, k
<1>4. \A x : \A i \in 1..Len(u) : Handles(u, i, x) <=> i \in 1..n /\ Handles(t, i, x)
  BY <1>2, <1>3 DEF Handles
<1>5. \A x : \A i \in 1..n : Handles(t, i, x) => i \in 1..Len(u) /\ Handles(u, i, x) /\ u[i] = t[i]
  BY <1>2, <1>4
<1>6. n = Len(t) /\ k = Len(q)
  BY DEF n, k
<1>7. Kept(t, s, u, s)
  <2>1. \A x : Nothing(u, s, x) <=> Nothing(t, s, x)
    BY <1>4, <1>5, <1>6 DEF Nothing
  <2>2. \A x, m : No(u, s, x, m) <=> No(t, s, x, m)
    BY <1>2, <1>4, <1>5, <1>6 DEF No
  <2>3. \A x, m : Uniq(t, s, x, m) => Uniq(u, s, x, m)
    BY <1>2, <1>4, <1>6 DEF Uniq
  <2>4. \A x : Final(t, s, x) => Final(u, s, x)
    BY <1>2, <1>4, <1>6 DEF Final
  <2> QED
    BY <2>1, <2>2, <2>3, <2>4 DEF Kept
<1>8. Own(t) => Own(u)
  BY <1>2, <1>3, <1>6 DEF Own
<1>9. \A j : Waits(u, j) <=> Waits(t, j) \/ Waits(q, j)
  <2> TAKE j
  <2>1. Waits(u, j) => Waits(t, j) \/ Waits(q, j)
    BY <1>2, <1>6 DEF Waits
  <2>2. Waits(t, j) => Waits(u, j)
    BY <1>2, <1>6 DEF Waits
  <2>3. ASSUME Waits(q, j) PROVE Waits(u, j)
    <3>1. PICK i \in 1..k : q[i] = j
      BY <2>3, <1>6 DEF Waits
    <3>2. i + n \in 1..Len(u) /\ u[i + n] = j
      BY <3>1, <1>2
    <3> QED
      BY <3>2 DEF Waits
  <2> QED
    BY <2>1, <2>2, <2>3
<1>10. ASSUME NEW j, Once(t, j), Once(q, j), ~Waits(t, j) \/ ~Waits(q, j)
       PROVE  Once(u, j)
  <2> SUFFICES ASSUME NEW a \in 1..Len(u), NEW b \in 1..Len(u), u[a] = j, u[b] = j
               PROVE  a = b
    BY DEF Once
  <2>1. \A i \in 1..Len(u) : u[i] = j => (i \in 1..n /\ t[i] = j) \/ (i - n \in 1..k /\ q[i - n] = j)
    BY <1>2
  <2>2. CASE ~Waits(t, j)
    <3>1. a - n \in 1..k /\ b - n \in 1..k /\ q[a - n] = j /\ q[b - n] = j
      BY <2>1, <2>2, <1>6 DEF Waits
    <3>2. a - n = b - n
      BY <3>1, <1>10, <1>6 DEF Once
    <3> QED
      BY <3>2, <1>2
  <2>3. CASE ~Waits(q, j)
    <3>1. a \in 1..n /\ b \in 1..n /\ t[a] = j /\ t[b] = j
      BY <2>1, <2>3, <1>6 DEF Waits
    <3> QED
      BY <3>1, <1>10, <1>6 DEF Once
  <2> QED
    BY <1>10, <2>2, <2>3
<1>11. \A w : Bound(t, w) => Bound(u, w)
  BY <1>2, <1>3, <1>6 DEF Bound
<1> QED
  BY <1>1, <1>7, <1>8, <1>9, <1>10, <1>11 DEF u

\* A tick that handles no method moves no frame.
LEMMA OtherAdded ==
    ASSUME NEW S, NEW t \in Seq(S), NEW e \in S, NEW s, e.type # "method"
    PROVE  Kept(t, s, Append(t, e), s)
<1>1. Append(t, e) = t \o <<e>> /\ <<e>> \in Seq(S)
  OBVIOUS
<1> DEFINE q == <<e>>
<1>2. q \in Seq(S) /\ \A i \in 1..Len(q) : q[i].type # "method"
  OBVIOUS
<1>3. Append(t, e) = t \o q
  BY <1>1
<1> HIDE DEF q
<1>4. Kept(t, s, t \o q, s)
  BY <1>2, OthersAdded
<1> QED
  BY <1>3, <1>4

\* A frame becomes the tick that handles it.
LEMMA FrameMoved ==
    ASSUME NEW S, NEW t \in Seq(S), NEW e \in S, NEW F, NEW s \in Seq(F), s # <<>>,
           e.type = "method", e.for = Head(s).for, e.m = Head(s).m
    PROVE  Kept(t, s, Append(t, e), Tail(s))
<1> DEFINE u == Append(t, e)
           r == Tail(s)
           h == Head(s)
           n == Len(t) + 1
<1>1. /\ \A i \in 1..Len(t) : u[i] = t[i] /\ i \in 1..Len(u)
      /\ n \in 1..Len(u) /\ u[n] = e
      /\ \A i \in 1..Len(u) : i \in 1..Len(t) \/ i = n
      /\ Len(t) \in Nat /\ Len(u) = n
  BY AppendIs
<1>2. /\ Len(s) \in Nat /\ 1 \in 1..Len(s) /\ h = s[1]
      /\ \A i \in 1..Len(r) : r[i] = s[i + 1] /\ i + 1 \in 2..Len(s)
      /\ \A i \in 1..Len(s) : i = 1 \/ (i - 1 \in 1..Len(r) /\ r[i - 1] = s[i])
      /\ Len(r) = Len(s) - 1
  BY TailIs
<1>13. \A i \in 1..Len(r) : i + 1 # 1 /\ ~(i + 1 <= 1) /\ i + 1 \in 1..Len(s)
  BY <1>2
<1>14. \A i \in 1..Len(s) : i = 1 \/ \E k \in 1..Len(r) : r[k] = s[i]
  BY <1>2
<1>3. /\ \A i \in 1..Len(r) : r[i] = s[i + 1] /\ i + 1 \in 1..Len(s) /\ i + 1 # 1 /\ ~(i + 1 <= 1)
      /\ \A i \in 1..Len(s) : i = 1 \/ \E k \in 1..Len(r) : r[k] = s[i]
      /\ 1 \in 1..Len(s) /\ h = s[1]
  BY <1>2, <1>13, <1>14
<1>4. \A i, k \in 1..Len(r) : (i + 1 = k + 1 => i = k) /\ (i + 1 <= k + 1 => i <= k)
  BY <1>2
<1>5. \A i \in 1..Len(t) : i \in Nat /\ i <= n /\ ~(n <= i) /\ i # n
  BY <1>1
<1>6. n \in Nat /\ n <= n
  BY <1>1
<1>7. e.type = "method" /\ e.for = h.for /\ e.m = h.m
  OBVIOUS
<1> HIDE DEF u, r, h, n
<1>8. \A x : \A i \in 1..Len(u) : Handles(u, i, x) <=> (i \in 1..Len(t) /\ Handles(t, i, x)) \/ (i = n /\ h.for = x)
  BY <1>1, <1>5, <1>7 DEF Handles
<1>9. \A x : Nothing(u, r, x) <=> Nothing(t, s, x)
  <2> TAKE x
  <2>1. ASSUME Nothing(t, s, x) PROVE Nothing(u, r, x)
    BY <2>1, <1>3, <1>8 DEF Nothing
  <2>2. ASSUME Nothing(u, r, x) PROVE Nothing(t, s, x)
    <3>1. \A i \in 1..Len(t) : ~Handles(t, i, x)
      BY <2>2, <1>1, <1>8 DEF Nothing
    <3>2. h.for # x
      BY <2>2, <1>1, <1>8 DEF Nothing
    <3>3. \A i \in 1..Len(s) : s[i].for # x
      BY <2>2, <3>2, <1>3 DEF Nothing
    <3> QED
      BY <3>1, <3>3 DEF Nothing
  <2> QED
    BY <2>1, <2>2
<1>10. \A x, m : No(u, r, x, m) <=> No(t, s, x, m)
  <2> TAKE x, m
  <2>1. ASSUME No(t, s, x, m) PROVE No(u, r, x, m)
    <3>1. ASSUME NEW i \in 1..Len(u), Handles(u, i, x), u[i].m = m
          PROVE  FALSE
      <4>1. CASE i \in 1..Len(t) /\ Handles(t, i, x)
        BY <4>1, <3>1, <2>1, <1>1 DEF No
      <4>2. CASE i = n /\ h.for = x
        BY <4>2, <3>1, <2>1, <1>1, <1>3, <1>7 DEF No
      <4> QED
        BY <3>1, <4>1, <4>2, <1>8
    <3>2. \A i \in 1..Len(r) : r[i].for = x => r[i].m # m
      BY <2>1, <1>3 DEF No
    <3> QED
      BY <3>1, <3>2 DEF No
  <2>2. ASSUME No(u, r, x, m) PROVE No(t, s, x, m)
    <3>1. \A i \in 1..Len(t) : Handles(t, i, x) => t[i].m # m
      BY <2>2, <1>1, <1>8 DEF No
    <3>2. h.for = x => h.m # m
      BY <2>2, <1>1, <1>7, <1>8 DEF No
    <3>3. \A i \in 1..Len(s) : s[i].for = x => s[i].m # m
      BY <2>2, <3>2, <1>3 DEF No
    <3> QED
      BY <3>1, <3>3 DEF No
  <2> QED
    BY <2>1, <2>2
<1>11. ASSUME NEW x, NEW m, Uniq(t, s, x, m)
       PROVE  Uniq(u, r, x, m)
  <2>1. ASSUME NEW i \in 1..Len(u), NEW j \in 1..Len(u), Handles(u, i, x), Handles(u, j, x), u[i].m = m, u[j].m = m
        PROVE  i = j
    <3>1. CASE i \in 1..Len(t) /\ j \in 1..Len(t)
      BY <3>1, <2>1, <1>11, <1>1, <1>5, <1>8 DEF Uniq
    <3>2. CASE i = n /\ j # n
      BY <3>2, <2>1, <1>11, <1>1, <1>3, <1>5, <1>7, <1>8 DEF Uniq
    <3>3. CASE j = n /\ i # n
      BY <3>3, <2>1, <1>11, <1>1, <1>3, <1>5, <1>7, <1>8 DEF Uniq
    <3> QED
      BY <3>1, <3>2, <3>3, <1>1
  <2>2. ASSUME NEW i \in 1..Len(r), NEW j \in 1..Len(r), r[i].for = x, r[j].for = x, r[i].m = m, r[j].m = m
        PROVE  i = j
    <3>1. r[i] = s[i + 1] /\ r[j] = s[j + 1] /\ i + 1 \in 1..Len(s) /\ j + 1 \in 1..Len(s)
      BY <1>3
    <3>2. i + 1 = j + 1
      BY <3>1, <2>2, <1>11 DEF Uniq
    <3> QED
      BY <3>2, <1>4
  <2>3. ASSUME NEW i \in 1..Len(u), NEW j \in 1..Len(r), Handles(u, i, x), r[j].for = x, u[i].m = m, r[j].m = m
        PROVE  FALSE
    <3>1. r[j] = s[j + 1] /\ j + 1 \in 1..Len(s) /\ j + 1 # 1
      BY <1>3
    <3>2. CASE i \in 1..Len(t)
      BY <3>1, <3>2, <2>3, <1>11, <1>1, <1>5, <1>8 DEF Uniq
    <3>3. CASE i = n
      <4>1. 1 \in 1..Len(s) /\ s[1].for = x /\ s[1].m = m
        BY <3>3, <2>3, <1>1, <1>3, <1>5, <1>7, <1>8
      <4>2. s[j + 1].for = x /\ s[j + 1].m = m
        BY <3>1, <2>3
      <4> QED
        BY <4>1, <4>2, <3>1, <1>11 DEF Uniq
    <3> QED
      BY <3>2, <3>3, <1>1
  <2> QED
    BY <2>1, <2>2, <2>3 DEF Uniq
<1>12. ASSUME NEW x, Final(t, s, x)
       PROVE  Final(u, r, x)
  <2>1. ASSUME NEW i \in 1..Len(u), NEW j \in 1..Len(u), Handles(u, i, x), Handles(u, j, x), u[i].m = "close_ok"
        PROVE  j <= i
    <3>1. CASE i \in 1..Len(t) /\ j \in 1..Len(t)
      BY <3>1, <2>1, <1>12, <1>1, <1>5, <1>8 DEF Final
    <3>2. CASE i = n
      BY <3>2, <1>1, <1>5, <1>6
    <3>3. CASE j = n /\ i # n
      BY <3>3, <2>1, <1>12, <1>1, <1>3, <1>5, <1>7, <1>8 DEF Final
    <3> QED
      BY <3>1, <3>2, <3>3, <1>1
  <2>2. ASSUME NEW i \in 1..Len(r), NEW j \in 1..Len(r), r[i].for = x, r[j].for = x, r[i].m = "close_ok"
        PROVE  j <= i
    <3>1. r[i] = s[i + 1] /\ r[j] = s[j + 1] /\ i + 1 \in 1..Len(s) /\ j + 1 \in 1..Len(s)
      BY <1>3
    <3>2. j + 1 <= i + 1
      BY <3>1, <2>2, <1>12 DEF Final
    <3> QED
      BY <3>2, <1>4
  <2>3. ASSUME NEW i \in 1..Len(u), NEW j \in 1..Len(r), Handles(u, i, x), r[j].for = x, u[i].m = "close_ok"
        PROVE  FALSE
    <3>1. r[j] = s[j + 1] /\ j + 1 \in 1..Len(s) /\ ~(j + 1 <= 1)
      BY <1>3
    <3>2. CASE i \in 1..Len(t)
      BY <3>1, <3>2, <2>3, <1>12, <1>1, <1>5, <1>8 DEF Final
    <3>3. CASE i = n
      BY <3>1, <3>3, <2>3, <1>12, <1>1, <1>3, <1>5, <1>7, <1>8 DEF Final
    <3> QED
      BY <3>2, <3>3, <1>1
  <2> QED
    BY <2>1, <2>2, <2>3 DEF Final
<1> QED
  BY <1>9, <1>10, <1>11, <1>12 DEF Kept, u, r

\* The broker sends a frame.
LEMMA FrameSent ==
    ASSUME NEW F, NEW s \in Seq(F), NEW f \in F, NEW t
    PROVE  /\ Sent(t, s, Append(s, f), f.for, f.m)
           /\ \A w : Routed(s, w) /\ (f.n # 0 => w[f.n] = f.for) => Routed(Append(s, f), w)
<1> DEFINE r == Append(s, f)
           x == f.for
           m == f.m
           n == Len(s) + 1
<1>1. /\ \A i \in 1..Len(s) : r[i] = s[i] /\ i \in 1..Len(r)
      /\ n \in 1..Len(r) /\ r[n] = f
      /\ \A i \in 1..Len(r) : i \in 1..Len(s) \/ i = n
      /\ Len(s) \in Nat
  BY AppendIs
<1>2. \A i \in 1..Len(s) : i <= n /\ i # n
  BY <1>1
<1>3. n <= n
  BY <1>1
<1> HIDE DEF r, n
<1>4. \A y : y # x => (Nothing(t, r, y) <=> Nothing(t, s, y))
  BY <1>1 DEF Nothing
<1>5. ~No(t, r, x, m)
  BY <1>1 DEF No
<1>6. \A y, k : y # x \/ k # m => (No(t, r, y, k) <=> No(t, s, y, k))
  BY <1>1 DEF No
<1>7. \A y, k : Uniq(t, s, y, k) /\ (y # x \/ k # m \/ No(t, s, y, k)) => Uniq(t, r, y, k)
  <2> SUFFICES ASSUME NEW y, NEW k, Uniq(t, s, y, k), y # x \/ k # m \/ No(t, s, y, k)
               PROVE  Uniq(t, r, y, k)
    OBVIOUS
  <2>1. \A i, j \in 1..Len(r) : r[i].for = y /\ r[j].for = y /\ r[i].m = k /\ r[j].m = k => i = j
    BY <1>1 DEF Uniq, No
  <2>2. \A i \in 1..Len(t), j \in 1..Len(r) : ~(Handles(t, i, y) /\ r[j].for = y /\ t[i].m = k /\ r[j].m = k)
    BY <1>1 DEF Uniq, No
  <2> QED
    BY <2>1, <2>2 DEF Uniq
<1>8. \A y : Final(t, s, y) /\ (y # x \/ No(t, s, y, "close_ok")) => Final(t, r, y)
  <2> SUFFICES ASSUME NEW y, Final(t, s, y), y # x \/ No(t, s, y, "close_ok")
               PROVE  Final(t, r, y)
    OBVIOUS
  <2>1. \A i, j \in 1..Len(r) : r[i].for = y /\ r[j].for = y /\ r[i].m = "close_ok" => j <= i
    BY <1>1, <1>2, <1>3 DEF Final, No
  <2>2. \A i \in 1..Len(t), j \in 1..Len(r) : ~(Handles(t, i, y) /\ r[j].for = y /\ t[i].m = "close_ok")
    BY <1>1 DEF Final, No
  <2> QED
    BY <2>1, <2>2 DEF Final
<1>9. \A w : Routed(s, w) /\ (f.n # 0 => w[f.n] = x) => Routed(r, w)
  BY <1>1 DEF Routed
<1> QED
  BY <1>4, <1>5, <1>6, <1>7, <1>8, <1>9 DEF Sent, r

\* The stream is gone.
LEMMA StreamLost ==
    ASSUME NEW t, NEW s
    PROVE  /\ \A x : Nothing(t, s, x) => Nothing(t, <<>>, x)
           /\ \A x, m : No(t, s, x, m) => No(t, <<>>, x, m)
           /\ \A x, m : Uniq(t, s, x, m) => Uniq(t, <<>>, x, m)
           /\ \A x : Final(t, s, x) => Final(t, <<>>, x)
           /\ \A w : Routed(<<>>, w)
<1>1. Len(<<>>) = 0 /\ 1..0 = {}
  OBVIOUS
<1> QED
  BY <1>1 DEF Nothing, No, Uniq, Final, Routed

\* Where nothing is on its way for x, no method of any kind is.
LEMMA NothingIsNo ==
    ASSUME NEW t, NEW s, NEW x, Nothing(t, s, x)
    PROVE  /\ \A m : No(t, s, x, m) /\ Uniq(t, s, x, m)
           /\ Final(t, s, x)
BY DEF Nothing, No, Uniq, Final

\* The next frame is taken from the stream.
LEMMA FrameTaken ==
    ASSUME NEW F, NEW s \in Seq(F), s # <<>>
    PROVE  \A w : Routed(s, w) => Routed(Tail(s), w) /\ (Head(s).n # 0 => w[Head(s).n] = Head(s).for)
<1> DEFINE r == Tail(s)
           h == Head(s)
<1>1. /\ 1 \in 1..Len(s) /\ h = s[1]
      /\ \A i \in 1..Len(r) : r[i] = s[i + 1] /\ i + 1 \in 2..Len(s)
      /\ Len(s) \in Nat
  BY TailIs
<1>2. \A i \in 1..Len(r) : r[i] = s[i + 1] /\ i + 1 \in 1..Len(s)
  BY <1>1
<1> HIDE DEF r, h
<1> QED
  BY <1>1, <1>2 DEF Routed, r, h

\* The broker takes a frame.
LEMMA RequestTaken ==
    ASSUME NEW F, NEW p \in Seq(F), p # <<>>
    PROVE  /\ Asks(p, Head(p).for, Head(p).m)
           /\ \A x, m : Asks(Tail(p), x, m) => Asks(p, x, m)
           /\ \A x, m : Asks(p, x, m) => (x = Head(p).for /\ m = Head(p).m) \/ Asks(Tail(p), x, m)
           /\ \A n : OneRequest(p, n) => OneRequest(Tail(p), n)
           /\ \A w : Signed(p, w) => Signed(Tail(p), w) /\ (Head(p).for # Conn => Head(p).n = w[Head(p).for])
<1> DEFINE r == Tail(p)
           h == Head(p)
<1>1. /\ Len(p) \in Nat /\ 1 \in 1..Len(p) /\ h = p[1]
      /\ \A i \in 1..Len(r) : r[i] = p[i + 1] /\ i + 1 \in 2..Len(p)
      /\ \A i \in 1..Len(p) : i = 1 \/ (i - 1 \in 1..Len(r) /\ r[i - 1] = p[i])
      /\ Len(r) = Len(p) - 1
  BY TailIs
<1>2. /\ \A i \in 1..Len(r) : r[i] = p[i + 1] /\ i + 1 \in 1..Len(p)
      /\ \A i \in 1..Len(p) : i = 1 \/ \E k \in 1..Len(r) : r[k] = p[i]
      /\ 1 \in 1..Len(p) /\ h = p[1]
      /\ \A i, k \in 1..Len(r) : i + 1 = k + 1 => i = k
  BY <1>1
<1> HIDE DEF r, h
<1>3. Asks(p, h.for, h.m)
  BY <1>2 DEF Asks
<1>4. \A x, m : Asks(r, x, m) => Asks(p, x, m)
  BY <1>2 DEF Asks
<1>5. \A x, m : Asks(p, x, m) => (x = h.for /\ m = h.m) \/ Asks(r, x, m)
  BY <1>2 DEF Asks
<1>6. ASSUME NEW n, OneRequest(p, n), NEW i \in 1..Len(r), NEW j \in 1..Len(r), r[i].n = n, r[j].n = n,
             r[i].m \in {"open", "close"}, r[j].m \in {"open", "close"}
      PROVE  i = j
  <2>1. r[i] = p[i + 1] /\ r[j] = p[j + 1] /\ i + 1 \in 1..Len(p) /\ j + 1 \in 1..Len(p)
    BY <1>2
  <2>2. i + 1 = j + 1
    BY <2>1, <1>6 DEF OneRequest
  <2> QED
    BY <2>2, <1>2
<1>7. ASSUME NEW w, Signed(p, w)
      PROVE  Signed(r, w) /\ (h.for # Conn => h.n = w[h.for])
  <2>1. h.for # Conn => h.n = w[h.for]
    BY <1>2, <1>7 DEF Signed
  <2>2. ASSUME NEW i \in 1..Len(r), r[i].for # Conn
        PROVE  r[i].n = w[r[i].for]
    <3>1. r[i] = p[i + 1] /\ i + 1 \in 1..Len(p)
      BY <1>2
    <3> QED
      BY <3>1, <2>2, <1>7 DEF Signed
  <2> QED
    BY <2>1, <2>2 DEF Signed
<1> QED
  BY <1>3, <1>4, <1>5, <1>6, <1>7 DEF r, h, OneRequest

\* A request that is taken was the only one under its number.
LEMMA RequestAlone ==
    ASSUME NEW F, NEW p \in Seq(F), p # <<>>, Head(p).m \in {"open", "close"},
           OneRequest(p, Head(p).n), NEW x, NEW m \in {"open", "close"}, Asks(Tail(p), x, m),
           \A i \in 1..Len(p) : p[i].for = x => p[i].n = Head(p).n
    PROVE  FALSE
<1> DEFINE r == Tail(p)
           h == Head(p)
<1>1. /\ Len(p) \in Nat /\ 1 \in 1..Len(p) /\ h = p[1]
      /\ \A i \in 1..Len(r) : r[i] = p[i + 1] /\ i + 1 \in 2..Len(p)
      /\ Len(r) = Len(p) - 1
  BY TailIs
<1>2. PICK i \in 1..Len(r) : r[i].for = x /\ r[i].m = m
  BY DEF Asks
<1>3. r[i] = p[i + 1] /\ i + 1 \in 1..Len(p) /\ i + 1 # 1
  BY <1>1, <1>2
<1>4. h.m \in {"open", "close"} /\ OneRequest(p, h.n) /\ p[i + 1].n = h.n
  BY <1>2, <1>3
<1> HIDE DEF r, h
<1> QED
  BY <1>1, <1>2, <1>3, <1>4 DEF OneRequest

\* A frame for the broker is added.
LEMMA RequestAdded ==
    ASSUME NEW F, NEW p \in Seq(F), NEW f \in F
    PROVE  /\ \A x, m : Asks(Append(p, f), x, m) <=> Asks(p, x, m) \/ (x = f.for /\ m = f.m)
           /\ \A n : /\ OneRequest(p, n)
                     /\ \/ f.n # n \/ f.m \notin {"open", "close"}
                        \/ \A i \in 1..Len(p) : p[i].n = n => p[i].m \notin {"open", "close"}
                     => OneRequest(Append(p, f), n)
           /\ \A w : Signed(p, w) /\ (f.for # Conn => f.n = w[f.for]) => Signed(Append(p, f), w)
<1> DEFINE r == Append(p, f)
           k == Len(p) + 1
<1>1. /\ \A i \in 1..Len(p) : r[i] = p[i] /\ i \in 1..Len(r)
      /\ k \in 1..Len(r) /\ r[k] = f
      /\ \A i \in 1..Len(r) : i \in 1..Len(p) \/ i = k
  BY AppendIs
<1> HIDE DEF r, k
<1>2. \A x, m : Asks(r, x, m) <=> Asks(p, x, m) \/ (x = f.for /\ m = f.m)
  BY <1>1 DEF Asks
<1>3. ASSUME NEW n, OneRequest(p, n),
             \/ f.n # n \/ f.m \notin {"open", "close"}
             \/ \A i \in 1..Len(p) : p[i].n = n => p[i].m \notin {"open", "close"}
      PROVE  OneRequest(r, n)
  <2> SUFFICES ASSUME NEW i \in 1..Len(r), NEW j \in 1..Len(r), r[i].n = n, r[j].n = n,
                      r[i].m \in {"open", "close"}, r[j].m \in {"open", "close"}
               PROVE  i = j
    BY DEF OneRequest
  <2> QED
    BY <1>1, <1>3 DEF OneRequest
<1>4. \A w : Signed(p, w) /\ (f.for # Conn => f.n = w[f.for]) => Signed(r, w)
  BY <1>1 DEF Signed
<1> QED
  BY <1>2, <1>3, <1>4 DEF r

\* A set made a queue.
LEMMA SetListed ==
    ASSUME NEW D, IsFiniteSet(D)
    PROVE  /\ SetToSeq(D) \in Seq(D)
           /\ \A j : Once(SetToSeq(D), j)
           /\ \A j : Waits(SetToSeq(D), j) <=> j \in D
<1> DEFINE n == Cardinality(D)
<1>1. n \in Nat /\ \E f \in [1..n -> D] : f \in Bijection(1..n, D)
  BY FS_CardinalityType DEF ExistsBijection, Bijection, Injection
<1>2. PICK f \in [1..n -> D] : f \in Bijection(1..n, D)
  BY <1>1
<1>3. IsInjective(f)
  BY <1>2 DEF Bijection, Injection
<1>4. SetToSeq(D) \in [1..n -> D] /\ IsInjective(SetToSeq(D))
  BY <1>3 DEF SetToSeq
<1> DEFINE q == SetToSeq(D)
<1> HIDE DEF q, n
<1>5. q \in [1..n -> D] /\ IsInjective(q) /\ n \in Nat
  BY <1>1, <1>4 DEF q
<1>6. q \in Seq(D) /\ Len(q) = n
  BY <1>5
<1>7. \A j : Once(q, j)
  BY <1>5, <1>6 DEF Once, IsInjective
<1>8. q \in Injection(1..n, D)
  BY <1>5 DEF Injection
<1>9. Cardinality(1..n) = n /\ IsFiniteSet(1..n)
  BY <1>5, FS_Interval
<1>10. q \in Surjection(1..n, D)
  BY <1>8, <1>9, FS_Injection DEF n
<1>11. \A j : Waits(q, j) <=> j \in D
  BY <1>5, <1>6, <1>10 DEF Waits, Surjection
<1> QED
  BY <1>6, <1>7, <1>11 DEF q

-----------------------------------------------------------------------------
(* Types and names are kept.                                               *)

\* The ticks differ.
LEMMA JobsDiffer ==
    /\ Ended \in Jobs /\ Ended.type # "method"
    /\ \A o \in Objects, k \in Kinds : CallJob(o, k) \in Jobs
    /\ \A c \in Channels : OpenJob(c) \in Jobs
    /\ \A o, k : CallJob(o, k) # Ended /\ CallJob(o, k).type # "method"
    /\ \A c : OpenJob(c) # Ended /\ OpenJob(c).type # "method"
    /\ \A o, k, p, l : CallJob(o, k) = CallJob(p, l) => o = p /\ k = l
    /\ \A c, d : OpenJob(c) = OpenJob(d) => c = d
    /\ \A o, k, c : CallJob(o, k) # OpenJob(c)
<1>1. Ended \in Jobs /\ Ended.type # "method"
  BY DEF Ended, Jobs
<1>2. \A o \in Objects, k \in Kinds : CallJob(o, k) \in Jobs
  BY DEF CallJob, Jobs
<1>3. \A c \in Channels : OpenJob(c) \in Jobs
  BY DEF OpenJob, Jobs
<1>4. \A o, k : CallJob(o, k).type = "call" /\ CallJob(o, k).o = o /\ CallJob(o, k).k = k
  BY DEF CallJob
<1>5. \A c : OpenJob(c).type = "channel_open" /\ OpenJob(c).o = c
  BY DEF OpenJob
<1>6. Ended.type = "ended"
  BY DEF Ended
<1> QED
  BY <1>1, <1>2, <1>3, <1>4, <1>5, <1>6

\* The head of the queue.
LEMMA HeadJob ==
    ASSUME Types, ticks # <<>>
    PROVE  /\ ticks \in Seq(Jobs) /\ Tail(ticks) \in Seq(Jobs) /\ Head(ticks) \in Jobs
           /\ Head(ticks).type = "method" =>
                 /\ Head(ticks).o \in Objects /\ Head(ticks).m \in Methods /\ Head(ticks).for \in Objects
                 /\ Head(ticks).for = Conn => Head(ticks).m \in {"close", "close_ok"}
                 /\ Head(ticks).o = Conn <=> Head(ticks).for = Conn
<1>1. Tail(ticks) \in Seq(Jobs) /\ Head(ticks) \in Jobs /\ ticks \in Seq(Jobs)
  BY TailIs DEF Types
<1>2. Conn \notin Channels
  BY ConnectionAssumption
<1> QED
  BY <1>1, <1>2 DEF Jobs, Ended, Objects, Methods

\* The head of the stream.
LEMMA HeadFrame ==
    ASSUME Types, toClient # <<>>
    PROVE  /\ Tail(toClient) \in Seq(ToClient) /\ Head(toClient) \in ToClient
           /\ Head(toClient).m \in Methods /\ Head(toClient).for \in Objects
           /\ \/ Head(toClient).n = 0 /\ Head(toClient).for = Conn /\ Head(toClient).m \in {"close", "close_ok"}
              \/ Head(toClient).n \in Numbers /\ Head(toClient).n # 0 /\ Head(toClient).for \in Channels
<1>1. Tail(toClient) \in Seq(ToClient) /\ Head(toClient) \in ToClient
  BY TailIs DEF Types
<1> QED
  BY <1>1, ConnectionAssumption DEF ToClient, Objects, Numbers, Methods

\* The head of what the broker reads.
LEMMA HeadRequest ==
    ASSUME Types, toPeer # <<>>
    PROVE  /\ Tail(toPeer) \in Seq(ToPeer) /\ Head(toPeer) \in ToPeer
           /\ Head(toPeer).for \in Objects
           /\ \/ Head(toPeer).n = 0 /\ Head(toPeer).for = Conn /\ Head(toPeer).m \in {"close", "close_ok"}
              \/ /\ Head(toPeer).n \in Numbers /\ Head(toPeer).n # 0 /\ Head(toPeer).for \in Channels
                 /\ Head(toPeer).m \in {"open", "close", "close_ok", "flow_ok"}
<1>1. Tail(toPeer) \in Seq(ToPeer) /\ Head(toPeer) \in ToPeer
  BY TailIs DEF Types
<1> QED
  BY <1>1, ConnectionAssumption DEF ToPeer, Objects, Numbers

\* A frame of the client.
LEMMA Written ==
    ASSUME Types, Numbered, NEW o \in Objects, NEW m, Write(o, m),
           IF o = Conn THEN m \in {"close", "close_ok"}
                       ELSE number[o] # 0 /\ m \in {"open", "close", "close_ok", "flow_ok"}
    PROVE  /\ toPeer' \in Seq(ToPeer) /\ Signed(toPeer', number)
           /\ \A x, k : Asks(toPeer', x, k) <=> Asks(toPeer, x, k) \/ (socketOpen /\ x = o /\ k = m)
           /\ ~socketOpen => toPeer' = toPeer
           /\ \A n : /\ OneRequest(toPeer, n)
                     /\ \/ NumberOf(o) # n \/ m \notin {"open", "close"}
                        \/ \A i \in 1..Len(toPeer) : toPeer[i].n = n => toPeer[i].m \notin {"open", "close"}
                     => OneRequest(toPeer', n)
<1> DEFINE f == [n |-> NumberOf(o), m |-> m, for |-> o]
<1>1. f \in ToPeer /\ (f.for # Conn => f.n = number[f.for]) /\ f.for = o /\ f.m = m /\ f.n = NumberOf(o)
  BY ConnectionAssumption DEF ToPeer, NumberOf, Objects, Types, TypeOK
<1>2. toPeer' = IF socketOpen THEN Append(toPeer, f) ELSE toPeer
  BY DEF Write
<1>3. toPeer \in Seq(ToPeer) /\ Signed(toPeer, number)
  BY DEF Types, Numbered
<1> HIDE DEF f
<1>4. CASE socketOpen
  BY <1>1, <1>2, <1>3, <1>4, RequestAdded, AppendIs
<1>5. CASE ~socketOpen
  BY <1>2, <1>3, <1>5
<1> QED
  BY <1>4, <1>5

\* A tick that makes no call and opens no channel is gone, or is added.
LEMMA ScheduledKept ==
    ASSUME Types, Scheduled, UNCHANGED <<call, stage>>,
           \/ ticks' = ticks
           \/ ticks # <<>> /\ ticks' = Tail(ticks) /\ Head(ticks).type \in {"method", "ended"}
           \/ \E e \in Jobs : ticks' = Append(ticks, e) /\ e.type \in {"method", "ended"}
    PROVE  Scheduled'
<1>0. ticks \in Seq(Jobs)
  BY DEF Types
<1>1. \A o, k : CallJob(o, k).type = "call"
  BY DEF CallJob
<1>2. \A c : OpenJob(c).type = "channel_open"
  BY DEF OpenJob
<1>3. CASE ticks' = ticks
  BY <1>3 DEF Scheduled
<1>4. CASE ticks # <<>> /\ ticks' = Tail(ticks) /\ Head(ticks).type \in {"method", "ended"}
  <2>1. \A j : Once(ticks, j) => Once(ticks', j)
    BY <1>0, <1>4, JobTaken
  <2>2. \A j : j # Head(ticks) => (Waits(ticks', j) <=> Waits(ticks, j))
    BY <1>0, <1>4, JobTaken
  <2> QED
    BY <1>1, <1>2, <1>4, <2>1, <2>2 DEF Scheduled
<1>5. CASE \E e \in Jobs : ticks' = Append(ticks, e) /\ e.type \in {"method", "ended"}
  <2>1. PICK e \in Jobs : ticks' = Append(ticks, e) /\ e.type \in {"method", "ended"}
    BY <1>5
  <2>2. \A j : j # e => (Waits(ticks', j) <=> Waits(ticks, j)) /\ (Once(ticks, j) => Once(ticks', j))
    BY <1>0, <2>1, JobAdded
  <2> QED
    BY <1>1, <1>2, <2>1, <2>2 DEF Scheduled
<1> QED
  BY <1>3, <1>4, <1>5

\* At the beginning nothing has a number and nothing waits.
LEMMA BeginningNames ==
    ASSUME Init
    PROVE  Types /\ Names
<1>1. TypeOK
  <2>1. contents \in 0..MaxContent
    BY ConnectionAssumption DEF Init
  <2>2. session \in [Numbers -> [state : {"closed", "open", "closing"}, for : Channels \cup {None}]]
    BY DEF Init, NoSession
  <2>3. call \in [Objects -> [Kinds -> {"none", "scheduled", "pending", "resolved", "rejected"}]]
    BY DEF Init
  <2> QED
    BY <2>1, <2>2, <2>3 DEF Init, TypeOK, LoopInit
<1>2. ticks \in Seq(Jobs) /\ toClient \in Seq(ToClient) /\ toPeer \in Seq(ToPeer) /\ Len(<<>>) = 0 /\ 1..0 = {}
  BY DEF Init, LoopInit
<1>3. Types
  BY <1>1, <1>2 DEF Types, Init, NoSession
<1>4. Scheduled
  BY <1>2 DEF Scheduled, Init, LoopInit, Once, Waits
<1>5. Numbered
  BY <1>2, ConnectionAssumption DEF Numbered, Init, LoopInit, NoSession, Signed, Bound, Objects
<1>6. Called
  BY DEF Called, Init, Objects, Kinds
<1>7. Over
  BY DEF Over, Init
<1> QED
  BY <1>3, <1>4, <1>5, <1>6, <1>7 DEF Names

\* channel_open asks for a tick.
LEMMA ChannelOpenNames ==
    ASSUME Types, Names, NEW c \in Channels, ChannelOpen(c)
    PROVE  Types' /\ Names'
<1>1. ticks \in Seq(Jobs) /\ ticks' = Append(ticks, OpenJob(c)) /\ OpenJob(c) \in Jobs
  BY JobsDiffer DEF Types, ChannelOpen, OpenJob
<1>2. TypeOK'
  BY DEF Types, TypeOK, ChannelOpen, Continue, PieceEnds, RunContinuation, objects, broker
<1>3. Types'
  BY <1>1, <1>2, AppendIs DEF Types, ChannelOpen, broker
<1>4. /\ \A j : Waits(ticks', j) <=> Waits(ticks, j) \/ j = OpenJob(c)
      /\ \A j : Once(ticks, j) /\ (j # OpenJob(c) \/ ~Waits(ticks, j)) => Once(ticks', j)
      /\ Bound(ticks, number) => Bound(ticks', number)
  BY <1>1, JobAdded, JobsDiffer
<1>5. stage[c] = "idle" /\ stage' = [stage EXCEPT ![c] = "asked"]
          /\ stage \in [Channels -> {"idle", "asked", "made", "open", "failed"}]
  BY DEF ChannelOpen, Types, TypeOK
<1>6. Scheduled'
  BY <1>4, <1>5, JobsDiffer DEF Names, Scheduled, ChannelOpen
<1>7. Numbered'
  BY <1>4, <1>5 DEF Names, Numbered, ChannelOpen, broker
<1>8. Called'
  BY <1>5 DEF Names, Called, ChannelOpen
<1>9. Over'
  BY <1>4, JobsDiffer DEF Names, Over, ChannelOpen
<1> QED
  BY <1>3, <1>6, <1>7, <1>8, <1>9 DEF Names

\* The tick of channel_open gives the channel a number that no channel in the
\* map has, or fails.
LEMMA ChannelOpenTickNames ==
    ASSUME Types, Names, NEW c \in Channels, ChannelOpenTick(c)
    PROVE  Types' /\ Names'
<1>1. /\ ticks \in Seq(Jobs) /\ ticks # <<>> /\ Head(ticks) = OpenJob(c) /\ ticks' = Tail(ticks)
      /\ ticks' \in Seq(Jobs)
  BY HeadJob DEF Types, ChannelOpenTick, OpenJob, Tick, RunTick
<1>2. /\ Waits(ticks, OpenJob(c))
      /\ \A j : Waits(ticks', j) => Waits(ticks, j)
      /\ \A j : Waits(ticks, j) => j = OpenJob(c) \/ Waits(ticks', j)
      /\ \A j : Once(ticks, j) => Once(ticks', j)
      /\ Once(ticks, OpenJob(c)) => ~Waits(ticks', OpenJob(c))
      /\ Bound(ticks, number) => Bound(ticks', number)
  BY <1>1, JobTaken
<1>3. stage[c] = "asked" /\ number[c] = 0 /\ ~Waits(ticks', OpenJob(c))
  BY <1>2 DEF Names, Scheduled, Numbered
<1>4. /\ stage \in [Channels -> {"idle", "asked", "made", "open", "failed"}]
      /\ number \in [Channels -> Numbers \cup {0}]
      /\ channels \in [Numbers -> Channels \cup {None}]
      /\ None \notin Channels /\ 0 \notin Numbers
  BY ConnectionAssumption DEF Types, TypeOK, Numbers
<1>5. \/ stage' = [stage EXCEPT ![c] = "failed"] /\ UNCHANGED <<number, channels>>
      \/ /\ stage' = [stage EXCEPT ![c] = "made"]
         /\ \E n \in Numbers : /\ channels[n] = None
                               /\ number' = [number EXCEPT ![c] = n] /\ channels' = [channels EXCEPT ![n] = c]
  BY DEF ChannelOpenTick, Free
<1>6. TypeOK'
  <2>1. /\ stage' \in [Channels -> {"idle", "asked", "made", "open", "failed"}]
        /\ number' \in [Channels -> Numbers \cup {0}]
        /\ channels' \in [Numbers -> Channels \cup {None}]
    BY <1>4, <1>5
  <2>2. draining' \in BOOLEAN /\ decoding' \in {"idle", "reading", "failed"}
    BY DEF Types, TypeOK, ChannelOpenTick, Tick, RunTick, PieceEnds
  <2> QED
    BY <2>1, <2>2 DEF Types, TypeOK, ChannelOpenTick, broker
<1>7. Types'
  BY <1>1, <1>6 DEF Types, ChannelOpenTick, broker
<1>8. Scheduled'
  <2>1. \A o \in Objects, k \in Kinds : Once(ticks', CallJob(o, k)) /\ (Waits(ticks', CallJob(o, k)) <=> call'[o][k] = "scheduled")
    BY <1>2, JobsDiffer DEF Names, Scheduled, ChannelOpenTick
  <2>2. \A d \in Channels : Once(ticks', OpenJob(d)) /\ (Waits(ticks', OpenJob(d)) <=> stage'[d] = "asked")
    BY <1>2, <1>3, <1>4, <1>5, JobsDiffer DEF Names, Scheduled
  <2> QED
    BY <2>1, <2>2 DEF Scheduled
<1>9. \A k \in Kinds : call[c][k] = "none"
  BY <1>3 DEF Names, Numbered
<1>10. Numbered'
  <2>1. CASE stage' = [stage EXCEPT ![c] = "failed"] /\ UNCHANGED <<number, channels>>
    BY <2>1, <1>2, <1>3, <1>4, <1>9 DEF Names, Numbered, ChannelOpenTick, broker, Kinds
  <2>2. CASE stage' = [stage EXCEPT ![c] = "made"] /\ ~UNCHANGED <<number, channels>>
    <3>1. PICK n \in Numbers : /\ channels[n] = None
                               /\ number' = [number EXCEPT ![c] = n] /\ channels' = [channels EXCEPT ![n] = c]
      BY <1>5, <2>2
    <3>2. \A d \in Channels : number'[d] = IF d = c THEN n ELSE number[d]
      BY <3>1, <1>4
    <3>3. n # 0
      BY <1>4
    <3>4. Bound(ticks', number')
      <4>1. Bound(ticks', number)
        BY <1>2 DEF Names, Numbered
      <4>2. \A i \in 1..Len(ticks') : ticks'[i].type = "method" => ticks'[i].o \in Objects
        BY <1>1 DEF Jobs, Ended, Objects
      <4> QED
        BY <4>1, <4>2, <3>2, <3>3 DEF Bound, Objects
    <3>5. Signed(toPeer', number')
      <4>1. Signed(toPeer, number) /\ toPeer' = toPeer
        BY DEF Names, Numbered, ChannelOpenTick
      <4>2. \A i \in 1..Len(toPeer) : toPeer[i].for # Conn => toPeer[i].for \in Channels /\ toPeer[i].n \in Numbers
        BY DEF Types, ToPeer
      <4>3. \A i \in 1..Len(toPeer) : toPeer[i].for # Conn => toPeer[i].for # c
        BY <4>1, <4>2, <1>3, <1>4 DEF Signed
      <4> QED
        BY <4>1, <4>2, <4>3, <3>2 DEF Signed
    <3>6. \A d \in Channels :
             /\ number'[d] = 0 => d \notin destroyed' /\ d \notin replying' /\ \A k \in Kinds : call'[d][k] = "none"
             /\ number'[d] = 0 <=> stage'[d] \in {"idle", "asked"} \/ (stage'[d] = "failed" /\ call'[d]["open"] = "none")
      BY <3>2, <3>3, <2>2, <1>4 DEF Names, Numbered, ChannelOpenTick
    <3>7. \A m \in Numbers : channels'[m] # None => number'[channels'[m]] = m
      <4>1. \A m \in Numbers : m # n
                => channels'[m] = channels[m] /\ (channels[m] # None => channels[m] \in Channels /\ number[channels[m]] = m)
        BY <3>1, <1>4 DEF Names, Numbered
      <4>2. channels'[n] = c
        BY <3>1, <1>4
      <4> QED
        BY <4>1, <4>2, <3>2, <1>3, <1>4
    <3>8. \A m \in Numbers : session'[m].for # None => number'[session'[m].for] = m
      <4>1. session' = session
        BY DEF ChannelOpenTick, broker
      <4>2. \A m \in Numbers : session[m].for # None => session[m].for \in Channels /\ number[session[m].for] = m
        BY DEF Names, Numbered, Types, TypeOK
      <4> QED
        BY <4>1, <4>2, <3>2, <1>3, <1>4
    <3> QED
      BY <3>4, <3>5, <3>6, <3>7, <3>8 DEF Numbered
  <2>3. CASE stage' = [stage EXCEPT ![c] = "made"] /\ UNCHANGED <<number, channels>>
    BY <2>3, <1>3, <1>4, <1>5
  <2> QED
    BY <1>5, <2>1, <2>2, <2>3
<1>11. Called'
  BY <1>4, <1>5, <1>9 DEF Names, Called, ChannelOpenTick, Kinds
<1>12. Over'
  <2>1. Conn \in destroyed => UNCHANGED channels
    BY DEF ChannelOpenTick
  <2> QED
    BY <2>1, <1>2, JobsDiffer DEF Names, Over, ChannelOpenTick
<1> QED
  BY <1>7, <1>8, <1>10, <1>11, <1>12 DEF Names

\* A call is scheduled: by channel_open, by close().
LEMMA CallScheduledNames ==
    ASSUME Types, Names, NEW o \in Objects, NEW k \in Kinds, call[o][k] = "none",
           call' = [call EXCEPT ![o][k] = "scheduled"],
           ticks' = Append(ticks, CallJob(o, k)), draining' \in BOOLEAN,
           decoding' \in {"idle", "reading", "failed"},
           k = "open" => o # Conn /\ stage[o] = "made",
           k = "close" /\ o # Conn => stage[o] = "open" /\ o \in Closers,
           k = "again" => call[o]["close"] # "none",
           k # "drop",
           UNCHANGED <<stage, number, channels, destroyed, closed, replying, toPeer,
                       toClient, broker, socketOpen, crashed>>
    PROVE  Types' /\ Names'
<1>1. ticks \in Seq(Jobs) /\ CallJob(o, k) \in Jobs
  BY JobsDiffer DEF Types
<1>2. call \in [Objects -> [Kinds -> {"none", "scheduled", "pending", "resolved", "rejected"}]]
  BY DEF Types, TypeOK
<1>3. \A p \in Objects, l \in Kinds : call'[p][l] = IF p = o /\ l = k THEN "scheduled" ELSE call[p][l]
  BY <1>2
<1>4. TypeOK'
  <2>1. call' \in [Objects -> [Kinds -> {"none", "scheduled", "pending", "resolved", "rejected"}]]
    BY <1>2
  <2> QED
    BY <2>1 DEF Types, TypeOK, broker
<1>5. Types'
  BY <1>1, <1>4, AppendIs DEF Types, broker
<1>6. /\ \A j : Waits(ticks', j) <=> Waits(ticks, j) \/ j = CallJob(o, k)
      /\ \A j : Once(ticks, j) /\ (j # CallJob(o, k) \/ ~Waits(ticks, j)) => Once(ticks', j)
      /\ Bound(ticks, number) => Bound(ticks', number)
  BY <1>1, JobAdded, JobsDiffer
<1>7. ~Waits(ticks, CallJob(o, k))
  BY DEF Names, Scheduled
<1>8. Scheduled'
  <2>1. \A p \in Objects, l \in Kinds : Once(ticks', CallJob(p, l)) /\ (Waits(ticks', CallJob(p, l)) <=> call'[p][l] = "scheduled")
    BY <1>3, <1>6, <1>7, JobsDiffer DEF Names, Scheduled
  <2>2. \A d \in Channels : Once(ticks', OpenJob(d)) /\ (Waits(ticks', OpenJob(d)) <=> stage'[d] = "asked")
    BY <1>6, JobsDiffer DEF Names, Scheduled
  <2> QED
    BY <2>1, <2>2 DEF Scheduled
<1>9. o # Conn => o \in Channels /\ number[o] # 0
  BY DEF Names, Numbered, Objects, Kinds
<1>10. Numbered'
  <2>1. \A d \in Channels : number[d] = 0 => \A l \in Kinds : call'[d][l] = call[d][l]
    BY <1>3, <1>9, ConnectionAssumption DEF Objects
  <2>2. \A d \in Channels : stage[d] = "failed" => call'[d]["open"] = call[d]["open"]
    BY <1>3 DEF Objects, Kinds
  <2> QED
    BY <1>6, <2>1, <2>2 DEF Names, Numbered, broker
<1>11. Called'
  <2>1. Conn \in Objects /\ "open" \in Kinds /\ "close" \in Kinds /\ "drop" \in Kinds /\ Conn \notin Channels
            /\ Channels \subseteq Objects
    BY ConnectionAssumption DEF Objects, Kinds
  <2>2. call'[Conn]["open"] = "none"
    BY <1>3, <2>1 DEF Names, Called
  <2>3. \A c \in Channels :
          /\ call'[c]["open"] \in {"scheduled", "pending"} => stage[c] = "made"
          /\ stage[c] = "open" => call'[c]["open"] = "resolved"
          /\ stage[c] = "failed" => call'[c]["open"] \in {"none", "rejected"}
          /\ call'[c]["close"] # "none" => c \in Closers /\ call'[c]["open"] = "resolved"
    BY <1>3, <2>1 DEF Names, Called
  <2>4. \A p \in Objects, l \in Kinds : call'[p][l] = "rejected" => p \in destroyed
    BY <1>3 DEF Names, Called
  <2>5. \A p \in Objects : call'[p]["drop"] # "none" => p \in destroyed
    BY <1>3, <2>1 DEF Names, Called
  <2> QED
    BY <2>2, <2>3, <2>4, <2>5 DEF Called, Names
<1>12. Over'
  BY <1>6, JobsDiffer DEF Names, Over
<1> QED
  BY <1>5, <1>8, <1>10, <1>11, <1>12 DEF Names

\* channel_open makes its call, or returns when it is settled.
LEMMA ChannelOpenContinuesNames ==
    ASSUME Types, Names, NEW c \in Channels, ChannelOpenContinues(c)
    PROVE  Types' /\ Names'
<1>1. draining' \in BOOLEAN /\ decoding' \in {"idle", "reading", "failed"}
  BY DEF ChannelOpenContinues, Continue, RunContinuation, PieceEnds, Types, TypeOK
<1>2. CASE call[c]["open"] = "none"
  <2>1. c \in Objects /\ "open" \in Kinds /\ c # Conn
    BY ConnectionAssumption DEF Objects, Kinds
  <2> QED
    BY <1>1, <1>2, <2>1, CallScheduledNames DEF ChannelOpenContinues
<1>3. CASE call[c]["open"] # "none"
  <2>1. /\ stage[c] = "made" /\ call[c]["open"] \in {"resolved", "rejected"} /\ UNCHANGED <<call, ticks>>
        /\ stage' = [stage EXCEPT ![c] = IF call[c]["open"] = "resolved" THEN "open" ELSE "failed"]
    BY <1>3 DEF ChannelOpenContinues, Resolved
  <2>2. stage \in [Channels -> {"idle", "asked", "made", "open", "failed"}]
    BY DEF Types, TypeOK
  <2>3. TypeOK'
    BY <1>1, <2>1 DEF Types, TypeOK, ChannelOpenContinues, broker
  <2>4. Types'
    BY <2>1, <2>3 DEF Types, ChannelOpenContinues, broker
  <2>5. Scheduled'
    BY <2>1, <2>2 DEF Names, Scheduled
  <2>6. Numbered'
    BY <2>1, <2>2 DEF Names, Numbered, ChannelOpenContinues, broker
  <2>7. Called'
    BY <2>1, <2>2 DEF Names, Called, ChannelOpenContinues
  <2>8. Over'
    BY <2>1 DEF Names, Over, ChannelOpenContinues
  <2> QED
    BY <2>4, <2>5, <2>6, <2>7, <2>8 DEF Names
<1> QED
  BY <1>2, <1>3

\* close() schedules its call, once.
LEMMA CloseNames ==
    ASSUME Types, Names, NEW o \in Objects, Close(o)
    PROVE  Types' /\ Names'
<1>1. draining' \in BOOLEAN /\ decoding' \in {"idle", "reading", "failed"} /\ "close" \in Kinds
  BY DEF Close, Continue, RunContinuation, PieceEnds, Types, TypeOK, Kinds
<1> QED
  BY <1>1, CallScheduledNames DEF Close

\* Another close() makes a call of its own.
LEMMA CloseTwiceNames ==
    ASSUME Types, Names, NEW o \in Objects, CloseTwice(o)
    PROVE  Types' /\ Names'
<1>1. draining' \in BOOLEAN /\ decoding' \in {"idle", "reading", "failed"} /\ "again" \in Kinds
  BY DEF CloseTwice, Continue, RunContinuation, PieceEnds, Types, TypeOK, Kinds
<1> QED
  BY <1>1, CallScheduledNames DEF CloseTwice

\* close() of what is destroyed rejects calls and empties a place of the map.
LEMMA CloseDestroyedNames ==
    ASSUME Types, Names, NEW o \in Objects, CloseDestroyed(o)
    PROVE  Types' /\ Names'
<1>1. /\ draining' \in BOOLEAN /\ decoding' \in {"idle", "reading", "failed"}
      /\ o \in destroyed /\ (o \in Channels => stage[o] = "open")
      /\ crashed' \in BOOLEAN /\ channels' = MapWithout({o})
      /\ UNCHANGED <<stage, number, ticks, destroyed, closed, replying, toPeer, toClient, broker, socketOpen>>
  BY DEF CloseDestroyed, Continue, RunContinuation, PieceEnds, Types, TypeOK
<1>2. /\ call \in [Objects -> [Kinds -> {"none", "scheduled", "pending", "resolved", "rejected"}]]
      /\ number \in [Channels -> Numbers \cup {0}]
  BY DEF Types, TypeOK
<1>3. /\ call' \in [Objects -> [Kinds -> {"none", "scheduled", "pending", "resolved", "rejected"}]]
      /\ \A p \in Objects, k \in Kinds :
            \/ call'[p][k] = call[p][k]
            \/ p = o /\ call[p][k] = "pending" /\ call'[p][k] = "rejected"
            \/ p = o /\ k = "again" /\ call[p][k] = "none" /\ call'[p][k] = "resolved"
  <2>1. [k \in Kinds |->
            IF call[o][k] = "pending" THEN "rejected"
            ELSE IF k = "again" /\ call[o][k] = "none" THEN "resolved" ELSE call[o][k]]
            \in [Kinds -> {"none", "scheduled", "pending", "resolved", "rejected"}]
    BY <1>2
  <2> QED
    BY <1>2, <2>1 DEF CloseDestroyed
<1>4. Conn \in Objects /\ "open" \in Kinds /\ "close" \in Kinds /\ "drop" \in Kinds /\ "again" \in Kinds
          /\ Conn \notin Channels /\ Channels \subseteq Objects
  BY ConnectionAssumption DEF Objects, Kinds
<1>5. /\ channels' \in [Numbers -> Channels \cup {None}]
      /\ \A n \in Numbers : channels'[n] = None \/ channels'[n] = channels[n]
  BY <1>1 DEF MapWithout, Types, TypeOK
<1>6. Types'
  <2>1. TypeOK'
    BY <1>1, <1>3, <1>5 DEF Types, TypeOK, broker
  <2> QED
    BY <1>1, <2>1 DEF Types, broker
<1>7. Scheduled'
  BY <1>1, <1>3 DEF Names, Scheduled
<1>8. Numbered'
  <2>1. ASSUME NEW c \in Channels
        PROVE  /\ number[c] = 0 => \A k \in Kinds : call'[c][k] = call[c][k]
               /\ call'[c]["open"] = "none" <=> call[c]["open"] = "none"
    <3>1. number[c] = 0 => stage[c] # "open"
      BY DEF Names, Numbered
    <3> QED
      BY <1>1, <1>3, <1>4, <3>1
  <2>2. \A n \in Numbers : channels'[n] # None => number[channels'[n]] = n
    BY <1>5 DEF Names, Numbered
  <2>3. ASSUME NEW c \in Channels
        PROVE  /\ number[c] = 0 => c \notin destroyed /\ c \notin replying /\ \A k \in Kinds : call'[c][k] = "none"
               /\ number[c] = 0 <=> stage[c] \in {"idle", "asked"} \/ (stage[c] = "failed" /\ call'[c]["open"] = "none")
    BY <2>1 DEF Names, Numbered
  <2>4. (Signed(toPeer, number) /\ Bound(ticks, number)) /\ \A n \in Numbers : session[n].for # None => number[session[n].for] = n
    BY DEF Names, Numbered
  <2> QED
    BY <1>1, <2>2, <2>3, <2>4 DEF Numbered, broker
<1>9. Called'
  <2>1. call'[Conn]["open"] = "none"
    BY <1>3, <1>4 DEF Names, Called
  <2>2. ASSUME NEW c \in Channels
        PROVE  /\ call'[c]["open"] \in {"scheduled", "pending"} => stage[c] = "made"
               /\ stage[c] = "open" => call'[c]["open"] = "resolved"
               /\ stage[c] = "failed" => call'[c]["open"] \in {"none", "rejected"}
               /\ call'[c]["close"] # "none" => c \in Closers /\ call'[c]["open"] = "resolved"
    BY <1>3, <1>4 DEF Names, Called
  <2>3. \A p \in Objects, k \in Kinds : call'[p][k] = "rejected" => p \in destroyed
    BY <1>1, <1>3 DEF Names, Called
  <2>4. \A p \in Objects : call'[p]["drop"] # "none" => p \in destroyed
    BY <1>3, <1>4 DEF Names, Called
  <2> QED
    BY <1>1, <2>1, <2>2, <2>3, <2>4 DEF Called, Names
<1>10. Over'
  BY <1>1, <1>5 DEF Names, Over
<1> QED
  BY <1>6, <1>7, <1>8, <1>9, <1>10 DEF Names

\* A call is made or answered.
LEMMA CallMovedNames ==
    ASSUME Types, Names, NEW o \in Objects, NEW k \in Kinds, NEW e,
           \/ e = "pending" /\ call[o][k] = "scheduled" /\ Head(ticks) = CallJob(o, k)
           \/ e = "resolved" /\ call[o][k] = "pending" /\ Head(ticks).type = "method",
           call' = [call EXCEPT ![o][k] = e],
           ticks # <<>>, ticks' = Tail(ticks), draining' \in BOOLEAN,
           decoding' \in {"idle", "reading", "failed"}, crashed' \in BOOLEAN,
           toPeer' \in Seq(ToPeer), Signed(toPeer', number),
           UNCHANGED <<stage, number, channels, destroyed, closed, replying, toClient, broker, socketOpen>>
    PROVE  Types' /\ Names'
<1>1. ticks \in Seq(Jobs) /\ ticks' \in Seq(Jobs)
  BY HeadJob DEF Types
<1>2. call \in [Objects -> [Kinds -> {"none", "scheduled", "pending", "resolved", "rejected"}]]
  BY DEF Types, TypeOK
<1>3. \A p \in Objects, l \in Kinds : call'[p][l] = IF p = o /\ l = k THEN e ELSE call[p][l]
  BY <1>2
<1>4. TypeOK'
  <2>1. call' \in [Objects -> [Kinds -> {"none", "scheduled", "pending", "resolved", "rejected"}]]
    BY <1>2
  <2> QED
    BY <2>1 DEF Types, TypeOK, broker
<1>5. Types'
  BY <1>1, <1>4 DEF Types, broker
<1>6. /\ \A j : Waits(ticks', j) => Waits(ticks, j)
      /\ \A j : Waits(ticks, j) => j = Head(ticks) \/ Waits(ticks', j)
      /\ \A j : Once(ticks, j) => Once(ticks', j)
      /\ Once(ticks, Head(ticks)) => ~Waits(ticks', Head(ticks))
      /\ Bound(ticks, number) => Bound(ticks', number)
  BY <1>1, JobTaken
<1>7. /\ Head(ticks) = CallJob(o, k) \/ Head(ticks).type = "method"
      /\ e \in {"pending", "resolved"} /\ call[o][k] # "none"
  OBVIOUS
<1>8. ~Waits(ticks', CallJob(o, k))
  BY <1>6 DEF Names, Scheduled
<1>9. Scheduled'
  <2>1. \A p \in Objects, l \in Kinds : Once(ticks', CallJob(p, l)) /\ (Waits(ticks', CallJob(p, l)) <=> call'[p][l] = "scheduled")
    BY <1>3, <1>6, <1>7, <1>8, JobsDiffer DEF Names, Scheduled
  <2>2. \A d \in Channels : Once(ticks', OpenJob(d)) /\ (Waits(ticks', OpenJob(d)) <=> stage'[d] = "asked")
    BY <1>6, <1>7, JobsDiffer DEF Names, Scheduled
  <2> QED
    BY <2>1, <2>2 DEF Scheduled
<1>10. Conn \in Objects /\ "open" \in Kinds /\ "close" \in Kinds /\ "drop" \in Kinds /\ Conn \notin Channels
           /\ Channels \subseteq Objects
  BY ConnectionAssumption DEF Objects, Kinds
<1>11. Numbered'
  <2>1. \A d \in Channels : number[d] = 0 => \A l \in Kinds : call'[d][l] = call[d][l]
    BY <1>3, <1>7, <1>10 DEF Names, Numbered
  <2>2. \A d \in Channels : stage[d] = "failed" => (call'[d]["open"] = "none" <=> call[d]["open"] = "none")
    BY <1>3, <1>7, <1>10
  <2> QED
    BY <1>6, <2>1, <2>2 DEF Names, Numbered, broker
<1>12. Called'
  <2>2. call'[Conn]["open"] = "none"
    BY <1>3, <1>7, <1>10 DEF Names, Called
  <2>3. ASSUME NEW c \in Channels
        PROVE  /\ call'[c]["open"] \in {"scheduled", "pending"} => stage[c] = "made"
               /\ stage[c] = "open" => call'[c]["open"] = "resolved"
               /\ stage[c] = "failed" => call'[c]["open"] \in {"none", "rejected"}
               /\ call'[c]["close"] # "none" => c \in Closers /\ call'[c]["open"] = "resolved"
    BY <1>3, <1>7, <1>10 DEF Names, Called
  <2>4. \A p \in Objects, l \in Kinds : call'[p][l] = "rejected" => p \in destroyed
    BY <1>3, <1>7 DEF Names, Called
  <2>5. \A p \in Objects : call'[p]["drop"] # "none" => p \in destroyed
    BY <1>3, <1>7, <1>10 DEF Names, Called
  <2> QED
    BY <2>2, <2>3, <2>4, <2>5 DEF Called, Names
<1>13. Over'
  BY <1>6, <1>7, JobsDiffer DEF Names, Over, Ended
<1> QED
  BY <1>5, <1>9, <1>11, <1>12, <1>13 DEF Names

\* The tick of a call registers it and writes under the number of its object.
LEMMA CallTickNames ==
    ASSUME Types, Names, NEW o \in Objects, NEW k \in Kinds, CallTick(o, k)
    PROVE  Types' /\ Names' /\ call[o][k] = "scheduled"
<1>1. /\ ticks # <<>> /\ Head(ticks) = CallJob(o, k) /\ draining' \in BOOLEAN
      /\ decoding' \in {"idle", "reading", "failed"} /\ ticks' = Tail(ticks)
  BY DEF CallTick, Tick, RunTick, PieceEnds, Types, TypeOK
<1>2. call[o][k] = "scheduled"
  BY <1>1, JobTaken DEF Names, Scheduled, Types
<1>3. o # Conn => o \in Channels /\ number[o] # 0
  BY <1>2 DEF Names, Numbered, Objects
<1>4. o = Conn => k # "open"
  BY <1>2 DEF Names, Called
<1> DEFINE m == IF k = "open" THEN "open" ELSE "close"
<1>5. Write(o, m)
  BY DEF CallTick
<1>6. IF o = Conn THEN m \in {"close", "close_ok"}
                  ELSE number[o] # 0 /\ m \in {"open", "close", "close_ok", "flow_ok"}
  BY <1>3, <1>4
<1> HIDE DEF m
<1>7. toPeer' \in Seq(ToPeer) /\ Signed(toPeer', number)
  BY <1>5, <1>6, Written DEF Names
<1>8. crashed' \in BOOLEAN
  BY DEF CallTick, Types, TypeOK
<1> QED
  BY <1>1, <1>2, <1>7, <1>8, CallMovedNames DEF CallTick

\* The ticks after a destroy.
LEMMA DestroyedTicks ==
    ASSUME NEW D \in SUBSET Objects, IsFiniteSet(D), NEW closes, NEW rest \in Seq(Jobs),
           DestroyAll(D, closes, rest)
    PROVE  /\ ticks' \in Seq(Jobs)
           /\ \A s : Kept(rest, s, ticks', s)
           /\ Own(rest) => Own(ticks')
           /\ \A w : Bound(rest, w) => Bound(ticks', w)
           /\ \A j : Waits(ticks', j) <=>
                 \/ Waits(rest, j) \/ (j = Ended /\ Conn \in D /\ socketOpen)
                 \/ \E o \in Drops(D, closes) : j = CallJob(o, "drop")
           /\ \A j : Once(rest, j) /\ j # Ended /\ (Waits(rest, j) => \A o \in Drops(D, closes) : j # CallJob(o, "drop"))
                 => Once(ticks', j)
<1> DEFINE Job(o) == CallJob(o, "drop")
           drops == Drops(D, closes)
           J == {Job(o) : o \in drops}
           q == SetToSeq(J)
           e == IF Conn \in D /\ socketOpen THEN <<Ended>> ELSE <<>>
           u == rest \o q
<1>1. ticks' = u \o e
  BY DEF DestroyAll
<1>2. drops \in SUBSET D /\ IsFiniteSet(drops)
  BY FS_Subset DEF Drops
<1>3. IsFiniteSet(J)
  <2> DEFINE f == [o \in drops |-> Job(o)]
  <2>1. f \in Surjection(drops, J)
    BY DEF Surjection
  <2> HIDE DEF f, J, drops
  <2> QED
    BY <1>2, <2>1, FS_Surjection
<1>4. q \in Seq(J) /\ (\A j : Once(q, j)) /\ \A j : Waits(q, j) <=> j \in J
  <2> HIDE DEF J
  <2> QED
    BY <1>3, SetListed
<1>5. J \subseteq Jobs /\ \A j \in J : j.type # "method"
  BY <1>2, JobsDiffer DEF Kinds
<1>6. e \in Seq(Jobs) /\ (\A i \in 1..Len(e) : e[i].type # "method") /\ (\A j : Once(e, j))
      /\ \A j : Waits(e, j) <=> j = Ended /\ Conn \in D /\ socketOpen
  <2>1. Ended \in Jobs /\ Ended.type # "method"
    BY JobsDiffer
  <2>2. CASE Conn \in D /\ socketOpen
    <3>1. e = <<Ended>> /\ Len(e) = 1 /\ e[1] = Ended /\ 1..1 = {1}
      BY <2>2
    <3> HIDE DEF e
    <3>2. e \in Seq(Jobs)
      BY <3>1, <2>1
    <3> QED
      BY <2>1, <2>2, <3>1, <3>2 DEF Once, Waits
  <2>3. CASE ~(Conn \in D /\ socketOpen)
    <3>1. e = <<>> /\ Len(e) = 0 /\ 1..0 = {}
      BY <2>3
    <3> HIDE DEF e
    <3>2. e \in Seq(Jobs)
      BY <3>1
    <3> QED
      BY <2>3, <3>1, <3>2 DEF Once, Waits
  <2> QED
    BY <2>2, <2>3
<1> HIDE DEF e, q, J
<1>7. q \in Seq(Jobs) /\ \A i \in 1..Len(q) : q[i].type # "method"
  BY <1>4, <1>5
<1>8. /\ u \in Seq(Jobs) /\ (\A s : Kept(rest, s, u, s)) /\ (Own(rest) => Own(u))
      /\ \A w : Bound(rest, w) => Bound(u, w)
      /\ \A j : Waits(u, j) <=> Waits(rest, j) \/ Waits(q, j)
      /\ \A j : Once(rest, j) /\ Once(q, j) /\ (~Waits(rest, j) \/ ~Waits(q, j)) => Once(u, j)
  BY <1>7, OthersAdded
<1> HIDE DEF u
<1>9. /\ u \o e \in Seq(Jobs) /\ (\A s : Kept(u, s, u \o e, s)) /\ (Own(u) => Own(u \o e))
      /\ \A w : Bound(u, w) => Bound(u \o e, w)
      /\ \A j : Waits(u \o e, j) <=> Waits(u, j) \/ Waits(e, j)
      /\ \A j : Once(u, j) /\ Once(e, j) /\ (~Waits(u, j) \/ ~Waits(e, j)) => Once(u \o e, j)
  BY <1>6, <1>8, OthersAdded
<1>10. \A j : j \in J <=> \E o \in drops : j = CallJob(o, "drop")
  BY DEF J
<1> HIDE DEF drops
<1>11. \A s : Kept(rest, s, ticks', s)
  BY <1>1, <1>8, <1>9 DEF Kept
<1>12. \A j : Waits(ticks', j) <=>
                 \/ Waits(rest, j) \/ (j = Ended /\ Conn \in D /\ socketOpen)
                 \/ \E o \in drops : j = CallJob(o, "drop")
  BY <1>1, <1>4, <1>6, <1>8, <1>9, <1>10
<1>13. \A j : Once(rest, j) /\ j # Ended /\ (Waits(rest, j) => \A o \in drops : j # CallJob(o, "drop"))
                 => Once(ticks', j)
  <2> SUFFICES ASSUME NEW j, Once(rest, j), j # Ended, Waits(rest, j) => \A o \in drops : j # CallJob(o, "drop")
               PROVE  Once(ticks', j)
    OBVIOUS
  <2>1. Once(u, j)
    BY <1>4, <1>8, <1>10
  <2>2. ~Waits(e, j) /\ Once(e, j)
    BY <1>6
  <2> QED
    BY <1>1, <1>9, <2>1, <2>2
<1> QED
  BY <1>1, <1>8, <1>9, <1>11, <1>12, <1>13 DEF drops

\* Objects are destroyed.
LEMMA DestroyedNames ==
    ASSUME Types, Names, NEW D \in SUBSET Objects, IsFiniteSet(D), \A c \in D \ {Conn} : number[c] # 0,
           NEW closes \in SUBSET (destroyed \cup D), NEW rest,
           \/ rest = ticks
           \/ ticks # <<>> /\ rest = Tail(ticks) /\ Head(ticks).type \in {"method", "ended"},
           DestroyAll(D, closes, rest),
           \/ /\ Conn \notin D /\ UNCHANGED <<socketOpen, toClient>>
              /\ rest = ticks \/ Head(ticks).type = "method"
           \/ /\ Conn \in D /\ \A n \in Numbers : channels[n] # None => channels[n] \in D
              /\ socketOpen' = FALSE /\ toClient' = <<>>,
           replying' \subseteq replying, draining' \in BOOLEAN, decoding' \in {"idle", "reading", "failed"},
           UNCHANGED <<stage, number, toPeer, broker>>
    PROVE  Types' /\ Names'
<1> DEFINE drops == Drops(D, closes)
<1>1. ticks \in Seq(Jobs) /\ rest \in Seq(Jobs)
  <2>1. ticks \in Seq(Jobs)
    BY DEF Types
  <2> QED
    BY <2>1, TailIs
<1>2. /\ \A o, k : CallJob(o, k).type = "call"
      /\ \A c : OpenJob(c).type = "channel_open"
  BY DEF CallJob, OpenJob
<1>3. /\ \A j : Once(ticks, j) => Once(rest, j)
      /\ \A j : Waits(rest, j) => Waits(ticks, j)
      /\ \A j : Waits(ticks, j) => Waits(rest, j) \/ j.type \in {"method", "ended"}
      /\ Bound(ticks, number) => Bound(rest, number)
      /\ rest = ticks \/ Head(ticks).type = "method" => (Waits(ticks, Ended) => Waits(rest, Ended))
  <2>1. CASE rest = ticks
    BY <2>1
  <2>2. CASE ticks # <<>> /\ rest = Tail(ticks) /\ Head(ticks).type \in {"method", "ended"}
    <3>1. Ended.type = "ended"
      BY DEF Ended
    <3>2. /\ \A j : Waits(rest, j) => Waits(ticks, j)
          /\ \A j : Waits(ticks, j) => j = Head(ticks) \/ Waits(rest, j)
          /\ \A j : Once(ticks, j) => Once(rest, j)
          /\ \A w : Bound(ticks, w) => Bound(rest, w)
      BY <1>1, <2>2, JobTaken
    <3>3. rest # ticks
      BY <1>1, <2>2, TailIs
    <3> QED
      BY <2>2, <3>1, <3>2, <3>3
  <2> QED
    BY <2>1, <2>2
<1>4. /\ ticks' \in Seq(Jobs)
      /\ \A w : Bound(rest, w) => Bound(ticks', w)
      /\ \A j : Waits(ticks', j) <=>
                 \/ Waits(rest, j) \/ (j = Ended /\ Conn \in D /\ socketOpen)
                 \/ \E o \in drops : j = CallJob(o, "drop")
      /\ \A j : Once(rest, j) /\ j # Ended /\ (Waits(rest, j) => \A o \in drops : j # CallJob(o, "drop"))
                 => Once(ticks', j)
  BY <1>1, DestroyedTicks
<1>5. drops \subseteq D \ destroyed
  BY DEF Drops
<1> HIDE DEF drops
<1>6. /\ call' = [o \in Objects |-> [k \in Kinds |->
                       IF o \in D /\ call[o][k] = "pending" THEN "rejected"
                       ELSE IF o \in drops /\ k = "drop" THEN "scheduled"
                       ELSE call[o][k]]]
      /\ destroyed' = destroyed \cup D /\ closed' = closes /\ channels' = MapWithout(D)
      /\ crashed' \in BOOLEAN
  BY DEF DestroyAll, drops
<1>7. call \in [Objects -> [Kinds -> {"none", "scheduled", "pending", "resolved", "rejected"}]]
  BY DEF Types, TypeOK
<1>8. \A o \in drops : o \in Objects /\ call[o]["drop"] = "none"
  BY <1>5 DEF Names, Called
<1>9. \A o \in Objects, k \in Kinds :
         call'[o][k] = IF o \in D /\ call[o][k] = "pending" THEN "rejected"
                       ELSE IF o \in drops /\ k = "drop" THEN "scheduled" ELSE call[o][k]
  BY <1>6
<1>10. Conn \in Objects /\ "open" \in Kinds /\ "close" \in Kinds /\ "drop" \in Kinds /\ Conn \notin Channels
           /\ Channels \subseteq Objects
  BY ConnectionAssumption DEF Objects, Kinds
<1>11. /\ channels' \in [Numbers -> Channels \cup {None}]
       /\ \A n \in Numbers : channels'[n] = None \/ channels'[n] = channels[n]
       /\ \A n \in Numbers, c \in D \ {Conn} : number[c] = n => channels'[n] = None
  BY <1>6 DEF MapWithout, Types, TypeOK
<1>12. TypeOK'
  <2>1. call' \in [Objects -> [Kinds -> {"none", "scheduled", "pending", "resolved", "rejected"}]]
    BY <1>6, <1>7
  <2>2. destroyed' \subseteq Objects /\ closed' \subseteq Objects /\ replying' \subseteq Objects
            /\ socketOpen' \in BOOLEAN
    BY <1>6 DEF Types, TypeOK
  <2> QED
    BY <1>6, <1>11, <2>1, <2>2 DEF Types, TypeOK, broker
<1>13. Types'
  <2>1. toClient' \in Seq(ToClient)
    <3>1. <<>> \in Seq(ToClient)
      OBVIOUS
    <3> QED
      BY <3>1 DEF Types
  <2> QED
    BY <1>4, <1>12, <2>1 DEF Types, broker
<1>14. Scheduled'
  <2>1. ASSUME NEW o \in Objects, NEW k \in Kinds
        PROVE  Once(ticks', CallJob(o, k)) /\ (Waits(ticks', CallJob(o, k)) <=> call'[o][k] = "scheduled")
    <3>1. Once(rest, CallJob(o, k)) /\ (Waits(rest, CallJob(o, k)) <=> call[o][k] = "scheduled")
      BY <1>2, <1>3 DEF Names, Scheduled
    <3>2. Waits(ticks', CallJob(o, k)) <=> Waits(rest, CallJob(o, k)) \/ (o \in drops /\ k = "drop")
      BY <1>4, JobsDiffer
    <3>3. Once(ticks', CallJob(o, k))
      BY <1>4, <1>8, <3>1, JobsDiffer
    <3> QED
      BY <1>8, <1>9, <3>1, <3>2, <3>3
  <2>2. ASSUME NEW d \in Channels
        PROVE  Once(ticks', OpenJob(d)) /\ (Waits(ticks', OpenJob(d)) <=> stage'[d] = "asked")
    <3>1. Once(rest, OpenJob(d)) /\ (Waits(rest, OpenJob(d)) <=> stage[d] = "asked")
      BY <1>2, <1>3 DEF Names, Scheduled
    <3> QED
      BY <1>4, <3>1, JobsDiffer
  <2> QED
    BY <2>1, <2>2 DEF Scheduled
<1>15. Numbered'
  <2>1. Signed(toPeer, number) /\ Bound(ticks', number)
    BY <1>3, <1>4 DEF Names, Numbered
  <2>2. ASSUME NEW c \in Channels
        PROVE  /\ number[c] = 0 => c \notin destroyed' /\ c \notin replying' /\ \A k \in Kinds : call'[c][k] = "none"
               /\ number[c] = 0 <=> stage[c] \in {"idle", "asked"} \/ (stage[c] = "failed" /\ call'[c]["open"] = "none")
    <3>1. number[c] = 0 => c \notin D /\ c \notin drops /\ c \notin replying /\ c \notin destroyed /\ \A k \in Kinds : call[c][k] = "none"
      BY <1>5, <1>10 DEF Names, Numbered
    <3>2. call'[c]["open"] = "none" <=> call[c]["open"] = "none"
      BY <1>9, <1>10
    <3> QED
      BY <1>6, <1>9, <1>10, <3>1, <3>2 DEF Names, Numbered
  <2>3. \A n \in Numbers : channels'[n] # None => number[channels'[n]] = n
    BY <1>11 DEF Names, Numbered
  <2> QED
    BY <2>1, <2>2, <2>3 DEF Names, Numbered, broker
<1>16. Called'
  <2>1. call'[Conn]["open"] = "none"
    BY <1>9, <1>10 DEF Names, Called
  <2>2. ASSUME NEW c \in Channels
        PROVE  /\ call'[c]["open"] \in {"scheduled", "pending"} => stage[c] = "made"
               /\ stage[c] = "open" => call'[c]["open"] = "resolved"
               /\ stage[c] = "failed" => call'[c]["open"] \in {"none", "rejected"}
               /\ call'[c]["close"] # "none" => c \in Closers /\ call'[c]["open"] = "resolved"
    BY <1>9, <1>10 DEF Names, Called
  <2>3. \A p \in Objects, l \in Kinds : call'[p][l] = "rejected" => p \in destroyed'
    BY <1>6, <1>9 DEF Names, Called
  <2>4. \A p \in Objects : call'[p]["drop"] # "none" => p \in destroyed'
    BY <1>5, <1>6, <1>9, <1>10 DEF Names, Called
  <2> QED
    BY <1>6, <2>1, <2>2, <2>3, <2>4 DEF Called
<1>17. Over'
  <2>1. CASE Conn \notin D
    <3>1. Waits(ticks, Ended) => Waits(ticks', Ended)
      BY <1>3, <1>4, <2>1
    <3> QED
      BY <1>6, <1>11, <2>1, <3>1 DEF Names, Over
  <2>2. CASE Conn \in D
    <3>1. \A n \in Numbers : channels'[n] = None
      <4> SUFFICES ASSUME NEW n \in Numbers, channels[n] # None
                   PROVE  channels'[n] = None
        BY <1>11
      <4>1. channels[n] \in D \ {Conn} /\ number[channels[n]] = n
        BY <2>2, <1>10 DEF Names, Numbered, Types, TypeOK
      <4> QED
        BY <4>1, <1>11
    <3> QED
      BY <1>6, <2>2, <3>1 DEF Over
  <2> QED
    BY <2>1, <2>2
<1> QED
  BY <1>13, <1>14, <1>15, <1>16, <1>17 DEF Names

\* The objects of a connection that is destroyed.
LEMMA ConnectionObjects ==
    ASSUME Types, Names
    PROVE  LET D == ({channels[n] : n \in Numbers} \ {None}) \cup {Conn} IN
           /\ D \in SUBSET Objects /\ IsFiniteSet(D) /\ Conn \in D
           /\ \A c \in D \ {Conn} : number[c] # 0 /\ channels[number[c]] = c
           /\ \A n \in Numbers : channels[n] # None => channels[n] \in D
<1> DEFINE Named(n) == channels[n]
           R == {Named(n) : n \in Numbers}
           D == (R \ {None}) \cup {Conn}
<1>1. IsFiniteSet(Numbers)
  BY ConnectionAssumption, FS_Interval DEF Numbers
<1>3. channels \in [Numbers -> Channels \cup {None}]
  BY DEF Types, TypeOK
<1>2. IsFiniteSet(R)
  <2>1. channels \in Surjection(Numbers, R)
    BY <1>3 DEF Surjection
  <2> HIDE DEF R
  <2> QED
    BY <1>1, <2>1, FS_Surjection
<1>4. IsFiniteSet(D)
  <2>1. R \ {None} \in SUBSET R
    OBVIOUS
  <2> HIDE DEF R
  <2>2. IsFiniteSet(R \ {None})
    BY <1>2, <2>1, FS_Subset
  <2> QED
    BY <2>2, FS_AddElement
<1>5. \A c \in D \ {Conn} : number[c] # 0 /\ channels[number[c]] = c
  <2> SUFFICES ASSUME NEW n \in Numbers, channels[n] # None
               PROVE  number[channels[n]] # 0 /\ channels[number[channels[n]]] = channels[n]
    OBVIOUS
  <2>1. number[channels[n]] = n
    BY DEF Names, Numbered
  <2> QED
    BY <2>1 DEF Numbers
<1> QED
  BY <1>3, <1>4, <1>5 DEF Objects

\* The end of the connection empties the map.
LEMMA ConnectionDestroyedNames ==
    ASSUME Types, Names, NEW closes \in SUBSET (destroyed \cup {Conn}), NEW rest,
           \/ rest = ticks
           \/ ticks # <<>> /\ rest = Tail(ticks) /\ Head(ticks).type \in {"method", "ended"},
           DestroyConnection(closes, rest), replying' \subseteq replying, draining' \in BOOLEAN,
           decoding' \in {"idle", "reading", "failed"}, UNCHANGED <<stage, number, toPeer, broker>>
    PROVE  Types' /\ Names'
<1> DEFINE D == ({channels[n] : n \in Numbers} \ {None}) \cup {Conn}
<1>1. /\ D \in SUBSET Objects /\ IsFiniteSet(D) /\ Conn \in D /\ closes \in SUBSET (destroyed \cup D)
      /\ \A c \in D \ {Conn} : number[c] # 0
      /\ \A n \in Numbers : channels[n] # None => channels[n] \in D
  BY ConnectionObjects
<1>2. DestroyAll(D, closes, rest) /\ socketOpen' = FALSE /\ toClient' = <<>>
  BY DEF DestroyConnection
<1> HIDE DEF D
<1> QED
  BY <1>1, <1>2, DestroyedNames

\* The end of a channel takes its number out of the map.
LEMMA ChannelDestroyedNames ==
    ASSUME Types, Names, NEW c \in Channels, number[c] # 0, NEW closes \in SUBSET (destroyed \cup {c}), NEW rest,
           \/ rest = ticks
           \/ ticks # <<>> /\ rest = Tail(ticks) /\ Head(ticks).type = "method",
           DestroyChannel(c, closes, rest), replying' \subseteq replying, draining' \in BOOLEAN,
           decoding' \in {"idle", "reading", "failed"}, UNCHANGED <<stage, number, toPeer, broker>>
    PROVE  Types' /\ Names'
<1> DEFINE D == {c}
<1>1. /\ D \in SUBSET Objects /\ IsFiniteSet(D) /\ Conn \notin D /\ closes \in SUBSET (destroyed \cup D)
      /\ \A d \in D \ {Conn} : number[d] # 0
  BY FS_Singleton, ConnectionAssumption DEF Objects
<1>2. DestroyAll(D, closes, rest) /\ UNCHANGED <<socketOpen, toClient>>
  BY DEF DestroyChannel
<1> HIDE DEF D
<1> QED
  BY <1>1, <1>2, DestroyedNames

\* A method is handled, or dropped.
HandleMethod ==
    /\ ticks # <<>> /\ Head(ticks).type = "method"
    /\ LET job == Head(ticks)
       IN  HandleDropped(job) \/ HandleAnswer(job) \/ HandleClose(job) \/ HandleFlow(job) \/ HandleContent(job)

\* A tick, the next frame of the stream or the program of the broker, by which
\* no object changes.
LEMMA FramesMovedNames ==
    ASSUME Types, Names, UNCHANGED <<stage, number, channels, call, destroyed, closed, socketOpen>>,
           replying' = replying \/ \E o \in Objects : replying' = replying \cup {o} /\ o \notin destroyed /\ (o # Conn => number[o] # 0),
           \/ ticks' = ticks
           \/ ticks # <<>> /\ ticks' = Tail(ticks) /\ Head(ticks).type = "method"
           \/ \E e \in Jobs : /\ ticks' = Append(ticks, e) /\ e.type \in {"method", "ended"}
                              /\ e.type = "method" /\ e.o # Conn => number[e.o] # 0,
           toPeer' \in Seq(ToPeer), Signed(toPeer', number), toClient' \in Seq(ToClient),
           ~socketOpen => toClient' = <<>> \/ toClient' = toClient \/ toClient # <<>>,
           \A n \in Numbers : session'[n].for # None => number[session'[n].for] = n,
           \A n \in Numbers : session'[n].state = "closed" <=> session'[n].for = None,
           session' \in [Numbers -> [state : {"closed", "open", "closing"}, for : Channels \cup {None}]],
           draining' \in BOOLEAN, decoding' \in {"idle", "reading", "failed"}, crashed' \in BOOLEAN,
           peer' \in {"open", "closing", "closed"}, contents' \in 0..MaxContent,
           offence' \in {None, "open", "close", "close_ok", "flow_ok"}
    PROVE  Types' /\ Names'
<1>1. ticks \in Seq(Jobs)
  BY DEF Types
<1>2. /\ ticks' \in Seq(Jobs)
      /\ Bound(ticks, number) => Bound(ticks', number)
      /\ Waits(ticks, Ended) => Waits(ticks', Ended)
  <2>1. CASE ticks' = ticks
    BY <1>1, <2>1
  <2>2. CASE ticks # <<>> /\ ticks' = Tail(ticks) /\ Head(ticks).type = "method"
    <3>1. Ended.type = "ended"
      BY DEF Ended
    <3>2. Tail(ticks) \in Seq(Jobs)
      BY <1>1, <2>2, TailIs
    <3> QED
      BY <1>1, <2>2, <3>1, <3>2, JobTaken
  <2>3. CASE \E e \in Jobs : /\ ticks' = Append(ticks, e) /\ e.type \in {"method", "ended"}
                             /\ e.type = "method" /\ e.o # Conn => number[e.o] # 0
    BY <1>1, <2>3, JobAdded, AppendIs
  <2> QED
    BY <2>1, <2>2, <2>3
<1>3. replying' \subseteq Objects
  BY DEF Types, TypeOK
<1>4. TypeOK'
  BY <1>3 DEF Types, TypeOK
<1>5. Types'
  BY <1>2, <1>4 DEF Types
<1>6. Scheduled'
  BY ScheduledKept DEF Names
<1>7. Numbered'
  BY <1>2, ConnectionAssumption DEF Names, Numbered
<1>8. Called'
  BY DEF Names, Called
<1>9. Over'
  BY <1>2 DEF Names, Over
<1> QED
  BY <1>5, <1>6, <1>7, <1>8, <1>9 DEF Names

\* A decoded method belongs to an object with a number.
LEMMA DecodeNames ==
    ASSUME Types, Names, Decode
    PROVE  Types' /\ Names'
<1> DEFINE f == Head(toClient)
<1>1. /\ toClient # <<>> /\ toClient' = Tail(toClient) /\ draining' \in BOOLEAN
             /\ decoding' \in {"idle", "reading", "failed"}
      /\ \/ ticks' = Append(ticks, Ended)
         \/ Target(f) # None /\ ticks' = Append(ticks, [type |-> "method", o |-> Target(f), m |-> f.m, for |-> f.for])
  BY DEF Decode, Turn, BeginTurn, Types, TypeOK
<1>2. /\ Tail(toClient) \in Seq(ToClient) /\ f.m \in Methods /\ f.for \in Objects
      /\ \/ f.n = 0 /\ f.for = Conn /\ f.m \in {"close", "close_ok"}
         \/ f.n \in Numbers /\ f.n # 0 /\ f.for \in Channels
  BY <1>1, HeadFrame
<1> HIDE DEF f
<1>3. \E e \in Jobs : /\ ticks' = Append(ticks, e) /\ e.type \in {"method", "ended"}
                      /\ e.type = "method" /\ e.o # Conn => number[e.o] # 0
  <2>1. CASE ticks' = Append(ticks, Ended)
    BY <2>1, JobsDiffer DEF Ended
  <2>2. CASE Target(f) # None /\ ticks' = Append(ticks, [type |-> "method", o |-> Target(f), m |-> f.m, for |-> f.for])
    <3> DEFINE e == [type |-> "method", o |-> Target(f), m |-> f.m, for |-> f.for]
    <3>1. /\ \/ Target(f) = Conn /\ f.for = Conn /\ f.m \in {"close", "close_ok"}
             \/ Target(f) \in Channels /\ f.for \in Channels
          /\ Target(f) # Conn => number[Target(f)] # 0
      <4>1. CASE f.n = 0
        BY <1>2, <4>1 DEF Target, Numbers
      <4>2. CASE f.n \in Numbers /\ f.n # 0
        BY <1>2, <2>2, <4>2 DEF Target, Types, TypeOK, Names, Numbered, Numbers
      <4> QED
        BY <1>2, <4>1, <4>2
    <3>2. e \in Jobs /\ e.type = "method" /\ e.o = Target(f)
      BY <1>2, <3>1 DEF Jobs
    <3> HIDE DEF e
    <3>3. ticks' = Append(ticks, e)
      BY <2>2 DEF e
    <3> QED
      BY <3>1, <3>2, <3>3
  <2> QED
    BY <1>1, <2>1, <2>2
<1>4. /\ toPeer' \in Seq(ToPeer) /\ Signed(toPeer', number)
      /\ \A n \in Numbers : session'[n].for # None => number[session'[n].for] = n
      /\ \A n \in Numbers : session'[n].state = "closed" <=> session'[n].for = None
      /\ session' \in [Numbers -> [state : {"closed", "open", "closing"}, for : Channels \cup {None}]]
      /\ crashed' \in BOOLEAN /\ peer' \in {"open", "closing", "closed"} /\ contents' \in 0..MaxContent
      /\ offence' \in {None, "open", "close", "close_ok", "flow_ok"}
      /\ UNCHANGED <<stage, number, channels, call, destroyed, closed, replying, socketOpen>>
  BY DEF Types, TypeOK, Names, Numbered, Decode, objects, broker
<1> QED
  BY <1>1, <1>2, <1>3, <1>4, FramesMovedNames

\* The handlers of the methods.
LEMMA HandleMethodNames ==
    ASSUME Types, Names, HandleMethod
    PROVE  Types' /\ Names'
<1> DEFINE job == Head(ticks)
<1>1. /\ ticks # <<>> /\ job.type = "method" /\ job.o \in Objects
      /\ job.o # Conn => job.o \in Channels /\ number[job.o] # 0
  <2>1. ticks \in Seq(Jobs) /\ Bound(ticks, number)
    BY DEF Types, Names, Numbered
  <2>2. ticks # <<>> /\ job.type = "method"
    BY DEF HandleMethod
  <2>3. job.o # Conn => number[job.o] # 0
    BY <2>1, <2>2, JobTaken
  <2>4. job.o \in Objects
    BY <2>2, HeadJob
  <2> QED
    BY <2>2, <2>3, <2>4 DEF Objects
<1>2. HandleDropped(job) \/ HandleAnswer(job) \/ HandleClose(job) \/ HandleFlow(job) \/ HandleContent(job)
  BY DEF HandleMethod
<1> HIDE DEF job
<1>3. /\ session \in [Numbers -> [state : {"closed", "open", "closing"}, for : Channels \cup {None}]]
      /\ \A n \in Numbers : session[n].for # None => number[session[n].for] = n
      /\ \A n \in Numbers : session[n].state = "closed" <=> session[n].for = None
      /\ crashed \in BOOLEAN /\ peer \in {"open", "closing", "closed"} /\ contents \in 0..MaxContent
      /\ offence \in {None, "open", "close", "close_ok", "flow_ok"}
      /\ toPeer \in Seq(ToPeer) /\ Signed(toPeer, number) /\ toClient \in Seq(ToClient)
      /\ decoding \in {"idle", "reading", "failed"} /\ socketOpen \in BOOLEAN
  BY DEF Types, TypeOK, Names, Numbered
<1>4. Tick(job) => draining' \in BOOLEAN /\ decoding' \in {"idle", "reading", "failed"}
  BY <1>3 DEF Tick, RunTick, PieceEnds
<1>5. CASE HandleDropped(job)
  BY <1>1, <1>3, <1>4, <1>5, FramesMovedNames DEF HandleDropped, objects, broker, job
<1>6. CASE HandleAnswer(job)
  <2>1. CASE UNCHANGED call
    BY <1>1, <1>3, <1>4, <1>6, <2>1, FramesMovedNames DEF HandleAnswer, objects, broker, job
  <2>2. CASE \E k \in Answers(job) : call' = [call EXCEPT ![job.o][k] = "resolved"] /\ UNCHANGED crashed
    <3>1. PICK k \in Answers(job) : call' = [call EXCEPT ![job.o][k] = "resolved"] /\ UNCHANGED crashed
      BY <2>2
    <3>2. k \in Kinds /\ call[job.o][k] = "pending"
      BY <3>1 DEF Answers
    <3> QED
      BY <1>1, <1>3, <1>4, <1>6, <3>1, <3>2, CallMovedNames DEF HandleAnswer, job
  <2> QED
    BY <1>6, <2>1, <2>2 DEF HandleAnswer
<1>7. CASE HandleClose(job)
  <2>1. toPeer' \in Seq(ToPeer) /\ Signed(toPeer', number)
    BY <1>1, <1>7, Written DEF HandleClose, Names
  <2> QED
    BY <1>1, <1>3, <1>4, <1>7, <2>1, FramesMovedNames DEF HandleClose, broker, job
<1>8. CASE HandleFlow(job)
  <2>1. job.o # Conn
    <3>1. job.m = "flow"
      BY <1>8 DEF HandleFlow
    <3> QED
      BY <1>1, <3>1, HeadJob DEF job
  <2>2. toPeer' \in Seq(ToPeer) /\ Signed(toPeer', number)
    BY <1>1, <1>8, <2>1, Written DEF HandleFlow, Names
  <2> QED
    BY <1>1, <1>3, <1>4, <1>8, <2>2, FramesMovedNames DEF HandleFlow, broker, job
<1>9. CASE HandleContent(job)
  <2>1. CASE UNCHANGED <<call, destroyed, closed, channels, socketOpen, toClient, crashed>> /\ ticks' = Tail(ticks)
    BY <1>1, <1>3, <1>4, <1>9, <2>1, FramesMovedNames DEF HandleContent, broker, job
  <2>2. CASE job.o \in Destroyers /\ DestroyChannel(job.o, closed, Tail(ticks))
    <3>1. job.o \in Channels /\ number[job.o] # 0
      BY <1>1, <2>2, ConnectionAssumption
    <3>2. closed \in SUBSET (destroyed \cup {job.o})
      BY DEF Names, Called
    <3> QED
      BY <1>1, <1>3, <1>4, <1>9, <2>2, <3>1, <3>2, ChannelDestroyedNames DEF HandleContent, broker, job
  <2> QED
    BY <1>9, <2>1, <2>2 DEF HandleContent
<1> QED
  BY <1>2, <1>5, <1>6, <1>7, <1>8, <1>9

\* Every action that destroys.
LEMMA DestructionNames ==
    ASSUME Types, Names,
           \/ \E c \in Channels : CloseOkWritten(c) \/ Destroy(c)
           \/ ConnectionCloseContinues
           \/ StreamEnds
           \/ \E o \in Objects : CloseReturns(o)
    PROVE  Types' /\ Names'
<1>1. /\ closed \subseteq destroyed /\ decoding \in {"idle", "reading", "failed"} /\ draining \in BOOLEAN
      /\ Conn \notin Channels /\ Objects = Channels \cup {Conn}
  BY ConnectionAssumption DEF Types, TypeOK, Names, Called, Objects
<1>2. ASSUME NEW c \in Channels, CloseOkWritten(c)
      PROVE  Types' /\ Names'
  <2>1. /\ number[c] # 0 /\ draining' \in BOOLEAN /\ decoding' \in {"idle", "reading", "failed"}
        /\ replying' \subseteq replying
    BY <1>1, <1>2 DEF CloseOkWritten, Turn, BeginTurn, PieceEnds, Names, Numbered
  <2>2. CASE DestroyChannel(c, closed, ticks)
    BY <1>1, <1>2, <2>1, <2>2, ChannelDestroyedNames DEF CloseOkWritten
  <2>3. CASE UNCHANGED <<call, ticks, destroyed, closed, channels, socketOpen, toClient>> /\ crashed' = TRUE
    <3>1. UNCHANGED <<stage, number, toPeer, broker>> /\ replying' = replying \ {c}
      BY <1>2 DEF CloseOkWritten
    <3>2. TypeOK'
      BY <2>1, <2>3, <3>1 DEF Types, TypeOK, broker
    <3>3. Types'
      BY <2>3, <3>1, <3>2 DEF Types, broker
    <3>4. Scheduled' /\ Called' /\ Over'
      BY <2>3, <3>1 DEF Names, Scheduled, Called, Over
    <3>5. Numbered'
      BY <2>3, <3>1 DEF Names, Numbered, broker
    <3> QED
      BY <3>3, <3>4, <3>5 DEF Names
  <2> QED
    BY <1>2, <2>2, <2>3 DEF CloseOkWritten
<1>3. ASSUME NEW c \in Channels, Destroy(c)
      PROVE  Types' /\ Names'
  <2>1. number[c] # 0 /\ draining' \in BOOLEAN /\ decoding' \in {"idle", "reading", "failed"}
    BY <1>1, <1>3 DEF Destroy, Continue, RunContinuation, PieceEnds, Names, Numbered
  <2> QED
    BY <1>1, <1>3, <2>1, ChannelDestroyedNames DEF Destroy
<1>4. ASSUME ConnectionCloseContinues
      PROVE  Types' /\ Names'
  BY <1>1, <1>4, ConnectionDestroyedNames DEF ConnectionCloseContinues, Continue, RunContinuation, PieceEnds
<1>5. ASSUME StreamEnds
      PROVE  Types' /\ Names'
  <2>1. /\ ticks # <<>> /\ Head(ticks) = Ended /\ Ended.type = "ended" /\ draining' \in BOOLEAN
        /\ decoding' \in {"idle", "reading", "failed"}
    BY <1>1, <1>5 DEF StreamEnds, Tick, RunTick, PieceEnds, Ended
  <2>2. CASE DestroyConnection(closed, Tail(ticks))
    BY <1>1, <1>5, <2>1, <2>2, ConnectionDestroyedNames DEF StreamEnds
  <2>3. CASE /\ Conn \in destroyed /\ ticks' = Tail(ticks)
             /\ UNCHANGED <<call, destroyed, closed, channels, crashed, socketOpen, toClient>>
    <3>1. UNCHANGED <<stage, number, replying, toPeer, broker>>
      BY <1>5 DEF StreamEnds
    <3>2. ticks' \in Seq(Jobs) /\ (Bound(ticks, number) => Bound(ticks', number))
      BY <2>1, <2>3, JobTaken, TailIs DEF Types
    <3>3. TypeOK'
      BY <2>1, <2>3, <3>1 DEF Types, TypeOK, broker
    <3>4. Types'
      BY <2>3, <3>1, <3>2, <3>3 DEF Types, broker
    <3>5. Called' /\ Over'
      BY <2>3, <3>1 DEF Names, Called, Over
    <3>6. Numbered'
      BY <2>3, <3>1, <3>2 DEF Names, Numbered, broker
    <3>7. Scheduled'
      BY <2>1, <2>3, <3>1, ScheduledKept DEF Names
    <3> QED
      BY <3>4, <3>5, <3>6, <3>7 DEF Names
  <2> QED
    BY <1>5, <2>2, <2>3 DEF StreamEnds
<1>6. ASSUME NEW o \in Objects, CloseReturns(o)
      PROVE  Types' /\ Names'
  <2>1. draining' \in BOOLEAN /\ decoding' \in {"idle", "reading", "failed"}
    BY <1>1, <1>6 DEF CloseReturns, Continue, RunContinuation, PieceEnds
  <2>2. CASE o = Conn
    BY <1>1, <1>6, <2>1, <2>2, ConnectionDestroyedNames DEF CloseReturns
  <2>3. CASE o # Conn
    <3>1. o \in Channels /\ number[o] # 0
      BY <1>1, <1>6, <2>3 DEF CloseReturns, Resolved, Names, Numbered, Kinds
    <3> QED
      BY <1>1, <1>6, <2>1, <2>3, <3>1, ChannelDestroyedNames DEF CloseReturns
  <2> QED
    BY <2>2, <2>3
<1> QED
  BY <1>2, <1>3, <1>4, <1>5, <1>6

\* When the socket fails, the connection is bound to learn it.
LEMMA SocketFailsNames ==
    ASSUME Types, Names, SocketFails
    PROVE  Types' /\ Names'
<1>1. /\ ticks' = Append(ticks, Ended) /\ toClient' = <<>> /\ toPeer' = <<>> /\ socketOpen' = FALSE /\ crashed' = crashed
      /\ UNCHANGED objects /\ UNCHANGED broker
      /\ draining' \in BOOLEAN /\ decoding' \in {"idle", "reading", "failed"}
  BY DEF SocketFails, Turn, BeginTurn, PieceEnds, Types, TypeOK
<1>2. ticks \in Seq(Jobs) /\ Ended \in Jobs /\ Ended.type = "ended"
  BY JobsDiffer DEF Types, Ended
<1>3. Waits(ticks', Ended) /\ ticks' \in Seq(Jobs) /\ (Bound(ticks, number) => Bound(ticks', number))
  BY <1>1, <1>2, JobAdded, AppendIs
<1>4. toClient' \in Seq(ToClient) /\ toPeer' \in Seq(ToPeer) /\ Len(toPeer') = 0 /\ 1..0 = {}
  BY <1>1
<1>5. TypeOK'
  BY <1>1 DEF Types, TypeOK, objects, broker
<1>6. Types'
  BY <1>1, <1>3, <1>4, <1>5 DEF Types, broker
<1>7. Scheduled'
  <2>1. \E e \in Jobs : ticks' = Append(ticks, e) /\ e.type \in {"method", "ended"}
    BY <1>1, <1>2
  <2>2. UNCHANGED <<call, stage>>
    BY <1>1 DEF objects
  <2> QED
    BY <2>1, <2>2, ScheduledKept DEF Names
<1>8. Numbered'
  <2>1. Signed(toPeer', number)
    BY <1>4 DEF Signed
  <2> QED
    BY <1>1, <1>3, <2>1 DEF Names, Numbered, objects, broker
<1>9. Called'
  BY <1>1 DEF Names, Called, objects
<1>10. Over'
  BY <1>1, <1>3 DEF Names, Over, objects
<1> QED
  BY <1>6, <1>7, <1>8, <1>9, <1>10 DEF Names

\* What the broker sends.
LEMMA Sending ==
    ASSUME Types, NEW f \in ToClient, Send(<<f>>)
    PROVE  /\ toClient' \in Seq(ToClient)
           /\ socketOpen => toClient' = Append(toClient, f)
           /\ ~socketOpen => toClient' = toClient
<1>1. toClient \in Seq(ToClient) /\ toClient \o <<f>> = Append(toClient, f)
  BY DEF Types
<1> QED
  BY <1>1, AppendIs DEF Send

\* What the broker does with a frame.
LEMMA PeerReadsHow ==
    ASSUME Types, PeerReads
    PROVE  LET f == Head(toPeer) IN
           /\ toPeer # <<>> /\ toPeer' = Tail(toPeer)
           /\ UNCHANGED <<objects, ticks, draining, decoding, contents, socketOpen, crashed>>
           /\ \/ /\ f.n # 0 /\ peer = "open" /\ f.m = "open" /\ session[f.n].state = "closed"
                 /\ session' = [session EXCEPT ![f.n] = [state |-> "open", for |-> f.for]]
                 /\ Send(<<[n |-> f.n, m |-> "open_ok", for |-> f.for]>>) /\ UNCHANGED <<peer, offence>>
              \/ /\ f.n # 0 /\ peer = "open" /\ f.m = "close" /\ session[f.n].state # "closed"
                 /\ \/ session[f.n].state = "open" /\ session' = [session EXCEPT ![f.n] = NoSession]
                    \/ session[f.n].state = "closing" /\ session' = session
                 /\ Send(<<[n |-> f.n, m |-> "close_ok", for |-> f.for]>>) /\ UNCHANGED <<peer, offence>>
              \/ /\ f.n # 0 /\ peer = "open" /\ f.m = "close_ok" /\ session[f.n].state = "closing"
                 /\ session' = [session EXCEPT ![f.n] = NoSession]
                 /\ UNCHANGED <<peer, offence, toClient>>
              \/ /\ f.n # 0 /\ peer = "open" /\ f.m = "flow_ok" /\ session[f.n].state # "closed"
                 /\ UNCHANGED <<session, peer, offence, toClient>>
              \/ /\ f.n # 0 /\ peer = "open" /\ offence' = f.m /\ peer' = "closing" /\ session' = session
                 /\ Send(<<[n |-> 0, m |-> "close", for |-> Conn]>>)
                 /\ f.m \in {"open", "close", "close_ok", "flow_ok"}
                 /\ f.m = "open" => session[f.n].state # "closed"
                 /\ f.m \in {"close", "flow_ok"} => session[f.n].state = "closed"
              \/ /\ f.n = 0 /\ f.m = "close" /\ peer' = "closed" /\ UNCHANGED <<session, offence>>
                 /\ Send(<<[n |-> 0, m |-> "close_ok", for |-> Conn]>>)
              \/ /\ f.n = 0 /\ f.m # "close" /\ peer' = "closed" /\ UNCHANGED <<session, offence, toClient>>
              \/ /\ peer # "open" /\ UNCHANGED <<session, peer, offence, toClient>>
<1> DEFINE f == Head(toPeer)
<1>1. /\ toPeer # <<>> /\ toPeer' = Tail(toPeer)
      /\ UNCHANGED <<objects, ticks, draining, decoding, contents, socketOpen, crashed>>
      /\ \/ f.n # 0 /\ peer = "open" /\ PeerChannel(f)
         \/ f.n = 0 /\ peer # "closed" /\ PeerConnection(f)
         \/ /\ peer = "closed" \/ (f.n # 0 /\ peer # "open")
            /\ UNCHANGED <<session, peer, offence, toClient>>
  BY DEF PeerReads
<1>2. \/ f.n = 0 /\ f.for = Conn /\ f.m \in {"close", "close_ok"}
      \/ f.n \in Numbers /\ f.n # 0 /\ f.m \in {"open", "close", "close_ok", "flow_ok"}
  BY <1>1, HeadRequest
<1>3. session \in [Numbers -> [state : {"closed", "open", "closing"}, for : Channels \cup {None}]]
  BY DEF Types, TypeOK
<1> HIDE DEF f
<1>4. CASE f.n # 0 /\ peer = "open" /\ PeerChannel(f)
  <2>1. session[f.n].state \in {"closed", "open", "closing"} /\ [session EXCEPT ![f.n] = session[f.n]] = session
    BY <1>2, <1>3, <1>4
  <2> QED
    BY <1>1, <1>2, <1>4, <2>1 DEF PeerChannel, Reply, Exception, f
<1>5. CASE f.n = 0 /\ peer # "closed" /\ PeerConnection(f)
  BY <1>1, <1>2, <1>5 DEF PeerConnection, Reply, f
<1>6. CASE (peer = "closed" \/ (f.n # 0 /\ peer # "open")) /\ UNCHANGED <<session, peer, offence, toClient>>
  BY <1>1, <1>6 DEF f
<1> QED
  BY <1>1, <1>4, <1>5, <1>6

\* The broker opens a channel under the number that the request carries.
LEMMA PeerReadsNames ==
    ASSUME Types, Names, PeerReads
    PROVE  Types' /\ Names'
<1> DEFINE f == Head(toPeer)
<1>1. /\ toPeer # <<>> /\ toPeer' = Tail(toPeer)
      /\ UNCHANGED <<objects, ticks, draining, decoding, contents, socketOpen, crashed>>
  BY PeerReadsHow
<1>2. /\ Tail(toPeer) \in Seq(ToPeer)
      /\ \/ f.n = 0 /\ f.for = Conn /\ f.m \in {"close", "close_ok"}
         \/ f.n \in Numbers /\ f.n # 0 /\ f.for \in Channels /\ f.m \in {"open", "close", "close_ok", "flow_ok"}
  BY <1>1, HeadRequest
<1>3. Signed(toPeer', number) /\ (f.for # Conn => f.n = number[f.for])
  BY <1>1, RequestTaken DEF Types, Names, Numbered
<1>4. /\ session \in [Numbers -> [state : {"closed", "open", "closing"}, for : Channels \cup {None}]]
      /\ \A n \in Numbers : session[n].for # None => number[session[n].for] = n
      /\ \A n \in Numbers : session[n].state = "closed" <=> session[n].for = None
      /\ draining \in BOOLEAN
      /\ crashed \in BOOLEAN /\ peer \in {"open", "closing", "closed"} /\ contents \in 0..MaxContent
      /\ offence \in {None, "open", "close", "close_ok", "flow_ok"}
      /\ toClient \in Seq(ToClient) /\ decoding \in {"idle", "reading", "failed"}
      /\ Conn \notin Channels /\ None \notin Channels
  BY ConnectionAssumption DEF Types, TypeOK, Names, Numbered
<1>5. /\ \/ toClient' = toClient
         \/ \E e \in ToClient : Send(<<e>>)
      /\ \/ session' = session
         \/ f.n \in Numbers /\ session' = [session EXCEPT ![f.n] = NoSession]
         \/ f.n \in Numbers /\ session' = [session EXCEPT ![f.n] = [state |-> "open", for |-> f.for]]
      /\ peer' \in {"open", "closing", "closed"} /\ offence' \in {None, "open", "close", "close_ok", "flow_ok"}
  <2>1. [n |-> 0, m |-> "close", for |-> Conn] \in ToClient /\ [n |-> 0, m |-> "close_ok", for |-> Conn] \in ToClient
    BY DEF ToClient
  <2>2. f.n # 0 => [n |-> f.n, m |-> "open_ok", for |-> f.for] \in ToClient /\ [n |-> f.n, m |-> "close_ok", for |-> f.for] \in ToClient
    BY <1>2 DEF ToClient, Methods
  <2> QED
    BY <1>2, <1>4, <2>1, <2>2, PeerReadsHow
<1> HIDE DEF f
<1>6. toClient' \in Seq(ToClient) /\ (~socketOpen => toClient' = toClient)
  BY <1>4, <1>5, Sending
<1>7. /\ \A n \in Numbers : session'[n].for # None => number[session'[n].for] = n
      /\ \A n \in Numbers : session'[n].state = "closed" <=> session'[n].for = None
      /\ session' \in [Numbers -> [state : {"closed", "open", "closing"}, for : Channels \cup {None}]]
  <2>1. CASE session' = session
    BY <1>4, <2>1
  <2>2. CASE f.n \in Numbers /\ session' = [session EXCEPT ![f.n] = NoSession]
    BY <1>4, <2>2 DEF NoSession
  <2>3. CASE f.n \in Numbers /\ session' = [session EXCEPT ![f.n] = [state |-> "open", for |-> f.for]]
    <3>1. f.for \in Channels /\ number[f.for] = f.n
      BY <1>2, <1>3, <1>4, <2>3 DEF Numbers
    <3> QED
      BY <1>4, <2>3, <3>1
  <2> QED
    BY <1>5, <2>1, <2>2, <2>3
<1> QED
  BY <1>1, <1>2, <1>3, <1>4, <1>5, <1>6, <1>7, FramesMovedNames DEF objects

\* What the broker does of itself.
LEMMA PeerSendsHow ==
    ASSUME Types, PeerSends
    PROVE  /\ peer = "open" /\ socketOpen
           /\ UNCHANGED <<objects, ticks, draining, decoding, toPeer, offence, socketOpen, crashed>>
           /\ \/ \E n \in Numbers, m \in {"content", "flow"} :
                    /\ session[n].state = "open" /\ session[n].for \in Channels
                    /\ toClient' = Append(toClient, [n |-> n, m |-> m, for |-> session[n].for])
                    /\ contents' \in 0..MaxContent /\ UNCHANGED <<session, peer>>
              \/ \E n \in Numbers :
                    /\ session[n].state = "open" /\ session[n].for \in PeerCloses
                    /\ toClient' = Append(toClient, [n |-> n, m |-> "close", for |-> session[n].for])
                    /\ session' = [session EXCEPT ![n].state = "closing"] /\ UNCHANGED <<contents, peer>>
              \/ /\ toClient' = Append(toClient, [n |-> 0, m |-> "close", for |-> Conn])
                 /\ peer' = "closing" /\ UNCHANGED <<session, contents>>
<1>1. /\ peer = "open" /\ socketOpen
      /\ UNCHANGED <<objects, ticks, draining, decoding, toPeer, offence, socketOpen, crashed>>
  BY DEF PeerSends
<1>2. \A e : Send(<<e>>) => toClient' = Append(toClient, e)
  BY <1>1 DEF Types, Send
<1>3. contents \in Nat /\ contents <= MaxContent /\ MaxContent \in Nat
  BY ConnectionAssumption DEF Types, TypeOK
<1>4. contents < MaxContent => contents + 1 \in 0..MaxContent
  BY <1>3
<1>5. \A n \in Numbers : session[n].state = "open" => session[n].for \in Channels
  BY DEF Types, TypeOK
<1>6. CASE \E n \in Numbers :
             /\ session[n].state = "open"
             /\ \/ /\ contents < MaxContent
                   /\ contents' = contents + 1
                   /\ \E m \in {"content", "flow"} : Send(<<[n |-> n, m |-> m, for |-> session[n].for]>>)
                   /\ UNCHANGED <<session, peer>>
                \/ /\ session[n].for \in PeerCloses
                   /\ session' = [session EXCEPT ![n].state = "closing"]
                   /\ Send(<<[n |-> n, m |-> "close", for |-> session[n].for]>>)
                   /\ UNCHANGED <<contents, peer>>
  <2>1. PICK n \in Numbers :
             /\ session[n].state = "open"
             /\ \/ /\ contents < MaxContent
                   /\ contents' = contents + 1
                   /\ \E m \in {"content", "flow"} : Send(<<[n |-> n, m |-> m, for |-> session[n].for]>>)
                   /\ UNCHANGED <<session, peer>>
                \/ /\ session[n].for \in PeerCloses
                   /\ session' = [session EXCEPT ![n].state = "closing"]
                   /\ Send(<<[n |-> n, m |-> "close", for |-> session[n].for]>>)
                   /\ UNCHANGED <<contents, peer>>
    BY <1>6
  <2>2. CASE contents < MaxContent /\ contents' = contents + 1
    <3>1. PICK m \in {"content", "flow"} : Send(<<[n |-> n, m |-> m, for |-> session[n].for]>>)
      BY <1>2, <1>3, <2>1, <2>2
    <3>2. UNCHANGED <<session, peer>> /\ contents' \in 0..MaxContent /\ session[n].for \in Channels
      BY <1>3, <1>4, <1>5, <2>1, <2>2
    <3>3. toClient' = Append(toClient, [n |-> n, m |-> m, for |-> session[n].for])
      BY <1>2, <3>1
    <3>4. \E a \in Numbers, b \in {"content", "flow"} :
             /\ session[a].state = "open" /\ session[a].for \in Channels
             /\ toClient' = Append(toClient, [n |-> a, m |-> b, for |-> session[a].for])
             /\ contents' \in 0..MaxContent /\ UNCHANGED <<session, peer>>
      <4> WITNESS n \in Numbers, m \in {"content", "flow"}
      <4> QED
        BY <2>1, <3>2, <3>3
    <3> QED
      BY <1>1, <3>4
  <2>3. CASE session' = [session EXCEPT ![n].state = "closing"] /\ contents' = contents
    <3>1. session[n].for \in PeerCloses /\ Send(<<[n |-> n, m |-> "close", for |-> session[n].for]>>) /\ peer' = peer
      BY <1>3, <2>1, <2>3
    <3>2. toClient' = Append(toClient, [n |-> n, m |-> "close", for |-> session[n].for])
      BY <1>2, <3>1
    <3>3. \E a \in Numbers :
                    /\ session[a].state = "open" /\ session[a].for \in PeerCloses
                    /\ toClient' = Append(toClient, [n |-> a, m |-> "close", for |-> session[a].for])
                    /\ session' = [session EXCEPT ![a].state = "closing"] /\ UNCHANGED <<contents, peer>>
      <4> WITNESS n \in Numbers
      <4> QED
        BY <2>1, <2>3, <3>1, <3>2
    <3> QED
      BY <1>1, <3>3
  <2> QED
    BY <2>1, <2>2, <2>3
<1>7. CASE /\ peer' = "closing"
           /\ Send(<<[n |-> 0, m |-> "close", for |-> Conn]>>)
           /\ UNCHANGED <<session, contents>>
  BY <1>1, <1>2, <1>7
<1> QED
  BY <1>6, <1>7 DEF PeerSends

\* The broker sends under the numbers of its channels.
LEMMA PeerSendsNames ==
    ASSUME Types, Names, PeerSends
    PROVE  Types' /\ Names'
<1>1. /\ peer = "open" /\ socketOpen
      /\ UNCHANGED <<objects, ticks, draining, decoding, toPeer, offence, socketOpen, crashed>>
  BY PeerSendsHow
<1>2. /\ session \in [Numbers -> [state : {"closed", "open", "closing"}, for : Channels \cup {None}]]
      /\ \A n \in Numbers : session[n].for # None => number[session[n].for] = n
      /\ \A n \in Numbers : session[n].state = "closed" <=> session[n].for = None
      /\ draining \in BOOLEAN
      /\ crashed \in BOOLEAN /\ peer \in {"open", "closing", "closed"} /\ contents \in 0..MaxContent
      /\ offence \in {None, "open", "close", "close_ok", "flow_ok"}
      /\ toClient \in Seq(ToClient) /\ decoding \in {"idle", "reading", "failed"}
      /\ toPeer \in Seq(ToPeer) /\ Signed(toPeer, number)
      /\ PeerCloses \subseteq Channels
  BY ConnectionAssumption DEF Types, TypeOK, Names, Numbered
<1>3. /\ \E e \in ToClient : toClient' = Append(toClient, e)
      /\ \/ session' = session
         \/ \E n \in Numbers : session[n].state = "open" /\ session' = [session EXCEPT ![n].state = "closing"]
      /\ peer' \in {"open", "closing", "closed"} /\ contents' \in 0..MaxContent
  <2>1. [n |-> 0, m |-> "close", for |-> Conn] \in ToClient
    BY DEF ToClient
  <2>2. \A n \in Numbers, m \in {"content", "flow", "close"}, c \in Channels : [n |-> n, m |-> m, for |-> c] \in ToClient
    BY DEF ToClient, Methods
  <2> QED
    BY <1>2, <2>1, <2>2, PeerSendsHow
<1>4. toClient' \in Seq(ToClient)
  BY <1>2, <1>3, AppendIs
<1>5. /\ \A n \in Numbers : session'[n].for # None => number[session'[n].for] = n
      /\ \A n \in Numbers : session'[n].state = "closed" <=> session'[n].for = None
      /\ session' \in [Numbers -> [state : {"closed", "open", "closing"}, for : Channels \cup {None}]]
  <2>1. CASE session' = session
    BY <1>2, <2>1
  <2>2. CASE \E n \in Numbers : session[n].state = "open" /\ session' = [session EXCEPT ![n].state = "closing"]
    BY <1>2, <2>2
  <2> QED
    BY <1>3, <2>1, <2>2
<1> QED
  BY <1>1, <1>2, <1>3, <1>4, <1>5, FramesMovedNames DEF objects

\* Every step keeps types and names.
LEMMA NamesKept ==
    ASSUME Types, Names, [Next]_vars
    PROVE  Types' /\ Names'
<1>1. ASSUME NEW c \in Channels, ChannelOpenTick(c) PROVE Types' /\ Names'
  BY <1>1, ChannelOpenTickNames
<1>2. ASSUME NEW o \in Objects, NEW k \in Kinds, CallTick(o, k) PROVE Types' /\ Names'
  BY <1>2, CallTickNames
<1>3. CASE HandleMethod
  BY <1>3, HandleMethodNames
<1>4. CASE StreamEnds \/ ConnectionCloseContinues
  BY <1>4, DestructionNames
<1>5. ASSUME NEW c \in Channels, ChannelOpenContinues(c) PROVE Types' /\ Names'
  BY <1>5, ChannelOpenContinuesNames
<1>6. ASSUME NEW o \in Objects, CloseReturns(o) PROVE Types' /\ Names'
  BY <1>6, DestructionNames
<1>7. ASSUME NEW c \in Channels, ChannelOpen(c) PROVE Types' /\ Names'
  BY <1>7, ChannelOpenNames
<1>8. ASSUME NEW c \in Channels, Destroy(c) \/ CloseOkWritten(c) PROVE Types' /\ Names'
  BY <1>8, DestructionNames
<1>9. ASSUME NEW o \in Objects, Close(o) \/ CloseTwice(o) \/ CloseDestroyed(o) PROVE Types' /\ Names'
  BY <1>9, CloseNames, CloseTwiceNames, CloseDestroyedNames
<1>10. CASE Decode
  BY <1>10, DecodeNames
<1>11. CASE SocketFails
  BY <1>11, SocketFailsNames
<1>12. CASE PeerReads
  BY <1>12, PeerReadsNames
<1>13. CASE PeerSends
  BY <1>13, PeerSendsNames
<1>14. CASE UNCHANGED vars
  <2>1. Types'
    BY <1>14 DEF vars, objects, broker, Types, TypeOK
  <2>2. Scheduled' /\ Numbered' /\ Called' /\ Over'
    BY <1>14 DEF vars, objects, broker, Names, Scheduled, Numbered, Called, Over
  <2> QED
    BY <2>1, <2>2 DEF Names
<1> QED
  BY <1>1, <1>2, <1>3, <1>4, <1>5, <1>6, <1>7, <1>8, <1>9, <1>10, <1>11, <1>12, <1>13, <1>14
     DEF Next, Ticks, Continues, User, HandleMethod

\* Types and names hold in every state, whatever has happened.
THEOREM NamesHold == Spec => [](Types /\ Names)
<1>1. Init => Types /\ Names
  BY BeginningNames
<1>2. Types /\ Names /\ [Next]_vars => (Types /\ Names)'
  BY NamesKept
<1> QED
  BY <1>1, <1>2, PTL DEF Spec

\* The variables of the connection, its channels and the broker have their
\* types.
THEOREM ConnectionTypeOK == Spec => []TypeOK
BY NamesHold, PTL DEF Types

-----------------------------------------------------------------------------
(* Once a channel has ended otherwise, there is no way back.               *)

\* What an action may do to the objects that are gone.
LEMMA DestroyedStay ==
    ASSUME Types, Names, [Next]_vars
    PROVE  /\ destroyed \subseteq destroyed' /\ closed \subseteq closed'
           /\ \A o \in Objects : call[o]["close"] \in Past => call'[o]["close"] \in Past
           /\ \A o \in Objects : call[o]["again"] # "none" => call'[o]["again"] # "none"
           /\ peer # "open" => peer' # "open" /\ offence' = offence
<1>1. call \in [Objects -> [Kinds -> {"none", "scheduled", "pending", "resolved", "rejected"}]]
      /\ "close" \in Kinds /\ "open" \in Kinds /\ "again" \in Kinds /\ Channels \subseteq Objects
  BY DEF Types, TypeOK, Kinds, Objects
<1>2. ASSUME UNCHANGED <<call, destroyed, closed, peer, offence>>
      PROVE  /\ destroyed \subseteq destroyed' /\ closed \subseteq closed'
             /\ \A o \in Objects : call[o]["close"] \in Past => call'[o]["close"] \in Past
             /\ \A o \in Objects : call[o]["again"] # "none" => call'[o]["again"] # "none"
             /\ peer # "open" => peer' # "open" /\ offence' = offence
  BY <1>2
<1>3. ASSUME NEW o \in Objects, NEW k \in Kinds, NEW e, call' = [call EXCEPT ![o][k] = e],
             e \in Past \/ call[o][k] \notin Past, e # "none", UNCHANGED <<destroyed, closed, peer, offence>>
      PROVE  /\ destroyed \subseteq destroyed' /\ closed \subseteq closed'
             /\ \A p \in Objects : call[p]["close"] \in Past => call'[p]["close"] \in Past
             /\ \A p \in Objects : call[p]["again"] # "none" => call'[p]["again"] # "none"
             /\ peer # "open" => peer' # "open" /\ offence' = offence
  BY <1>1, <1>3
<1>4. ASSUME NEW D, NEW closes, NEW rest, DestroyAll(D, closes, rest), closed \subseteq closes, UNCHANGED <<peer,
                 offence>>
      PROVE  /\ destroyed \subseteq destroyed' /\ closed \subseteq closed'
             /\ \A o \in Objects : call[o]["close"] \in Past => call'[o]["close"] \in Past
             /\ \A o \in Objects : call[o]["again"] # "none" => call'[o]["again"] # "none"
             /\ peer # "open" => peer' # "open" /\ offence' = offence
  <2>1. \A o \in Objects : call'[o]["close"] = call[o]["close"] \/ call'[o]["close"] = "rejected"
    BY <1>1, <1>4 DEF DestroyAll
  <2>2. destroyed' = destroyed \cup D /\ closed' = closes
    BY <1>4 DEF DestroyAll
  <2>3. \A o \in Objects : call'[o]["again"] # "none" \/ call'[o]["again"] = call[o]["again"]
    BY <1>1, <1>4 DEF DestroyAll
  <2> QED
    BY <1>4, <2>1, <2>2, <2>3 DEF Past
<1>5. ASSUME NEW c \in Channels, ChannelOpenTick(c) \/ ChannelOpen(c)
      PROVE  UNCHANGED <<call, destroyed, closed, peer, offence>>
  BY <1>5 DEF ChannelOpenTick, ChannelOpen, broker
<1>6. CASE \E c \in Channels : ChannelOpenContinues(c)
  <2>1. PICK c \in Channels : ChannelOpenContinues(c)
    BY <1>6
  <2>2. UNCHANGED <<destroyed, closed, peer, offence>>
    BY <2>1 DEF ChannelOpenContinues, broker
  <2>3. CASE call' = call
    BY <1>2, <2>2, <2>3
  <2>4. CASE call[c]["open"] = "none" /\ call' = [call EXCEPT ![c]["open"] = "scheduled"]
    <3>1. "none" \notin Past
      BY DEF Past
    <3> QED
      BY <1>1, <1>3, <2>2, <2>4, <3>1
  <2> QED
    BY <2>1, <2>3, <2>4 DEF ChannelOpenContinues
<1>7. CASE \E o \in Objects, k \in Kinds : CallTick(o, k)
  <2>1. PICK o \in Objects, k \in Kinds : CallTick(o, k)
    BY <1>7
  <2> QED
    BY <1>3, <2>1 DEF CallTick, Past, broker
<1>8. CASE \E o \in Objects : Close(o)
  <2>1. PICK o \in Objects : Close(o)
    BY <1>8
  <2>2. call[o]["close"] \notin Past
    BY <2>1 DEF Close, Past
  <2> QED
    BY <1>1, <1>3, <2>1, <2>2 DEF Close, broker
<1>9. CASE HandleMethod
  <2> DEFINE job == Head(ticks)
  <2>1. HandleDropped(job) \/ HandleAnswer(job) \/ HandleClose(job) \/ HandleFlow(job) \/ HandleContent(job)
    BY <1>9 DEF HandleMethod
  <2>2. job.o \in Objects
    BY <1>9, HeadJob DEF HandleMethod
  <2> HIDE DEF job
  <2>3. CASE HandleDropped(job) \/ HandleClose(job) \/ HandleFlow(job)
    BY <1>2, <2>3 DEF HandleDropped, HandleClose, HandleFlow, objects, broker
  <2>4. CASE HandleAnswer(job)
    <3>1. UNCHANGED <<destroyed, closed, peer, offence>>
      BY <2>4 DEF HandleAnswer, broker
    <3>2. CASE call' = call
      BY <1>2, <3>1, <3>2
    <3>3. CASE \E k \in Answers(job) : call' = [call EXCEPT ![job.o][k] = "resolved"]
      <4>1. PICK k \in Kinds : call' = [call EXCEPT ![job.o][k] = "resolved"]
        BY <3>3 DEF Answers
      <4>2. "resolved" \in Past
        BY DEF Past
      <4> QED
        BY <1>3, <2>2, <3>1, <4>1, <4>2
    <3> QED
      BY <2>4, <3>2, <3>3 DEF HandleAnswer
  <2>5. CASE HandleContent(job)
    <3>1. UNCHANGED <<peer, offence>>
      BY <2>5 DEF HandleContent, broker
    <3>2. CASE UNCHANGED <<call, destroyed, closed>>
      BY <1>2, <3>1, <3>2
    <3>3. CASE DestroyChannel(job.o, closed, Tail(ticks))
      BY <1>4, <3>1, <3>3 DEF DestroyChannel
    <3> QED
      BY <2>5, <3>2, <3>3 DEF HandleContent
  <2> QED
    BY <2>1, <2>3, <2>4, <2>5
<1>10. CASE \E c \in Channels : CloseOkWritten(c)
  <2>1. PICK c \in Channels : CloseOkWritten(c)
    BY <1>10
  <2>2. UNCHANGED <<peer, offence>> /\ (DestroyChannel(c, closed, ticks) \/ UNCHANGED <<call, destroyed, closed>>)
    BY <2>1 DEF CloseOkWritten, broker
  <2> QED
    BY <1>2, <1>4, <2>2 DEF DestroyChannel
<1>11. CASE \E c \in Channels : Destroy(c)
  BY <1>4, <1>11 DEF Destroy, DestroyChannel, broker
<1>12. CASE ConnectionCloseContinues
  BY <1>4, <1>12 DEF ConnectionCloseContinues, DestroyConnection, broker
<1>13. CASE StreamEnds
  <2>1. UNCHANGED <<peer, offence>> /\ (DestroyConnection(closed, Tail(ticks)) \/ UNCHANGED <<call, destroyed, closed>>)
    BY <1>13 DEF StreamEnds, broker
  <2> QED
    BY <1>2, <1>4, <2>1 DEF DestroyConnection
<1>14. CASE \E o \in Objects : CloseReturns(o)
  <2>1. PICK o \in Objects : CloseReturns(o)
    BY <1>14
  <2>2. UNCHANGED <<peer, offence>> /\ (DestroyConnection(closed \cup {o}, ticks) \/ DestroyChannel(o, closed \cup {o}, ticks))
    BY <2>1 DEF CloseReturns, broker
  <2> QED
    BY <1>4, <2>2 DEF DestroyConnection, DestroyChannel
<1>15. CASE Decode \/ SocketFails
  BY <1>2, <1>15 DEF Decode, SocketFails, objects, broker
<1>16. CASE PeerReads
  <2>1. UNCHANGED <<call, destroyed, closed>>
    BY <1>16 DEF PeerReads, objects
  <2>2. peer # "open" => peer' # "open" /\ offence' = offence
    BY <1>16, PeerReadsHow
  <2> QED
    BY <2>1, <2>2
<1>17. CASE PeerSends
  <2>1. UNCHANGED <<call, destroyed, closed>> /\ peer = "open"
    BY <1>17 DEF PeerSends, objects
  <2> QED
    BY <2>1
<1>18. CASE UNCHANGED vars
  BY <1>2, <1>18 DEF vars, objects, broker
<1>19. CASE \E o \in Objects : CloseTwice(o)
  <2>1. PICK o \in Objects : CloseTwice(o)
    BY <1>19
  <2>2. call[o]["again"] \notin Past
    BY <2>1 DEF CloseTwice, Past
  <2> QED
    BY <1>1, <1>3, <2>1, <2>2 DEF CloseTwice, broker
<1>20. CASE \E o \in Objects : CloseDestroyed(o)
  <2>1. PICK o \in Objects : CloseDestroyed(o)
    BY <1>20
  <2>2. UNCHANGED <<destroyed, closed, peer, offence>>
    BY <2>1 DEF CloseDestroyed, broker
  <2>3. \A p \in Objects : /\ call'[p]["close"] = call[p]["close"] \/ call'[p]["close"] = "rejected"
                           /\ call'[p]["again"] = call[p]["again"] \/ call'[p]["again"] # "none"
    BY <1>1, <2>1 DEF CloseDestroyed
  <2> QED
    BY <2>2, <2>3 DEF Past
<1> QED
  BY <1>2, <1>5, <1>6, <1>7, <1>8, <1>9, <1>10, <1>11, <1>12, <1>13, <1>14, <1>15, <1>16, <1>17, <1>18, <1>19, <1>20
     DEF Next, Ticks, Continues, User, HandleMethod

\* No action destroys.
LEMMA SafeKept ==
    ASSUME NEW c \in Channels, Safe(c), UNCHANGED <<number, channels, destroyed, closed>>,
           \A d \in replying' \ replying : d \notin destroyed,
           \A d \in Channels \cap destroyed : call'[d]["close"] = "resolved" => call[d]["close"] = "resolved"
    PROVE  Safe(c)'
BY DEF Safe, Unreturned, Resolved

\* Another channel is destroyed.
LEMMA SafeBeside ==
    ASSUME Types, Names, NEW c \in Channels, Safe(c), NEW d \in Channels, d # c,
           d \notin destroyed \/ d \in replying \/ Unreturned(d),
           NEW closes, closed \subseteq closes, NEW rest, DestroyChannel(d, closes, rest),
           replying' \subseteq replying, UNCHANGED number
    PROVE  Safe(c)'
<1>1. number[d] # number[c]
  BY DEF Safe
<1>2. d # Conn /\ {d} \ {Conn} = {d} /\ number[c] \in Numbers
  BY ConnectionAssumption DEF Types, TypeOK, Safe
<1>3. channels'[number[c]] = channels[number[c]]
  BY <1>1, <1>2 DEF DestroyChannel, DestroyAll, MapWithout
<1>4. destroyed \subseteq destroyed' /\ closed \subseteq closed'
  BY DEF DestroyChannel, DestroyAll
<1>5. \A e \in Channels : call'[e]["close"] = "resolved" => call[e]["close"] = "resolved"
  BY DEF DestroyChannel, DestroyAll, Types, TypeOK, Objects, Kinds
<1> QED
  BY <1>3, <1>4, <1>5 DEF Safe, Unreturned, Resolved

\* The connection is destroyed.
LEMMA SafeDestroyed ==
    ASSUME Types, Names, NEW c \in Channels, Safe(c), NEW closes, NEW rest, DestroyConnection(closes, rest)
    PROVE  c \in destroyed'
<1>1. number[c] \in Numbers /\ channels[number[c]] = c /\ c # None
  BY ConnectionAssumption DEF Types, TypeOK, Safe
<1> QED
  BY <1>1 DEF DestroyConnection, DestroyAll

\* Another close() is one that was repeated.
LEMMA AgainRepeated ==
    ASSUME Types, NEW o \in Objects, CloseTwice(o) \/ CloseDestroyed(o)
    PROVE  Repeated'
<1>1. call \in [Objects -> [Kinds -> {"none", "scheduled", "pending", "resolved", "rejected"}]] /\ "again" \in Kinds
  BY DEF Types, TypeOK, Kinds
<1>2. call'[o]["again"] # "none"
  BY <1>1 DEF CloseTwice, CloseDestroyed
<1> QED
  BY <1>2 DEF Repeated

\* A channel that is about to answer a close of the broker stays so, and keeps
\* its number, until it is destroyed or a close() is repeated.
LEMMA AnsweringKept ==
    ASSUME Types, Names, NEW c \in Channels, c \in replying, Safe(c), [Next]_vars
    PROVE  c \in destroyed' \/ (c \in replying' /\ Safe(c)') \/ Repeated'
<1>1. call \in [Objects -> [Kinds -> {"none", "scheduled", "pending", "resolved", "rejected"}]]
      /\ "close" \in Kinds /\ "open" \in Kinds /\ Channels \subseteq Objects /\ Conn \notin Channels
  BY ConnectionAssumption DEF Types, TypeOK, Kinds, Objects
<1>2. ASSUME UNCHANGED <<number, channels, destroyed, closed, replying>>,
             call' = call \/ \E o \in Objects, k \in Kinds : call' = [call EXCEPT ![o][k] = "scheduled"]
                                                    \/ call' = [call EXCEPT ![o][k] = "pending"]
                                                    \/ (call' = [call EXCEPT ![o][k] = "resolved"] /\ o \notin destroyed)
      PROVE  c \in replying' /\ Safe(c)'
  <2>1. \A d \in Channels \cap destroyed : call'[d]["close"] = "resolved" => call[d]["close"] = "resolved"
    BY <1>1, <1>2
  <2> QED
    BY <1>2, <2>1, SafeKept
<1>3. ASSUME NEW d \in Channels, ChannelOpenTick(d)
      PROVE  c \in replying' /\ Safe(c)'
  <2>1. ticks # <<>> /\ Head(ticks) = OpenJob(d) /\ ticks \in Seq(Jobs)
    BY <1>3 DEF ChannelOpenTick, Tick, RunTick, OpenJob, Types
  <2>2. Waits(ticks, OpenJob(d))
    BY <2>1, JobTaken
  <2>3. number[d] = 0 /\ number[c] # 0 /\ channels[number[c]] = c /\ c # None
    BY <2>2, ConnectionAssumption DEF Names, Scheduled, Numbered, Safe
  <2>4. CASE UNCHANGED <<number, channels>>
    BY <1>2, <1>3, <2>4 DEF ChannelOpenTick
  <2>5. CASE \E n \in Free : /\ number' = [number EXCEPT ![d] = n]
                             /\ channels' = [channels EXCEPT ![n] = d]
    <3>1. PICK n \in Numbers : /\ channels[n] = None /\ number' = [number EXCEPT ![d] = n]
                               /\ channels' = [channels EXCEPT ![n] = d]
      BY <2>5 DEF Free
    <3>2. n # number[c]
      BY <2>3, <3>1
    <3>3. \A e \in Channels : number'[e] = IF e = d THEN n ELSE number[e]
      BY <3>1 DEF Types, TypeOK
    <3>4. channels'[number[c]] = c /\ number'[c] = number[c]
      BY <2>3, <3>1, <3>2, <3>3 DEF Types, TypeOK
    <3> QED
      BY <1>3, <3>2, <3>3, <3>4 DEF Safe, Unreturned, Resolved, ChannelOpenTick
  <2> QED
    BY <1>3, <2>4, <2>5 DEF ChannelOpenTick
<1>4. ASSUME NEW d \in Channels, ChannelOpen(d)
      PROVE  c \in replying' /\ Safe(c)'
  BY <1>2, <1>4 DEF ChannelOpen
<1>5. ASSUME NEW d \in Channels, ChannelOpenContinues(d)
      PROVE  c \in replying' /\ Safe(c)'
  BY <1>1, <1>2, <1>5 DEF ChannelOpenContinues
<1>6. ASSUME NEW o \in Objects, NEW k \in Kinds, CallTick(o, k)
      PROVE  c \in replying' /\ Safe(c)'
  BY <1>2, <1>6 DEF CallTick
<1>7. ASSUME NEW o \in Objects, Close(o)
      PROVE  c \in replying' /\ Safe(c)'
  BY <1>1, <1>2, <1>7 DEF Close
<1>15. ASSUME NEW o \in Objects, CloseTwice(o) \/ CloseDestroyed(o)
       PROVE  Repeated'
  BY <1>1, <1>15, AgainRepeated
<1>8. ASSUME HandleMethod
      PROVE  c \in destroyed' \/ (c \in replying' /\ Safe(c)')
  <2> DEFINE job == Head(ticks)
  <2>1. HandleDropped(job) \/ HandleAnswer(job) \/ HandleClose(job) \/ HandleFlow(job) \/ HandleContent(job)
    BY <1>8 DEF HandleMethod
  <2>2. job.o \in Objects
    BY <1>8, HeadJob DEF HandleMethod
  <2> HIDE DEF job
  <2>3. CASE HandleDropped(job) \/ HandleFlow(job)
    BY <1>2, <2>3 DEF HandleDropped, HandleFlow, objects
  <2>4. CASE HandleAnswer(job)
    BY <1>2, <2>2, <2>4 DEF HandleAnswer, Answers
  <2>5. CASE HandleClose(job)
    <3>1. UNCHANGED <<number, channels, destroyed, closed, call>> /\ replying' = replying \cup {job.o}
              /\ job.o \notin destroyed
      BY <2>5 DEF HandleClose
    <3> QED
      BY <3>1, SafeKept
  <2>6. CASE HandleContent(job)
    <3>1. UNCHANGED <<number, replying>> /\ job.o \notin destroyed
      BY <2>6 DEF HandleContent
    <3>2. CASE UNCHANGED <<call, destroyed, closed, channels>>
      BY <1>2, <3>1, <3>2
    <3>3. CASE job.o \in Destroyers /\ DestroyChannel(job.o, closed, Tail(ticks))
      <4>1. CASE job.o = c
        BY <3>3, <4>1 DEF DestroyChannel, DestroyAll
      <4>2. CASE job.o # c
        <5>1. job.o \in Channels
          BY <3>3, ConnectionAssumption
        <5> QED
          BY <3>1, <3>3, <4>2, <5>1, SafeBeside
      <4> QED
        BY <4>1, <4>2
    <3> QED
      BY <2>6, <3>2, <3>3 DEF HandleContent
  <2> QED
    BY <2>1, <2>3, <2>4, <2>5, <2>6
<1>9. ASSUME NEW d \in Channels, CloseOkWritten(d)
      PROVE  c \in destroyed' \/ (c \in replying' /\ Safe(c)')
  <2>1. UNCHANGED number /\ replying' = replying \ {d} /\ d \in replying
    BY <1>9 DEF CloseOkWritten
  <2>2. CASE DestroyChannel(d, closed, ticks)
    <3>1. CASE d = c
      BY <2>2, <3>1 DEF DestroyChannel, DestroyAll
    <3>2. CASE d # c
      BY <2>1, <2>2, <3>2, SafeBeside
    <3> QED
      BY <3>1, <3>2
  <2>3. CASE ~socketOpen /\ UNCHANGED <<call, destroyed, closed, channels>>
    <3>1. ticks = <<>>
      BY <1>9 DEF CloseOkWritten, Turn, BeginTurn, Quiet
    <3>2. ~Waits(ticks, Ended)
      BY <3>1 DEF Waits
    <3>3. \A n \in Numbers : channels[n] = None
      BY <2>3, <3>2 DEF Names, Over
    <3>4. number[c] \in Numbers /\ channels[number[c]] = c /\ c # None
      BY ConnectionAssumption DEF Types, TypeOK, Safe
    <3> QED
      BY <3>3, <3>4
  <2> QED
    BY <1>9, <2>2, <2>3 DEF CloseOkWritten
<1>10. ASSUME NEW d \in Channels, Destroy(d)
       PROVE  c \in destroyed' \/ (c \in replying' /\ Safe(c)')
  <2>1. UNCHANGED <<number, replying>> /\ d \notin destroyed /\ DestroyChannel(d, closed, ticks)
    BY <1>10 DEF Destroy
  <2>2. CASE d = c
    BY <2>1, <2>2 DEF DestroyChannel, DestroyAll
  <2>3. CASE d # c
    BY <2>1, <2>3, SafeBeside
  <2> QED
    BY <2>2, <2>3
<1>11. ASSUME ConnectionCloseContinues
       PROVE  c \in destroyed'
  BY <1>11, SafeDestroyed DEF ConnectionCloseContinues
<1>12. ASSUME StreamEnds
       PROVE  c \in destroyed' \/ (c \in replying' /\ Safe(c)')
  <2>1. CASE DestroyConnection(closed, Tail(ticks))
    BY <2>1, SafeDestroyed
  <2>2. CASE UNCHANGED <<call, destroyed, closed, channels>>
    BY <1>2, <1>12, <2>2 DEF StreamEnds
  <2> QED
    BY <1>12, <2>1, <2>2 DEF StreamEnds
<1>13. ASSUME NEW o \in Objects, CloseReturns(o)
       PROVE  c \in destroyed' \/ (c \in replying' /\ Safe(c)')
  <2>1. /\ UNCHANGED <<number, replying>> /\ Unreturned(o)
        /\ IF o = Conn THEN DestroyConnection(closed \cup {o}, ticks) ELSE DestroyChannel(o, closed \cup {o}, ticks)
    BY <1>13 DEF CloseReturns, Unreturned
  <2>2. CASE o = Conn
    BY <2>1, <2>2, SafeDestroyed
  <2>3. CASE o = c
    BY <1>1, <2>1, <2>3 DEF DestroyChannel, DestroyAll
  <2>4. CASE o # Conn /\ o # c
    <3>1. o \in Channels
      BY <2>4 DEF Objects
    <3> QED
      BY <2>1, <2>4, <3>1, SafeBeside
  <2> QED
    BY <2>2, <2>3, <2>4
<1>14. ASSUME Decode \/ SocketFails \/ PeerReads \/ PeerSends \/ UNCHANGED vars
       PROVE  c \in replying' /\ Safe(c)'
  BY <1>2, <1>14 DEF Decode, SocketFails, PeerReads, PeerSends, objects, vars
<1> QED
  BY <1>3, <1>4, <1>5, <1>6, <1>7, <1>8, <1>9, <1>10, <1>11, <1>12, <1>13, <1>14, <1>15
     DEF Next, Ticks, Continues, User, HandleMethod

\* No step undoes that a channel has ended otherwise.
LEMMA SpoiltStays ==
    ASSUME Types, Names, Spoilt, [Next]_vars
    PROVE  Spoilt'
<1>1. /\ destroyed \subseteq destroyed'
      /\ \A o \in Objects : call[o]["close"] \in Past => call'[o]["close"] \in Past
      /\ \A o \in Objects : call[o]["again"] # "none" => call'[o]["again"] # "none"
      /\ peer # "open" => peer' # "open" /\ offence' = offence
  BY DestroyedStay
<1>2. CASE Destroyers \cap destroyed # {}
  BY <1>1, <1>2 DEF Spoilt
<1>3. CASE \E c \in PeerCloses : c \in destroyed \/ (c \in replying /\ Safe(c))
  <2>1. PICK c \in PeerCloses : c \in destroyed \/ (c \in replying /\ Safe(c))
    BY <1>3
  <2>2. c \in Channels
    BY ConnectionAssumption
  <2>3. c \in destroyed' \/ (c \in replying' /\ Safe(c)') \/ Repeated'
    BY <1>1, <2>1, <2>2, AnsweringKept
  <2> QED
    BY <2>3 DEF Spoilt
<1>4. CASE Crossed /\ peer # "open"
  <2>1. \A c \in Closers : c \in Objects
    BY ConnectionAssumption DEF Objects
  <2> QED
    BY <1>1, <1>4, <2>1 DEF Spoilt, Crossed, Past
<1>5. CASE Repeated
  BY <1>1, <1>5 DEF Spoilt, Repeated
<1> QED
  BY <1>2, <1>3, <1>4, <1>5 DEF Spoilt

-----------------------------------------------------------------------------
(* Before a channel has ended otherwise.                                   *)

\* What is registered and answered.
LEMMA CleanFacts ==
    ASSUME Types, Names, Clean
    PROVE  /\ call \in [Objects -> [Kinds -> {"none", "scheduled", "pending", "resolved", "rejected"}]]
           /\ number \in [Channels -> Numbers \cup {0}] /\ channels \in [Numbers -> Channels \cup {None}]
           /\ session \in [Numbers -> [state : {"closed", "open", "closing"}, for : Channels \cup {None}]]
           /\ \A n \in Numbers : session[n].state = "closed" <=> session[n].for = None
           /\ {"open", "close", "again", "drop"} = Kinds /\ Objects = Channels \cup {Conn}
           /\ Conn \notin Channels /\ None \notin Channels /\ Conn # None /\ 0 \notin Numbers
           /\ PeerCloses \subseteq Channels /\ Closers \subseteq Channels /\ Destroyers \subseteq Channels
           /\ ticks \in Seq(Jobs) /\ toClient \in Seq(ToClient) /\ toPeer \in Seq(ToPeer)
           /\ destroyed \subseteq Objects /\ closed \subseteq destroyed
           /\ socketOpen \in BOOLEAN /\ decoding \in {"idle", "reading", "failed"}
<1>1. Conn # None
  BY DEF Conn, None
<1> QED
  BY <1>1, ConnectionAssumption DEF Types, TypeOK, Names, Called, Kinds, Objects, Numbers

\* Every step by which nothing is answered, no channel comes or goes and the
\* broker does nothing.
LEMMA StillClean ==
    ASSUME Types, Names, Clean,
           UNCHANGED <<number, channels, destroyed, closed, session, peer, socketOpen>>,
           \/ call' = call
           \/ \E o \in Objects, k \in Kinds :
                 k # "drop" /\ call[o][k] = "none" /\ call' = [call EXCEPT ![o][k] = "scheduled"],
           \A x \in Objects :
              /\ Nothing(ticks, toClient, x) => Nothing(ticks', toClient', x)
              /\ \A m : No(ticks, toClient, x, m) => No(ticks', toClient', x, m)
              /\ \A m : Uniq(ticks, toClient, x, m) => Uniq(ticks', toClient', x, m)
              /\ Final(ticks, toClient, x) => Final(ticks', toClient', x),
           \A c \in Channels \ destroyed, m \in {"open_ok", "close_ok", "close"} :
              No(ticks', toClient', c, m) => No(ticks, toClient, c, m),
           \A x \in Objects, m \in {"open", "close"} : Asks(toPeer', x, m) <=> Asks(toPeer, x, m),
           \A c \in Channels : Asks(toPeer', c, "close_ok") => Asks(toPeer, c, "close_ok"),
           \A c \in Channels : Asks(toPeer', c, "flow_ok") =>
               peer # "open" \/ Asks(toPeer, c, "flow_ok") \/ session[number[c]].for = c \/ call[c]["close"] \in Past,
           \A n : OneRequest(toPeer, n) => OneRequest(toPeer', n)
    PROVE  /\ Registered' /\ Dropped' /\ Dead' /\ Broker' /\ Asking' /\ Serving' /\ Served' /\ Coming' /\ ConnClose'
           /\ \A o \in Objects : (Unreturned(o))' => Unreturned(o)
           /\ \A o \in Objects : call'[o]["drop"] = call[o]["drop"]
<1>0. /\ call \in [Objects -> [Kinds -> {"none", "scheduled", "pending", "resolved", "rejected"}]]
      /\ {"open", "close", "again", "drop"} = Kinds /\ Channels \subseteq Objects /\ Conn \in Objects
      /\ Objects = Channels \cup {Conn}
  BY CleanFacts
<1>1. \A o \in Objects, k \in Kinds :
         \/ call'[o][k] = call[o][k]
         \/ k # "drop" /\ call[o][k] = "none" /\ call'[o][k] = "scheduled"
  BY <1>0
<1>2. /\ \A o \in Objects, k \in Kinds, e \in {"pending", "resolved", "rejected"} : call'[o][k] = e <=> call[o][k] = e
      /\ \A o \in Objects, k \in Kinds : call'[o][k] \in {"none", "scheduled"} <=> call[o][k] \in {"none", "scheduled"}
      /\ \A o \in Objects : call'[o]["drop"] = call[o]["drop"]
      /\ \A o \in Objects : call'[o]["close"] \in Past <=> call[o]["close"] \in Past
  BY <1>0, <1>1 DEF Past
<1>3. Registered' /\ Dropped'
  BY <1>2 DEF Clean, Registered, Dropped
<1>4. Dead'
  BY <1>0, <1>2 DEF Clean, Dead
<1>5. Broker'
  BY <1>0, <1>2 DEF Clean, Broker
<1>6. Asking'
  BY <1>0, <1>2 DEF Clean, Asking, Linked
<1>7. Serving'
  <2> SUFFICES ASSUME Linked', NEW n \in Numbers, NEW c \in Channels, session[n].for = c
               PROVE  /\ channels[n] = c
                      /\ \/ call'[c]["open"] = "resolved"
                         \/ call'[c]["open"] = "pending" /\ ~No(ticks', toClient', c, "open_ok")
                      /\ call'[c]["close"] # "resolved"
                      /\ session[n].state = "open" => No(ticks', toClient', c, "close_ok")
                      /\ session[n].state = "closing" => ~No(ticks', toClient', c, "close")
    BY DEF Serving
  <2>1. /\ channels[n] = c
        /\ \/ call[c]["open"] = "resolved"
           \/ call[c]["open"] = "pending" /\ ~No(ticks, toClient, c, "open_ok")
        /\ call[c]["close"] # "resolved"
        /\ session[n].state = "open" => No(ticks, toClient, c, "close_ok")
        /\ session[n].state = "closing" => ~No(ticks, toClient, c, "close")
    BY DEF Clean, Serving, Linked
  <2>2. c \in Channels \ destroyed
    BY <2>1 DEF Clean, Registered
  <2> QED
    BY <1>0, <1>2, <2>1, <2>2
<1>8. Served'
  <2> SUFFICES ASSUME Linked', NEW c \in Channels \ destroyed
               PROVE  /\ call'[c]["open"] = "pending" => Asks(toPeer', c, "open") \/ session[number[c]].for = c
                      /\ call'[c]["open"] = "resolved" /\ call'[c]["close"] \in {"none", "scheduled"}
                             => session[number[c]].for = c
                      /\ call'[c]["close"] = "pending" => Asks(toPeer', c, "close") \/ ~No(ticks', toClient', c, "close_ok")
    BY DEF Served
  <2>1. /\ call[c]["open"] = "pending" => Asks(toPeer, c, "open") \/ session[number[c]].for = c
        /\ call[c]["open"] = "resolved" /\ call[c]["close"] \in {"none", "scheduled"} => session[number[c]].for = c
        /\ call[c]["close"] = "pending" => Asks(toPeer, c, "close") \/ ~No(ticks, toClient, c, "close_ok")
    BY DEF Clean, Served, Linked
  <2> QED
    BY <1>0, <1>2, <2>1
<1>9. Coming'
  <2> SUFFICES ASSUME NEW c \in Channels \ destroyed
               PROVE  /\ ~Nothing(ticks', toClient', c)
                             => call'[c]["open"] \in {"pending", "resolved"} /\ call'[c]["close"] # "resolved"
                      /\ ~No(ticks', toClient', c, "open_ok") => call'[c]["open"] = "pending"
                      /\ ~No(ticks', toClient', c, "close_ok") => call'[c]["close"] = "pending"
                      /\ ~No(ticks', toClient', c, "close") => c \in PeerCloses
                      /\ Uniq(ticks', toClient', c, "open_ok") /\ Final(ticks', toClient', c)
    BY DEF Coming
  <2>1. /\ ~Nothing(ticks, toClient, c) => call[c]["open"] \in {"pending", "resolved"} /\ call[c]["close"] # "resolved"
        /\ ~No(ticks, toClient, c, "open_ok") => call[c]["open"] = "pending"
        /\ ~No(ticks, toClient, c, "close_ok") => call[c]["close"] = "pending"
        /\ ~No(ticks, toClient, c, "close") => c \in PeerCloses
        /\ Uniq(ticks, toClient, c, "open_ok") /\ Final(ticks, toClient, c)
    BY DEF Clean, Coming
  <2> QED
    BY <1>0, <1>2, <2>1
<1>10. ConnClose'
  BY <1>0, <1>2 DEF Clean, ConnClose
<1>11. \A o \in Objects : (Unreturned(o))' => Unreturned(o)
  BY <1>0, <1>2 DEF Unreturned, Resolved
<1> QED
  BY <1>2, <1>3, <1>4, <1>5, <1>6, <1>7, <1>8, <1>9, <1>10, <1>11

\* A turn or a tick begins when nothing is left to return.
LEMMA NothingReturns ==
    ASSUME Returning, destroyed \subseteq Objects, draining => ~Continuations, NEW o \in destroyed
    PROVE  ~Unreturned(o) /\ ~(o = Conn /\ Conn \in replying)
BY DEF Returning, Continuations, Unreturned

\* A continuation adds a tick.
LEMMA TickAddedClean ==
    ASSUME Types, Names, Clean, Continue,
           UNCHANGED <<number, channels, destroyed, closed, replying, toPeer, toClient, broker, socketOpen, crashed>>,
           \/ call' = call
           \/ \E o \in Objects, k \in Kinds :
                 k # "drop" /\ call[o][k] = "none" /\ call' = [call EXCEPT ![o][k] = "scheduled"],
           \/ ticks' = ticks
           \/ \E e \in Jobs : ticks' = Append(ticks, e) /\ e.type # "method" /\ e # Ended
    PROVE  Clean'
<1>0. /\ ticks \in Seq(Jobs) /\ decoding \in {"idle", "reading", "failed"} /\ destroyed \subseteq Objects
  BY CleanFacts
<1>1. Kept(ticks, toClient, ticks', toClient) /\ (Own(ticks) => Own(ticks')) /\ (Waits(ticks', Ended) <=> Waits(ticks, Ended))
  <2>1. CASE ticks' = ticks
    BY <2>1 DEF Kept
  <2>2. CASE \E e \in Jobs : ticks' = Append(ticks, e) /\ e.type # "method" /\ e # Ended
    BY <1>0, <2>2, JobAdded, OtherAdded
  <2> QED
    BY <2>1, <2>2
<1>2. /\ Registered' /\ Dropped' /\ Dead' /\ Broker' /\ Asking' /\ Serving' /\ Served' /\ Coming' /\ ConnClose'
      /\ \A o \in Objects : (Unreturned(o))' => Unreturned(o)
      /\ \A o \in Objects : call'[o]["drop"] = call[o]["drop"]
  BY <1>1, StillClean DEF Kept, broker
<1>3. draining' = TRUE /\ decoding' # "failed"
  BY <1>0 DEF Continue, RunContinuation, PieceEnds, Clean, Sane
<1>4. Sane'
  BY <1>3 DEF Clean, Sane, broker
<1>5. Known'
  BY <1>1 DEF Clean, Known
<1>6. Failing'
  BY <1>1, <1>2 DEF Clean, Failing, Kept
<1>7. Returning'
  BY <1>0, <1>2, <1>3 DEF Clean, Returning
<1> QED
  BY <1>2, <1>4, <1>5, <1>6, <1>7 DEF Clean

\* The user asks for a channel or calls close(), and channel_open goes on.
LEMMA UserClean ==
    ASSUME Types, Names, Clean,
           \/ \E c \in Channels : ChannelOpen(c) \/ ChannelOpenContinues(c)
           \/ \E o \in Objects : Close(o)
    PROVE  Clean'
<1>0. {"open", "close", "again", "drop"} = Kinds /\ Channels \subseteq Objects
  BY CleanFacts
<1>1. ASSUME NEW c \in Channels, ChannelOpen(c)
      PROVE  Clean'
  <2>1. ticks' = Append(ticks, OpenJob(c))
    BY <1>1 DEF ChannelOpen, OpenJob
  <2>2. OpenJob(c) \in Jobs /\ OpenJob(c).type # "method" /\ OpenJob(c) # Ended
    BY JobsDiffer
  <2> QED
    BY <1>1, <2>1, <2>2, TickAddedClean DEF ChannelOpen
<1>2. ASSUME NEW c \in Channels, ChannelOpenContinues(c)
      PROVE  Clean'
  <2>1. CASE UNCHANGED <<call, ticks>>
    BY <1>2, <2>1, TickAddedClean DEF ChannelOpenContinues
  <2>2. CASE call[c]["open"] = "none"
    <3>1. ticks' = Append(ticks, CallJob(c, "open")) /\ call' = [call EXCEPT ![c]["open"] = "scheduled"]
      BY <1>2, <2>2 DEF ChannelOpenContinues
    <3>2. CallJob(c, "open") \in Jobs /\ CallJob(c, "open").type # "method" /\ CallJob(c, "open") # Ended
      BY <1>0, JobsDiffer
    <3>3. /\ \E o \in Objects, k \in Kinds :
                 k # "drop" /\ call[o][k] = "none" /\ call' = [call EXCEPT ![o][k] = "scheduled"]
          /\ \E e \in Jobs : ticks' = Append(ticks, e) /\ e.type # "method" /\ e # Ended
      BY <1>0, <2>2, <3>1, <3>2
    <3> QED
      BY <1>2, <3>3, TickAddedClean DEF ChannelOpenContinues
  <2> QED
    BY <1>2, <2>1, <2>2 DEF ChannelOpenContinues
<1>3. ASSUME NEW o \in Objects, Close(o)
      PROVE  Clean'
  <2>1. ticks' = Append(ticks, CallJob(o, "close")) /\ call' = [call EXCEPT ![o]["close"] = "scheduled"]
            /\ call[o]["close"] = "none"
    BY <1>3 DEF Close
  <2>2. CallJob(o, "close") \in Jobs /\ CallJob(o, "close").type # "method" /\ CallJob(o, "close") # Ended
    BY <1>0, JobsDiffer
  <2>3. /\ \E p \in Objects, k \in Kinds :
                 k # "drop" /\ call[p][k] = "none" /\ call' = [call EXCEPT ![p][k] = "scheduled"]
        /\ \E e \in Jobs : ticks' = Append(ticks, e) /\ e.type # "method" /\ e # Ended
    BY <1>0, <2>1, <2>2
  <2> QED
    BY <1>3, <2>3, TickAddedClean DEF Close
<1> QED
  BY <1>1, <1>2, <1>3

\* A frame is decoded: its number is in the map, and names its own object.
LEMMA DecodeClean ==
    ASSUME Types, Names, Clean, Decode
    PROVE  Clean'
<1> DEFINE f == Head(toClient)
           e == [type |-> "method", o |-> Target(f), m |-> f.m, for |-> f.for]
<1>0. /\ ticks \in Seq(Jobs) /\ toClient \in Seq(ToClient) /\ destroyed \subseteq Objects
      /\ Conn # None /\ None \notin Channels
  BY CleanFacts
<1>1. /\ toClient # <<>> /\ toClient' = Tail(toClient)
      /\ UNCHANGED objects /\ UNCHANGED broker /\ UNCHANGED <<toPeer, socketOpen, crashed>>
      /\ Target(f) # None => decoding' = "reading" /\ ticks' = Append(ticks, e)
      /\ \/ UNCHANGED draining
         \/ ~Continuations
  BY DEF Decode, Turn, BeginTurn, Quiet
<1>2. /\ f.m \in Methods
      /\ \/ f.n = 0 /\ f.for = Conn /\ f.m \in {"close", "close_ok"}
         \/ f.n \in Numbers /\ f.n # 0 /\ f.for \in Channels
  BY <1>1, HeadFrame
<1>3. Routed(Tail(toClient), channels) /\ (f.n # 0 => channels[f.n] = f.for)
  BY <1>0, <1>1, FrameTaken DEF Clean, Known
<1> HIDE DEF f
<1>4. Target(f) = f.for /\ Target(f) # None
  BY <1>0, <1>2, <1>3 DEF Target
<1>5. ticks' = Append(ticks, e) /\ decoding' = "reading"
  BY <1>1, <1>4
<1>6. e.type = "method" /\ e.o = e.for /\ e.for = f.for /\ e.m = f.m /\ e # Ended
  BY <1>4 DEF Ended
<1>7. e \in Jobs
  <2>1. CASE f.n = 0
    BY <1>2, <1>4, <2>1 DEF Jobs, Numbers
  <2>2. CASE f.n # 0
    BY <1>2, <1>4, <2>2 DEF Jobs
  <2> QED
    BY <2>1, <2>2
<1> HIDE DEF e
<1>8. Kept(ticks, toClient, ticks', toClient')
  BY <1>0, <1>1, <1>5, <1>6, <1>7, FrameMoved DEF f
<1>9. (Own(ticks) => Own(ticks')) /\ (Waits(ticks', Ended) <=> Waits(ticks, Ended))
  BY <1>0, <1>5, <1>6, <1>7, JobAdded
<1>10. /\ Registered' /\ Dropped' /\ Dead' /\ Broker' /\ Asking' /\ Serving' /\ Served' /\ Coming' /\ ConnClose'
       /\ \A o \in Objects : (Unreturned(o))' => Unreturned(o)
       /\ \A o \in Objects : call'[o]["drop"] = call[o]["drop"]
  BY <1>1, <1>8, StillClean DEF Kept, broker, objects
<1>11. Sane'
  BY <1>1, <1>5 DEF Clean, Sane, broker, objects
<1>12. Known'
  BY <1>1, <1>3, <1>9 DEF Clean, Known, objects
<1>13. Failing'
  BY <1>1, <1>9 DEF Clean, Failing, objects
<1>14. Returning'
  <2> SUFFICES ASSUME NEW o \in destroyed, (Unreturned(o) \/ (o = Conn /\ Conn \in replying))'
               PROVE  draining' /\ call'[o]["drop"] # "pending"
    BY <1>1 DEF Returning, objects
  <2>1. Unreturned(o) \/ (o = Conn /\ Conn \in replying)
    BY <1>0, <1>1, <1>10 DEF objects
  <2>2. draining /\ call[o]["drop"] # "pending"
    BY <2>1 DEF Clean, Returning
  <2>3. ~(~Continuations)
    BY <1>0, <2>1 DEF Continuations, Unreturned
  <2> QED
    BY <1>0, <1>1, <1>10, <2>2, <2>3
<1> QED
  BY <1>10, <1>11, <1>12, <1>13, <1>14 DEF Clean

\* What a tick finds: nothing of what is destroyed is left to return.
LEMMA TickClean ==
    ASSUME Types, Names, Clean, NEW job, Tick(job)
    PROVE  /\ \A o \in destroyed : ~Unreturned(o) /\ ~(o = Conn /\ Conn \in replying)
           /\ draining' = FALSE /\ decoding' \in {"idle", "reading"}
           /\ ticks # <<>> /\ job = Head(ticks)
<1>0. destroyed \subseteq Objects /\ decoding \in {"idle", "reading", "failed"}
  BY CleanFacts
<1>1. (draining => ~Continuations) /\ draining' = FALSE /\ ticks # <<>> /\ job = Head(ticks)
  BY DEF Tick, RunTick
<1>2. decoding' \in {"idle", "reading"}
  BY <1>0 DEF Tick, PieceEnds, Clean, Sane
<1>3. \A o \in destroyed : ~Unreturned(o) /\ ~(o = Conn /\ Conn \in replying)
  BY <1>0, <1>1, NothingReturns DEF Clean
<1> QED
  BY <1>1, <1>2, <1>3

\* A method is handled that settles no call and ends no channel: what it
\* writes is allowed by the broker.
LEMMA MethodTakenClean ==
    ASSUME Types, Names, Clean, NEW job, Tick(job), job.type = "method", ticks' = Tail(ticks),
           job.for \in destroyed \/ job.m \in {"content", "flow"} \/ (job.for = Conn /\ job.m = "close"),
           replying' = replying \/ (replying' = replying \cup {Conn} /\ Conn \notin destroyed),
           UNCHANGED <<number, channels, call, destroyed, closed, toClient, broker, socketOpen, crashed>>,
           \A x \in Objects, m \in {"open", "close"} : Asks(toPeer', x, m) <=> Asks(toPeer, x, m),
           \A c \in Channels : Asks(toPeer', c, "close_ok") => Asks(toPeer, c, "close_ok"),
           \A c \in Channels : Asks(toPeer', c, "flow_ok") =>
               peer # "open" \/ Asks(toPeer, c, "flow_ok") \/ session[number[c]].for = c \/ call[c]["close"] \in Past,
           \A n : OneRequest(toPeer, n) => OneRequest(toPeer', n)
    PROVE  Clean'
<1>0. ticks \in Seq(Jobs) /\ destroyed \subseteq Objects /\ Objects = Channels \cup {Conn} /\ Conn \notin Channels
  BY CleanFacts
<1>1. /\ \A o \in destroyed : ~Unreturned(o) /\ ~(o = Conn /\ Conn \in replying)
      /\ draining' = FALSE /\ decoding' \in {"idle", "reading"}
      /\ ticks # <<>> /\ job = Head(ticks)
  BY TickClean
<1>2. /\ \A x : Nothing(ticks, toClient, x) => Nothing(Tail(ticks), toClient, x)
      /\ \A x, m : No(ticks, toClient, x, m) => No(Tail(ticks), toClient, x, m)
      /\ \A x, m : Uniq(ticks, toClient, x, m) => Uniq(Tail(ticks), toClient, x, m)
      /\ \A x : Final(ticks, toClient, x) => Final(Tail(ticks), toClient, x)
      /\ \A x, m : ~(job.for = x /\ job.m = m) /\ No(Tail(ticks), toClient, x, m) => No(ticks, toClient, x, m)
      /\ ~Nothing(ticks, toClient, job.for)
  BY <1>0, <1>1, HandlingTaken
<1>3. \A c \in Channels \ destroyed, m \in {"open_ok", "close_ok", "close"} :
         No(Tail(ticks), toClient, c, m) => No(ticks, toClient, c, m)
  BY <1>0, <1>2
<1>4. /\ Registered' /\ Dropped' /\ Dead' /\ Broker' /\ Asking' /\ Serving' /\ Served' /\ Coming' /\ ConnClose'
      /\ \A o \in Objects : (Unreturned(o))' => Unreturned(o)
      /\ \A o \in Objects : call'[o]["drop"] = call[o]["drop"]
  BY <1>2, <1>3, StillClean DEF broker
<1>5. Sane'
  BY <1>0, <1>1 DEF Clean, Sane, broker
<1>6. Known' /\ (Waits(ticks', Ended) => Waits(ticks, Ended))
  BY <1>0, <1>1, JobTaken DEF Clean, Known
<1>7. job.for \in Objects
  BY <1>1, HeadJob
<1>8. socketOpen \/ Conn \in destroyed
  BY <1>2, <1>7 DEF Clean, Failing
<1>9. Failing'
  BY <1>6, <1>8 DEF Clean, Failing
<1>10. Returning'
  BY <1>0, <1>1, <1>4 DEF Returning
<1> QED
  BY <1>4, <1>5, <1>6, <1>9, <1>10 DEF Clean

\* A method on a destroyed object is dropped.
LEMMA HandleDroppedClean ==
    ASSUME Types, Names, Clean, NEW job, job = Head(ticks), ticks # <<>>, job.type = "method", HandleDropped(job)
    PROVE  Clean'
<1>1. job.for = job.o
  BY CleanFacts, JobTaken DEF Clean, Known
<1> QED
  BY <1>1, MethodTakenClean DEF HandleDropped, objects

\* A flow is answered.
LEMMA HandleFlowClean ==
    ASSUME Types, Names, Clean, NEW job, job = Head(ticks), ticks # <<>>, job.type = "method", HandleFlow(job)
    PROVE  Clean'
<1> DEFINE c == job.o
<1>0. /\ ticks \in Seq(Jobs) /\ Objects = Channels \cup {Conn} /\ Conn \notin Channels
      /\ call \in [Objects -> [Kinds -> {"none", "scheduled", "pending", "resolved", "rejected"}]]
      /\ {"open", "close", "again", "drop"} = Kinds
      /\ number \in [Channels -> Numbers \cup {0}]
  BY CleanFacts
<1>1. job.for = c /\ (c # Conn => number[c] # 0)
  BY <1>0, JobTaken DEF Clean, Known, Names, Numbered
<1>2. c \in Channels /\ c \notin destroyed /\ job.m = "flow"
  <2>1. job.m = "flow" /\ c \notin destroyed
    BY DEF HandleFlow
  <2>2. c \in Objects /\ (c = Conn => job.m \in {"close", "close_ok"})
    BY <1>1, HeadJob
  <2> QED
    BY <1>0, <2>1, <2>2
<1>3. Write(c, "flow_ok")
  BY DEF HandleFlow
<1>4. ~Nothing(ticks, toClient, c)
  BY <1>0, <1>1, HandlingTaken
<1>5. UNCHANGED <<stage, number, channels, call, destroyed, closed, replying, toClient, broker, socketOpen, crashed>>
          /\ Tick(job) /\ ticks' = Tail(ticks)
  BY DEF HandleFlow
<1> HIDE DEF c
<1>6. Names => Numbered
  BY DEF Names
<1>7. /\ \A x, k : Asks(toPeer', x, k) <=> Asks(toPeer, x, k) \/ (socketOpen /\ x = c /\ k = "flow_ok")
      /\ \A n : OneRequest(toPeer, n) => OneRequest(toPeer', n)
  BY <1>0, <1>1, <1>2, <1>3, <1>6, Written
<1>8. socketOpen => peer # "open" \/ session[number[c]].for = c \/ call[c]["close"] \in Past
  <2> SUFFICES ASSUME Linked PROVE session[number[c]].for = c \/ call[c]["close"] \in Past
    BY DEF Linked
  <2>1. call[c]["open"] \in {"pending", "resolved"}
    BY <1>2, <1>4 DEF Clean, Coming
  <2>2. CASE call[c]["open"] = "pending"
    BY <1>2, <1>4, <2>2 DEF Clean, Asking, Served
  <2>3. CASE call[c]["open"] = "resolved"
    <3>1. call[c]["close"] \in {"none", "scheduled", "pending", "resolved", "rejected"}
      BY <1>0, <1>2
    <3> QED
      BY <1>2, <2>3, <3>1 DEF Clean, Served, Past
  <2> QED
    BY <2>1, <2>2, <2>3
<1> QED
  BY <1>0, <1>1, <1>2, <1>5, <1>7, <1>8, MethodTakenClean

\* Content is taken, or the channel is destroyed by its handler.
LEMMA HandleContentClean ==
    ASSUME Types, Names, Clean, NEW job, job = Head(ticks), ticks # <<>>, job.type = "method", HandleContent(job)
    PROVE  Spoilt' \/ Clean'
<1>1. CASE job.o \in Destroyers /\ DestroyChannel(job.o, closed, Tail(ticks))
  BY <1>1 DEF Spoilt, DestroyChannel, DestroyAll
<1>2. CASE ticks' = Tail(ticks) /\ UNCHANGED <<call, destroyed, closed, channels, socketOpen, toClient, crashed>>
  <2>1. job.m = "content" /\ Tick(job) /\ UNCHANGED <<stage, number, replying, toPeer, broker>>
    BY DEF HandleContent
  <2> QED
    BY <1>2, <2>1, MethodTakenClean
<1> QED
  BY <1>1, <1>2 DEF HandleContent

\* A close of the broker is answered.
LEMMA HandleCloseClean ==
    ASSUME Types, Names, Clean, NEW job, job = Head(ticks), ticks # <<>>, job.type = "method", HandleClose(job)
    PROVE  Spoilt' \/ Clean'
<1>0. /\ ticks \in Seq(Jobs) /\ Objects = Channels \cup {Conn} /\ Conn \notin Channels
      /\ number \in [Channels -> Numbers \cup {0}] /\ replying \subseteq {Conn}
  BY CleanFacts DEF Clean, Sane
<1>1. job.for = job.o /\ (job.o # Conn => number[job.o] # 0)
  BY <1>0, JobTaken DEF Clean, Known, Names, Numbered
<1>2. job.m = "close" /\ job.o \notin destroyed /\ job.o \in Objects
  BY HeadJob DEF HandleClose
<1>3. /\ Write(job.o, "close_ok") /\ replying' = replying \cup {job.o} /\ Tick(job) /\ ticks' = Tail(ticks)
      /\ UNCHANGED <<stage, number, channels, call, destroyed, closed, toClient, broker, socketOpen, crashed>>
  BY DEF HandleClose
<1>4. ~No(ticks, toClient, job.for, "close")
  BY <1>0, <1>2, HandlingTaken
<1>5. CASE job.o = Conn
  <2>1. Names => Numbered
    BY DEF Names
  <2>2. /\ \A x, k : Asks(toPeer', x, k) <=> Asks(toPeer, x, k) \/ (socketOpen /\ x = Conn /\ k = "close_ok")
        /\ \A n : OneRequest(toPeer, n) => OneRequest(toPeer', n)
    BY <1>0, <1>2, <1>3, <1>5, <2>1, Written
  <2> QED
    BY <1>0, <1>1, <1>2, <1>3, <1>5, <2>2, MethodTakenClean
<1>6. CASE job.o # Conn
  <2>1. PICK c \in Channels : c = job.o
    BY <1>0, <1>2, <1>6
  <2>2. c \in PeerCloses /\ c \notin destroyed
    BY <1>1, <1>2, <1>4, <2>1 DEF Clean, Coming
  <2>3. c \in replying'
    BY <1>3, <2>1
  <2>4. number[c] # 0 /\ channels[number[c]] = c
    BY <1>1, <1>2, <1>6, <2>1 DEF Clean, Registered
  <2>5. Conn \notin destroyed
    <3>1. number[c] \in Numbers /\ c # None
      BY <1>0, <2>4, CleanFacts
    <3> QED
      BY <2>4, <3>1 DEF Names, Over
  <2>6. ASSUME NEW d \in Channels \ {c}, number[d] = number[c]
        PROVE  d \in destroyed /\ d \notin replying' /\ ~Unreturned(d)
    <3>1. d \in destroyed
      BY <2>4, <2>6 DEF Clean, Registered
    <3> QED
      BY <1>0, <1>3, <2>1, <2>5, <2>6, <3>1 DEF Clean, Dead, Unreturned
  <2>7. Safe(c)'
    BY <1>3, <2>4, <2>6 DEF Safe, Unreturned, Resolved
  <2> QED
    BY <2>2, <2>3, <2>7 DEF Spoilt
<1> QED
  BY <1>5, <1>6

\* An answer settles the call that waits for it.
LEMMA AnswerSettles ==
    ASSUME Types, Names, Clean, ~Repeated, NEW job, job = Head(ticks), ticks # <<>>, job.type = "method", HandleAnswer(job)
    PROVE  /\ job.for = job.o /\ job.o \in Objects \ destroyed /\ socketOpen /\ Conn \notin destroyed
           /\ \/ job.o \in Channels /\ job.m = "open_ok" /\ call' = [call EXCEPT ![job.o]["open"] = "resolved"]
              \/ job.m = "close_ok" /\ call' = [call EXCEPT ![job.o]["close"] = "resolved"]
           /\ crashed' = FALSE
<1>0. /\ ticks \in Seq(Jobs) /\ Objects = Channels \cup {Conn} /\ Conn \notin Channels /\ None \notin Channels
      /\ number \in [Channels -> Numbers \cup {0}] /\ {"open", "close", "again", "drop"} = Kinds
      /\ call \in [Objects -> [Kinds -> {"none", "scheduled", "pending", "resolved", "rejected"}]]
  BY CleanFacts
<1>1. job.for = job.o /\ (job.o # Conn => number[job.o] # 0)
  BY <1>0, JobTaken DEF Clean, Known, Names, Numbered
<1>2. job.m \in {"open_ok", "close_ok"} /\ job.o \notin destroyed /\ job.o \in Objects /\ (job.o = Conn => job.m = "close_ok")
  BY <1>1, HeadJob DEF HandleAnswer
<1>3. ~No(ticks, toClient, job.o, job.m) /\ ~Nothing(ticks, toClient, job.o)
  BY <1>0, <1>1, HandlingTaken
<1>4. Conn \notin destroyed
  <2> SUFFICES ASSUME job.o # Conn PROVE Conn \notin destroyed
    BY <1>2
  <2>1. number[job.o] \in Numbers /\ channels[number[job.o]] = job.o /\ job.o # None
    BY <1>0, <1>1, <1>2 DEF Clean, Registered
  <2> QED
    BY <2>1 DEF Names, Over
<1>5. socketOpen
  BY <1>2, <1>3, <1>4 DEF Clean, Failing
<1>6. call[job.o]["drop"] = "none" /\ call[job.o]["again"] = "none"
  BY <1>2, <1>5 DEF Clean, Dropped, Repeated
<1>7. call[job.o][IF job.m = "open_ok" THEN "open" ELSE "close"] = "pending"
  <2>1. CASE job.o = Conn
    BY <1>2, <1>3, <1>4, <2>1 DEF Clean, ConnClose
  <2>2. CASE job.o # Conn
    BY <1>0, <1>2, <1>3, <2>2 DEF Clean, Coming
  <2> QED
    BY <2>1, <2>2
<1>8. Answers(job) = IF job.m = "open_ok" THEN {"open"} ELSE {"close"}
  <2>1. CASE job.m = "open_ok"
    BY <1>0, <1>7, <2>1 DEF Answers
  <2>2. CASE job.m = "close_ok"
    BY <1>0, <1>6, <1>7, <2>2 DEF Answers
  <2> QED
    BY <1>2, <2>1, <2>2
<1>9. crashed' = crashed /\ \E k \in Answers(job) : call' = [call EXCEPT ![job.o][k] = "resolved"]
  BY <1>8 DEF HandleAnswer
<1>10. ~crashed /\ crashed \in BOOLEAN
  BY DEF Clean, Sane, Types, TypeOK
<1> QED
  BY <1>0, <1>1, <1>2, <1>4, <1>5, <1>8, <1>9, <1>10

\* An answer finds the call that waits for it, and settles it.
LEMMA HandleAnswerClean ==
    ASSUME Types, Names, Clean, ~Repeated, NEW job, job = Head(ticks), ticks # <<>>, job.type = "method", HandleAnswer(job)
    PROVE  Clean'
<1> DEFINE o == job.o
<1>0. /\ ticks \in Seq(Jobs) /\ Objects = Channels \cup {Conn} /\ Conn \notin Channels /\ None \notin Channels
      /\ number \in [Channels -> Numbers \cup {0}] /\ {"open", "close", "again", "drop"} = Kinds
      /\ call \in [Objects -> [Kinds -> {"none", "scheduled", "pending", "resolved", "rejected"}]]
      /\ destroyed \subseteq Objects
      /\ \A n \in Numbers : session[n].state = "closed" <=> session[n].for = None
      /\ session \in [Numbers -> [state : {"closed", "open", "closing"}, for : Channels \cup {None}]]
  BY CleanFacts
<1>1. /\ job.for = o /\ o \in Objects \ destroyed /\ socketOpen /\ Conn \notin destroyed
      /\ \/ o \in Channels /\ job.m = "open_ok" /\ call' = [call EXCEPT ![o]["open"] = "resolved"]
         \/ job.m = "close_ok" /\ call' = [call EXCEPT ![o]["close"] = "resolved"]
      /\ crashed' = FALSE
  BY AnswerSettles
<1>2. /\ Tick(job) /\ ticks' = Tail(ticks)
      /\ UNCHANGED <<stage, number, channels, destroyed, closed, replying, toPeer, toClient, session, peer, contents,
             offence, socketOpen>>
  BY DEF HandleAnswer, broker
<1>3. /\ \A d \in destroyed : ~Unreturned(d) /\ ~(d = Conn /\ Conn \in replying)
      /\ draining' = FALSE /\ decoding' \in {"idle", "reading"}
  BY <1>2, TickClean
<1>4. /\ \A x : Nothing(ticks, toClient, x) => Nothing(Tail(ticks), toClient, x)
      /\ \A x, m : No(ticks, toClient, x, m) => No(Tail(ticks), toClient, x, m)
      /\ \A x, m : Uniq(ticks, toClient, x, m) => Uniq(Tail(ticks), toClient, x, m)
      /\ \A x : Final(ticks, toClient, x) => Final(Tail(ticks), toClient, x)
      /\ \A x, m : ~(o = x /\ job.m = m) /\ No(Tail(ticks), toClient, x, m) => No(ticks, toClient, x, m)
      /\ ~Nothing(ticks, toClient, o) /\ ~No(ticks, toClient, o, job.m)
      /\ Uniq(ticks, toClient, o, job.m) => No(Tail(ticks), toClient, o, job.m)
      /\ job.m = "close_ok" /\ Final(ticks, toClient, o) => Nothing(Tail(ticks), toClient, o)
  BY <1>0, <1>1, HandlingTaken
<1> HIDE DEF o
<1>5. /\ \A x \in Objects : x # o => call'[x] = call[x]
      /\ job.m = "open_ok" => o \in Channels /\ call'[o]["open"] = "resolved" /\ call'[o]["close"] = call[o]["close"]
      /\ job.m = "close_ok" => call'[o]["open"] = call[o]["open"] /\ call'[o]["close"] = "resolved"
      /\ call'[o]["drop"] = call[o]["drop"]
      /\ job.m \in {"open_ok", "close_ok"}
  BY <1>0, <1>1
<1>6. Sane' /\ Registered'
  BY <1>1, <1>2, <1>3 DEF Clean, Sane, Registered
<1>7. Dropped' /\ Dead'
  <2>1. \A x \in Objects : call'[x]["drop"] = call[x]["drop"]
    BY <1>1, <1>5
  <2>2. \A x \in destroyed : call'[x] = call[x]
    BY <1>0, <1>1, <1>5
  <2>3. Dropped'
    BY <1>2, <2>1 DEF Clean, Dropped
  <2>4. Dead'
    BY <1>2, <2>2 DEF Clean, Dead
  <2> QED
    BY <2>3, <2>4
<1>8. Known' /\ (Waits(ticks', Ended) => Waits(ticks, Ended))
  BY <1>0, <1>2, JobTaken DEF Clean, Known
<1>9. Failing'
  BY <1>1, <1>2, <1>8 DEF Clean, Failing
<1>10. Returning'
  <2>1. \A d \in destroyed : (Unreturned(d))' => Unreturned(d)
    BY <1>0, <1>1, <1>2, <1>5 DEF Unreturned, Resolved
  <2> QED
    BY <1>2, <1>3, <2>1 DEF Returning
<1>11. Broker'
  <2>1. \A c \in Channels : call[c]["close"] \in Past => call'[c]["close"] \in Past
    BY <1>0, <1>5 DEF Past
  <2> QED
    BY <1>2, <2>1 DEF Clean, Broker
<1>12. Asking'
  <2> SUFFICES ASSUME Linked, NEW c \in Channels
               PROVE  /\ Asks(toPeer, c, "open") =>
                            c \notin destroyed /\ call'[c]["open"] = "pending" /\ Nothing(Tail(ticks), toClient, c)
                      /\ Asks(toPeer, c, "close") =>
                            c \notin destroyed /\ call'[c]["close"] = "pending"
                                /\ No(Tail(ticks), toClient, c, "close_ok")
    BY <1>2 DEF Asking, Linked
  <2>1. /\ Asks(toPeer, c, "open") =>
              c \notin destroyed /\ call[c]["open"] = "pending" /\ Nothing(ticks, toClient, c)
        /\ Asks(toPeer, c, "close") =>
              c \notin destroyed /\ call[c]["close"] = "pending" /\ No(ticks, toClient, c, "close_ok")
    BY DEF Clean, Asking
  <2> QED
    BY <1>0, <1>4, <1>5, <2>1
<1>13. Serving'
  <2> SUFFICES ASSUME Linked, NEW n \in Numbers, NEW c \in Channels, session[n].for = c
               PROVE  /\ channels[n] = c
                      /\ \/ call'[c]["open"] = "resolved"
                         \/ call'[c]["open"] = "pending" /\ ~No(Tail(ticks), toClient, c, "open_ok")
                      /\ call'[c]["close"] # "resolved"
                      /\ session[n].state = "open" => No(Tail(ticks), toClient, c, "close_ok")
                      /\ session[n].state = "closing" => ~No(Tail(ticks), toClient, c, "close")
    BY <1>2 DEF Serving, Linked
  <2>1. /\ channels[n] = c
        /\ \/ call[c]["open"] = "resolved"
           \/ call[c]["open"] = "pending" /\ ~No(ticks, toClient, c, "open_ok")
        /\ call[c]["close"] # "resolved"
        /\ session[n].state = "open" => No(ticks, toClient, c, "close_ok")
        /\ session[n].state = "closing" => ~No(ticks, toClient, c, "close")
    BY DEF Clean, Serving
  <2>2. session[n].state \in {"open", "closing"}
    BY <1>0
  <2>3. ~(c = o /\ job.m = "close_ok")
    <3> SUFFICES ASSUME c = o, job.m = "close_ok" PROVE FALSE
      OBVIOUS
    <3>1. ~No(ticks, toClient, c, "close")
      BY <1>4, <2>1, <2>2
    <3>2. ~No(Tail(ticks), toClient, c, "close")
      BY <1>4, <3>1
    <3>3. Nothing(Tail(ticks), toClient, c)
      BY <1>1, <1>4 DEF Clean, Coming
    <3> QED
      BY <3>2, <3>3, NothingIsNo
  <2> QED
    BY <1>0, <1>4, <1>5, <2>1, <2>3
<1>14. Served'
  <2> SUFFICES ASSUME Linked, NEW c \in Channels \ destroyed
               PROVE  /\ call'[c]["open"] = "pending" => Asks(toPeer, c, "open") \/ session[number[c]].for = c
                      /\ call'[c]["open"] = "resolved" /\ call'[c]["close"] \in {"none", "scheduled"}
                             => session[number[c]].for = c
                      /\ call'[c]["close"] = "pending" => Asks(toPeer, c, "close") \/ ~No(Tail(ticks), toClient, c, "close_ok")
    BY <1>2 DEF Served, Linked
  <2>1. /\ call[c]["open"] = "pending" => Asks(toPeer, c, "open") \/ session[number[c]].for = c
        /\ call[c]["open"] = "resolved" /\ call[c]["close"] \in {"none", "scheduled"} => session[number[c]].for = c
        /\ call[c]["close"] = "pending" => Asks(toPeer, c, "close") \/ ~No(ticks, toClient, c, "close_ok")
    BY DEF Clean, Served
  <2>2. c = o => ~Asks(toPeer, c, "open")
    BY <1>4 DEF Clean, Asking
  <2>3. c = o /\ job.m = "open_ok" => call[c]["open"] = "pending"
    BY <1>4 DEF Clean, Coming
  <2> QED
    BY <1>0, <1>4, <1>5, <2>1, <2>2, <2>3
<1>15. Coming'
  <2> SUFFICES ASSUME NEW c \in Channels \ destroyed
               PROVE  /\ ~Nothing(Tail(ticks), toClient, c)
                             => call'[c]["open"] \in {"pending", "resolved"} /\ call'[c]["close"] # "resolved"
                      /\ ~No(Tail(ticks), toClient, c, "open_ok") => call'[c]["open"] = "pending"
                      /\ ~No(Tail(ticks), toClient, c, "close_ok") => call'[c]["close"] = "pending"
                      /\ ~No(Tail(ticks), toClient, c, "close") => c \in PeerCloses
                      /\ Uniq(Tail(ticks), toClient, c, "open_ok") /\ Final(Tail(ticks), toClient, c)
    BY <1>2 DEF Coming
  <2>1. /\ ~Nothing(ticks, toClient, c) => call[c]["open"] \in {"pending", "resolved"} /\ call[c]["close"] # "resolved"
        /\ ~No(ticks, toClient, c, "open_ok") => call[c]["open"] = "pending"
        /\ ~No(ticks, toClient, c, "close_ok") => call[c]["close"] = "pending"
        /\ ~No(ticks, toClient, c, "close") => c \in PeerCloses
        /\ Uniq(ticks, toClient, c, "open_ok") /\ Final(ticks, toClient, c)
    BY DEF Clean, Coming
  <2>2. CASE c # o
    BY <1>0, <1>4, <1>5, <2>1, <2>2
  <2>3. CASE c = o /\ job.m = "open_ok"
    BY <1>0, <1>4, <1>5, <2>1, <2>3
  <2>4. CASE c = o /\ job.m = "close_ok"
    <3>1. Nothing(Tail(ticks), toClient, c)
      BY <1>4, <2>1, <2>4
    <3>2. \A m : No(Tail(ticks), toClient, c, m)
      BY <3>1, NothingIsNo
    <3> QED
      BY <1>4, <2>1, <3>1, <3>2
  <2> QED
    BY <1>5, <2>2, <2>3, <2>4
<1>16. ConnClose'
  <2>1. /\ ~No(ticks, toClient, Conn, "close_ok") => peer = "closed"
        /\ Uniq(ticks, toClient, Conn, "close_ok") /\ OneRequest(toPeer, 0)
        /\ ~No(ticks, toClient, Conn, "close_ok") => call[Conn]["close"] = "pending"
        /\ Asks(toPeer, Conn, "close") => call[Conn]["close"] = "pending" /\ No(ticks, toClient, Conn, "close_ok")
    BY <1>1 DEF Clean, ConnClose
  <2>2. CASE o # Conn
    <3>1. call'[Conn] = call[Conn]
      BY <1>0, <1>5, <2>2
    <3> QED
      BY <1>2, <1>4, <2>1, <3>1 DEF ConnClose
  <2>3. CASE o = Conn
    <3>1. job.m = "close_ok"
      BY <1>0, <1>5, <2>3
    <3>2. No(Tail(ticks), toClient, Conn, "close_ok") /\ ~Asks(toPeer, Conn, "close")
      BY <1>4, <2>1, <2>3, <3>1
    <3> QED
      BY <1>2, <1>4, <2>1, <3>2 DEF ConnClose
  <2> QED
    BY <2>2, <2>3
<1> QED
  BY <1>6, <1>7, <1>8, <1>9, <1>10, <1>11, <1>12, <1>13, <1>14, <1>15, <1>16 DEF Clean

\* Every method that is handled.
LEMMA HandleMethodClean ==
    ASSUME Types, Names, Clean, ~Repeated, HandleMethod
    PROVE  Spoilt' \/ Clean'
BY HandleDroppedClean, HandleAnswerClean, HandleCloseClean, HandleFlowClean, HandleContentClean DEF HandleMethod

\* A call that is to be made finds no request of its object, nor of another
\* under its number.
LEMMA NoRequest ==
    ASSUME Types, Names, Clean, socketOpen, NEW o \in Objects, NEW k \in {"open", "close"},
           call[o][k] = "scheduled", o # Conn => peer = "open"
    PROVE  /\ o \notin destroyed /\ (o # Conn => number[o] \in Numbers /\ channels[number[o]] = o)
           /\ \A m \in {"open", "close"} : ~Asks(toPeer, o, m)
           /\ \A i \in 1..Len(toPeer) : toPeer[i].n = NumberOf(o) => toPeer[i].m \notin {"open", "close"}
<1>0. /\ Objects = Channels \cup {Conn} /\ Conn \notin Channels /\ None \notin Channels
      /\ number \in [Channels -> Numbers \cup {0}] /\ {"open", "close", "again", "drop"} = Kinds /\ 0 \notin Numbers
      /\ toPeer \in Seq(ToPeer)
  BY CleanFacts
<1>1. Conn \notin destroyed
  BY DEF Names, Over
<1>2. o \notin destroyed
  BY <1>0, <1>1 DEF Clean, Dead
<1>3. o # Conn => number[o] \in Numbers /\ channels[number[o]] = o
  BY <1>0, <1>2 DEF Clean, Registered, Names, Numbered
<1>4. \A i \in 1..Len(toPeer) : /\ toPeer[i] \in ToPeer
                                /\ toPeer[i].m \in {"open", "close"} => Asks(toPeer, toPeer[i].for, toPeer[i].m)
  BY <1>0 DEF Asks
<1>5. ASSUME NEW m \in {"open", "close"}, Asks(toPeer, o, m) PROVE FALSE
  <2>1. CASE o = Conn
    <3>1. PICK i \in 1..Len(toPeer) : toPeer[i].for = Conn /\ toPeer[i].m = m
      BY <1>5, <2>1 DEF Asks
    <3>2. m = "close" /\ k = "close"
      BY <1>0, <1>4, <2>1, <3>1 DEF ToPeer, Names, Called
    <3> QED
      BY <1>1, <1>5, <2>1, <3>2 DEF Clean, ConnClose
  <2>2. CASE o # Conn
    <3>1. o \in Channels /\ Linked
      BY <1>0, <2>2 DEF Linked
    <3>2. m = "open" => call[o]["open"] = "pending"
      BY <1>5, <3>1 DEF Clean, Asking
    <3>3. m = "close" => call[o]["close"] = "pending"
      BY <1>5, <3>1 DEF Clean, Asking
    <3>4. call[o]["close"] # "none" => call[o]["open"] = "resolved"
      BY <3>1 DEF Names, Called
    <3> QED
      BY <3>2, <3>3, <3>4
  <2> QED
    BY <2>1, <2>2
<1>6. ASSUME NEW i \in 1..Len(toPeer), toPeer[i].n = NumberOf(o), toPeer[i].m \in {"open", "close"}
      PROVE  FALSE
  <2>1. Asks(toPeer, toPeer[i].for, toPeer[i].m)
    BY <1>4, <1>6
  <2>2. CASE o = Conn
    <3>1. toPeer[i].for = Conn
      BY <1>0, <1>4, <1>6, <2>2 DEF ToPeer, NumberOf
    <3> QED
      BY <1>5, <1>6, <2>1, <2>2, <3>1
  <2>3. CASE o # Conn
    <3>1. toPeer[i].for \in Channels /\ toPeer[i].n = number[o]
      BY <1>0, <1>3, <1>4, <1>6, <2>3 DEF ToPeer, NumberOf
    <3>2. number[toPeer[i].for] = number[o]
      BY <1>0, <3>1 DEF Names, Numbered, Signed
    <3>3. toPeer[i].for \notin destroyed
      BY <1>6, <2>1, <2>3, <3>1 DEF Clean, Asking, Linked
    <3>4. channels[number[o]] = toPeer[i].for
      BY <1>0, <1>3, <2>3, <3>1, <3>2, <3>3 DEF Clean, Registered
    <3> QED
      BY <1>3, <1>5, <1>6, <2>1, <2>3, <3>4
  <2> QED
    BY <2>2, <2>3
<1> QED
  BY <1>2, <1>3, <1>5, <1>6

\* A call is registered and its request written.
LEMMA CallTickClean ==
    ASSUME Types, Names, Clean, ~Repeated, NEW o \in Objects, NEW k \in Kinds, CallTick(o, k)
    PROVE  Clean'
<1> DEFINE m == IF k = "open" THEN "open" ELSE "close"
<1>0. /\ ticks \in Seq(Jobs) /\ Objects = Channels \cup {Conn} /\ Conn \notin Channels /\ None \notin Channels
      /\ number \in [Channels -> Numbers \cup {0}] /\ {"open", "close", "again", "drop"} = Kinds /\ 0 \notin Numbers
      /\ call \in [Objects -> [Kinds -> {"none", "scheduled", "pending", "resolved", "rejected"}]]
      /\ destroyed \subseteq Objects
      /\ session \in [Numbers -> [state : {"closed", "open", "closing"}, for : Channels \cup {None}]]
  BY CleanFacts
<1>1. /\ Tick(CallJob(o, k)) /\ ticks' = Tail(ticks) /\ call' = [call EXCEPT ![o][k] = "pending"]
      /\ Write(o, m)
      /\ UNCHANGED <<stage, number, channels, destroyed, closed, replying, toClient, session, peer, contents, offence,
             socketOpen, crashed>>
  BY DEF CallTick, broker
<1>2. /\ \A d \in destroyed : ~Unreturned(d) /\ ~(d = Conn /\ Conn \in replying)
      /\ draining' = FALSE /\ decoding' \in {"idle", "reading"}
      /\ ticks # <<>> /\ CallJob(o, k) = Head(ticks)
  BY <1>1, TickClean
<1>3. call[o][k] = "scheduled"
  BY CallTickNames
<1>4. Head(ticks).type # "method"
  BY <1>2, JobsDiffer
<1>5. Kept(ticks, toClient, Tail(ticks), toClient)
  BY <1>0, <1>2, <1>4, OtherTaken
<1>6. Names => Numbered
  BY DEF Names
<1>7. o # Conn => number[o] \in Numbers /\ number[o] # 0
  BY <1>0, <1>3 DEF Names, Numbered
<1>8. k = "open" => o # Conn
  BY <1>3 DEF Names, Called
<1> HIDE DEF m
<1>9. /\ \A x, j : Asks(toPeer', x, j) <=> Asks(toPeer, x, j) \/ (socketOpen /\ x = o /\ j = m)
      /\ ~socketOpen => toPeer' = toPeer
      /\ \A n : /\ OneRequest(toPeer, n)
                /\ \/ NumberOf(o) # n \/ m \notin {"open", "close"}
                   \/ \A i \in 1..Len(toPeer) : toPeer[i].n = n => toPeer[i].m \notin {"open", "close"}
                => OneRequest(toPeer', n)
  <2>1. IF o = Conn THEN m \in {"close", "close_ok"}
                    ELSE number[o] # 0 /\ m \in {"open", "close", "close_ok", "flow_ok"}
    BY <1>7, <1>8 DEF m
  <2> QED
    BY <1>1, <1>6, <2>1, Written
<1>10. /\ \A x \in Objects, j \in Kinds : call'[x][j] = call[x][j] \/ (x = o /\ j = k /\ call[x][j] = "scheduled" /\ call'[x][j] = "pending")
       /\ call'[o][k] = "pending"
  BY <1>0, <1>1, <1>3
<1>11. socketOpen => k \in {"open", "close"} /\ m = k
  BY <1>0, <1>3 DEF Clean, Dropped, Repeated, m
<1>12. Sane' /\ Registered'
  BY <1>1, <1>2 DEF Clean, Sane, Registered
<1>13. Dropped'
  <2>1. \A x \in Objects : call'[x]["drop"] # "none" => call[x]["drop"] # "none"
    BY <1>0, <1>10
  <2> QED
    BY <1>1, <2>1 DEF Clean, Dropped
<1>14. Dead'
  BY <1>0, <1>1, <1>10 DEF Clean, Dead
<1>15. Known' /\ (Waits(ticks', Ended) => Waits(ticks, Ended))
  BY <1>0, <1>1, <1>2, JobTaken DEF Clean, Known
<1>16. \A x \in Objects : (Unreturned(x))' => Unreturned(x)
  BY <1>0, <1>1, <1>10 DEF Unreturned, Resolved
<1>17. Failing'
  BY <1>1, <1>5, <1>15, <1>16 DEF Clean, Failing, Kept
<1>18. Returning'
  BY <1>0, <1>1, <1>2, <1>16 DEF Returning
<1>19. /\ \A x \in Objects, j \in Kinds, e \in {"resolved", "rejected"} : call'[x][j] = e <=> call[x][j] = e
       /\ \A x \in Objects, j \in Kinds : call[x][j] = "pending" => call'[x][j] = "pending"
       /\ \A x \in Objects : call[x]["close"] \in Past => call'[x]["close"] \in Past
  BY <1>0, <1>10 DEF Past
<1>20. socketOpen /\ o # Conn /\ peer = "open" =>
           /\ o \notin destroyed /\ channels[number[o]] = o
           /\ \A j \in {"open", "close"} : ~Asks(toPeer, o, j)
           /\ \A i \in 1..Len(toPeer) : toPeer[i].n = NumberOf(o) => toPeer[i].m \notin {"open", "close"}
  BY <1>3, <1>11, NoRequest
<1>21. Broker'
  <2> SUFFICES ASSUME peer = "open" PROVE Broker'
    BY <1>1 DEF Broker
  <2>1. /\ \A c \in Channels :
              /\ Asks(toPeer, c, "open") => session[number[c]].for = None
              /\ Asks(toPeer, c, "close") => session[number[c]].for = c /\ call[c]["close"] \in Past
              /\ Asks(toPeer, c, "flow_ok") => session[number[c]].for = c \/ call[c]["close"] \in Past
              /\ ~Asks(toPeer, c, "close_ok")
        /\ \A n \in Numbers : OneRequest(toPeer, n)
    BY DEF Clean, Broker
  <2>2. CASE ~socketOpen
    BY <1>0, <1>1, <1>9, <1>19, <2>1, <2>2 DEF Broker
  <2>3. CASE socketOpen
    <3>1. m = k /\ k \in {"open", "close"}
      BY <1>11, <2>3
    <3>2. ASSUME NEW c \in Channels, c = o, k = "open"
          PROVE  session[number[c]].for = None
      <4>1. channels[number[c]] = c /\ number[c] \in Numbers
        BY <1>0, <1>7, <1>20, <2>3, <3>2
      <4>2. session[number[c]].for \in Channels => channels[number[c]] = session[number[c]].for
        BY <2>3, <4>1 DEF Clean, Serving, Linked
      <4>3. session[number[c]].for # c
        <5>1. call[c]["open"] # "resolved" /\ call[c]["open"] # "pending"
          BY <1>3, <3>2
        <5> QED
          BY <2>3, <4>1, <5>1 DEF Clean, Serving, Linked
      <4> QED
        BY <1>0, <4>1, <4>2, <4>3
    <3>3. ASSUME NEW c \in Channels, c = o, k = "close"
          PROVE  session[number[c]].for = c /\ call'[c]["close"] \in Past
      <4>1. call[c]["open"] = "resolved" /\ call[c]["close"] = "scheduled" /\ c \notin destroyed
        BY <1>0, <1>3, <1>20, <2>3, <3>3 DEF Names, Called
      <4> QED
        BY <1>10, <2>3, <3>3, <4>1 DEF Clean, Served, Linked, Past
    <3>4. ASSUME NEW c \in Channels
          PROVE  /\ Asks(toPeer', c, "open") => session[number[c]].for = None
                 /\ Asks(toPeer', c, "close") => session[number[c]].for = c /\ call'[c]["close"] \in Past
                 /\ Asks(toPeer', c, "flow_ok") => session[number[c]].for = c \/ call'[c]["close"] \in Past
                 /\ ~Asks(toPeer', c, "close_ok")
      BY <1>0, <1>9, <1>19, <2>1, <3>1, <3>2, <3>3
    <3>5. ASSUME NEW n \in Numbers
          PROVE  OneRequest(toPeer', n)
      <4>1. NumberOf(o) = n => o # Conn
        BY <1>0 DEF NumberOf
      <4> QED
        BY <1>9, <1>20, <2>1, <2>3, <4>1
    <3> QED
      BY <1>1, <3>4, <3>5 DEF Broker
  <2> QED
    BY <2>2, <2>3
<1>22. Asking'
  <2> SUFFICES ASSUME Linked, NEW c \in Channels
               PROVE  /\ Asks(toPeer', c, "open") =>
                            c \notin destroyed /\ call'[c]["open"] = "pending" /\ Nothing(Tail(ticks), toClient, c)
                      /\ Asks(toPeer', c, "close") =>
                            c \notin destroyed /\ call'[c]["close"] = "pending"
                                /\ No(Tail(ticks), toClient, c, "close_ok")
    BY <1>1 DEF Asking, Linked
  <2>1. /\ Asks(toPeer, c, "open") =>
              c \notin destroyed /\ call[c]["open"] = "pending" /\ Nothing(ticks, toClient, c)
        /\ Asks(toPeer, c, "close") =>
              c \notin destroyed /\ call[c]["close"] = "pending" /\ No(ticks, toClient, c, "close_ok")
    BY DEF Clean, Asking
  <2>2. c # o => \A j : Asks(toPeer', c, j) <=> Asks(toPeer, c, j)
    BY <1>9
  <2>3. CASE c # o
    BY <1>0, <1>5, <1>19, <2>1, <2>2, <2>3 DEF Kept
  <2>4. CASE c = o
    <3>1. o \notin destroyed /\ ~Asks(toPeer, c, "open") /\ ~Asks(toPeer, c, "close") /\ m = k
      BY <1>0, <1>11, <1>20, <2>4 DEF Linked
    <3>2. k = "open" => Nothing(ticks, toClient, c)
      BY <1>3, <2>4, <3>1 DEF Clean, Coming
    <3>3. k = "close" => No(ticks, toClient, c, "close_ok")
      BY <1>3, <2>4, <3>1 DEF Clean, Coming
    <3> QED
      BY <1>5, <1>9, <1>10, <2>4, <3>1, <3>2, <3>3 DEF Kept
  <2> QED
    BY <2>3, <2>4
<1>23. Serving'
  <2>1. \A c \in Channels :
           /\ call[c]["open"] = "resolved" => call'[c]["open"] = "resolved"
           /\ call[c]["open"] = "pending" => call'[c]["open"] = "pending"
           /\ call[c]["close"] # "resolved" => call'[c]["close"] # "resolved"
    BY <1>0, <1>19
  <2> QED
    BY <1>1, <1>5, <2>1 DEF Clean, Serving, Linked, Kept
<1>24. Served'
  <2> SUFFICES ASSUME Linked, NEW c \in Channels \ destroyed
               PROVE  /\ call'[c]["open"] = "pending" => Asks(toPeer', c, "open") \/ session[number[c]].for = c
                      /\ call'[c]["open"] = "resolved" /\ call'[c]["close"] \in {"none", "scheduled"}
                             => session[number[c]].for = c
                      /\ call'[c]["close"] = "pending" => Asks(toPeer', c, "close") \/ ~No(Tail(ticks), toClient, c, "close_ok")
    BY <1>1 DEF Served, Linked
  <2>1. /\ call[c]["open"] = "pending" => Asks(toPeer, c, "open") \/ session[number[c]].for = c
        /\ call[c]["open"] = "resolved" /\ call[c]["close"] \in {"none", "scheduled"} => session[number[c]].for = c
        /\ call[c]["close"] = "pending" => Asks(toPeer, c, "close") \/ ~No(ticks, toClient, c, "close_ok")
    BY DEF Clean, Served
  <2>2. m = k /\ socketOpen
    BY <1>11 DEF Linked
  <2>3. /\ call'[c]["open"] = "pending" => call[c]["open"] = "pending" \/ (c = o /\ k = "open")
        /\ call'[c]["close"] = "pending" => call[c]["close"] = "pending" \/ (c = o /\ k = "close")
        /\ call'[c]["open"] = "resolved" => call[c]["open"] = "resolved"
        /\ call'[c]["close"] \in {"none", "scheduled"} => call[c]["close"] \in {"none", "scheduled"}
    BY <1>0, <1>10
  <2> QED
    BY <1>5, <1>9, <2>1, <2>2, <2>3 DEF Kept
<1>25. Coming'
  <2>1. \A c \in Channels :
           /\ call[c]["open"] = "resolved" => call'[c]["open"] = "resolved"
           /\ call[c]["open"] = "pending" => call'[c]["open"] = "pending"
           /\ call[c]["close"] # "resolved" => call'[c]["close"] # "resolved"
           /\ call[c]["close"] = "pending" => call'[c]["close"] = "pending"
    BY <1>0, <1>19
  <2> QED
    BY <1>1, <1>5, <2>1 DEF Clean, Coming, Kept
<1>26. ConnClose'
  <2>1. ~No(Tail(ticks), toClient, Conn, "close_ok") => peer = "closed"
    BY <1>5 DEF Clean, ConnClose, Kept
  <2> SUFFICES ASSUME Conn \notin destroyed
               PROVE  /\ Uniq(Tail(ticks), toClient, Conn, "close_ok") /\ OneRequest(toPeer', 0)
                      /\ ~No(Tail(ticks), toClient, Conn, "close_ok") => call'[Conn]["close"] = "pending"
                      /\ Asks(toPeer', Conn, "close")
                             => call'[Conn]["close"] = "pending" /\ No(Tail(ticks), toClient, Conn, "close_ok")
    BY <1>1, <2>1 DEF ConnClose
  <2>2. /\ Uniq(ticks, toClient, Conn, "close_ok") /\ OneRequest(toPeer, 0)
        /\ ~No(ticks, toClient, Conn, "close_ok") => call[Conn]["close"] = "pending"
        /\ Asks(toPeer, Conn, "close") => call[Conn]["close"] = "pending" /\ No(ticks, toClient, Conn, "close_ok")
    BY DEF Clean, ConnClose
  <2>3. call[Conn]["close"] = "pending" => call'[Conn]["close"] = "pending"
    BY <1>0, <1>19
  <2>4. CASE o # Conn
    <3>1. NumberOf(o) # 0
      BY <1>7, <2>4 DEF NumberOf
    <3>2. OneRequest(toPeer', 0)
      BY <1>9, <2>2, <3>1
    <3>3. Asks(toPeer', Conn, "close") => Asks(toPeer, Conn, "close")
      BY <1>9, <2>4
    <3> QED
      BY <1>5, <2>2, <2>3, <3>2, <3>3 DEF Kept
  <2>5. CASE o = Conn
    <3>1. k = "close"
      BY <1>0, <1>3, <1>8, <2>5 DEF Repeated, Names, Called
    <3>2. OneRequest(toPeer', 0)
      <4>1. CASE socketOpen
        <5>1. \A i \in 1..Len(toPeer) : toPeer[i].n = 0 => toPeer[i].m \notin {"open", "close"}
          BY <1>3, <2>5, <3>1, <4>1, NoRequest DEF NumberOf
        <5> QED
          BY <1>9, <2>2, <5>1
      <4>2. CASE ~socketOpen
        BY <1>9, <2>2, <4>2
      <4> QED
        BY <4>1, <4>2
    <3>3. No(ticks, toClient, Conn, "close_ok") /\ call'[Conn]["close"] = "pending"
      BY <1>3, <1>10, <2>2, <2>5, <3>1
    <3> QED
      BY <1>5, <2>2, <3>2, <3>3 DEF Kept
  <2> QED
    BY <2>4, <2>5
<1> QED
  BY <1>12, <1>13, <1>14, <1>15, <1>17, <1>18, <1>21, <1>22, <1>23, <1>24, <1>25, <1>26 DEF Clean

\* channel_open takes a number that is free, or is refused.
LEMMA ChannelOpenTickClean ==
    ASSUME Types, Names, Clean, NEW c \in Channels, ChannelOpenTick(c)
    PROVE  Clean'
<1>0. /\ ticks \in Seq(Jobs) /\ Objects = Channels \cup {Conn} /\ Conn \notin Channels /\ None \notin Channels
      /\ number \in [Channels -> Numbers \cup {0}] /\ {"open", "close", "again", "drop"} = Kinds /\ 0 \notin Numbers
      /\ channels \in [Numbers -> Channels \cup {None}]
      /\ destroyed \subseteq Objects /\ toPeer \in Seq(ToPeer) /\ toClient \in Seq(ToClient)
      /\ session \in [Numbers -> [state : {"closed", "open", "closing"}, for : Channels \cup {None}]]
  BY CleanFacts
<1>1. /\ Tick(OpenJob(c)) /\ ticks' = Tail(ticks)
      /\ UNCHANGED <<call, destroyed, closed, replying, toPeer, toClient, session, peer, contents, offence,
             socketOpen, crashed>>
      /\ \/ UNCHANGED <<number, channels>>
         \/ \E n \in Free : number' = [number EXCEPT ![c] = n] /\ channels' = [channels EXCEPT ![n] = c]
  BY DEF ChannelOpenTick, broker, OpenJob
<1>2. /\ \A d \in destroyed : ~Unreturned(d) /\ ~(d = Conn /\ Conn \in replying)
      /\ draining' = FALSE /\ decoding' \in {"idle", "reading"}
      /\ ticks # <<>> /\ OpenJob(c) = Head(ticks)
  BY <1>1, TickClean
<1>3. Head(ticks).type # "method"
  BY <1>2, JobsDiffer
<1>4. Kept(ticks, toClient, Tail(ticks), toClient)
  BY <1>0, <1>2, <1>3, OtherTaken
<1>5. Own(ticks') /\ (Waits(ticks', Ended) => Waits(ticks, Ended)) /\ Waits(ticks, OpenJob(c))
  BY <1>0, <1>1, <1>2, JobTaken DEF Clean, Known
<1>6. number[c] = 0 /\ c \notin destroyed /\ \A k \in Kinds : call[c][k] = "none"
  <2>1. stage[c] = "asked"
    BY <1>5 DEF Names, Scheduled
  <2> QED
    BY <2>1 DEF Names, Numbered
<1>7. Sane' /\ Dropped' /\ Dead'
  BY <1>1, <1>2 DEF Clean, Sane, Dropped, Dead
<1>8. Failing' /\ Returning'
  BY <1>1, <1>2, <1>4, <1>5 DEF Clean, Failing, Returning, Unreturned, Resolved, Kept
<1>9. Asking' /\ Coming' /\ ConnClose'
  BY <1>1, <1>4 DEF Clean, Asking, Coming, ConnClose, Linked, Kept
<1>10. CASE UNCHANGED <<number, channels>>
  <2>1. Registered' /\ Known' /\ Broker'
    BY <1>1, <1>5, <1>10 DEF Clean, Registered, Known, Broker
  <2>2. Serving' /\ Served'
    BY <1>1, <1>4, <1>10 DEF Clean, Serving, Served, Linked, Kept
  <2> QED
    BY <1>7, <1>8, <1>9, <2>1, <2>2 DEF Clean
<1>11. ASSUME NEW n \in Numbers, n \in Free, number' = [number EXCEPT ![c] = n], channels' = [channels EXCEPT ![n] = c]
       PROVE  Clean'
  <2>1. channels[n] = None
    BY <1>11 DEF Free
  <2>2. /\ number'[c] = n /\ \A d \in Channels \ {c} : number'[d] = number[d]
        /\ channels'[n] = c /\ \A i \in Numbers \ {n} : channels'[i] = channels[i]
    BY <1>0, <1>11
  <2>3. Registered'
    <3>1. ASSUME NEW d \in Channels \ destroyed, number'[d] # 0
          PROVE  channels'[number'[d]] = d
      <4>1. CASE d = c
        BY <2>2, <4>1
      <4>2. CASE d # c
        <5>1. number[d] \in Numbers /\ channels[number[d]] = d /\ d # None
          BY <1>0, <2>2, <3>1, <4>2 DEF Clean, Registered
        <5> QED
          BY <2>1, <2>2, <4>2, <5>1
      <4> QED
        BY <4>1, <4>2
    <3>2. ASSUME NEW i \in Numbers
          PROVE  channels'[i] \notin destroyed
      BY <1>6, <2>2 DEF Clean, Registered
    <3> QED
      BY <1>1, <3>1, <3>2 DEF Registered
  <2>4. Known'
    <3>1. ASSUME NEW i \in 1..Len(toClient), toClient[i].n # 0
          PROVE  channels'[toClient[i].n] = toClient[i].for
      <4>1. toClient[i] \in ToClient
        BY <1>0
      <4>2. toClient[i].n \in Numbers /\ toClient[i].for # None
        BY <1>0, <3>1, <4>1 DEF ToClient
      <4>3. channels[toClient[i].n] = toClient[i].for
        BY <3>1 DEF Clean, Known, Routed
      <4> QED
        BY <2>1, <2>2, <4>2, <4>3
    <3> QED
      BY <1>1, <1>5, <3>1 DEF Known, Routed
  <2>5. \A m : ~Asks(toPeer, c, m)
    <3> SUFFICES ASSUME NEW i \in 1..Len(toPeer), toPeer[i].for = c PROVE FALSE
      BY DEF Asks
    <3>1. toPeer[i] \in ToPeer
      BY <1>0
    <3>2. toPeer[i].n \in Numbers
      BY <1>0, <3>1 DEF ToPeer
    <3> QED
      BY <1>0, <1>6, <3>2 DEF Names, Numbered, Signed
  <2>6. Broker'
    <3>1. ASSUME peer = "open", NEW d \in Channels
          PROVE  /\ Asks(toPeer, d, "open") => session[number'[d]].for = None
                 /\ Asks(toPeer, d, "close") => session[number'[d]].for = d /\ call[d]["close"] \in Past
                 /\ Asks(toPeer, d, "flow_ok") => session[number'[d]].for = d \/ call[d]["close"] \in Past
                 /\ ~Asks(toPeer, d, "close_ok")
      BY <2>2, <2>5, <3>1 DEF Clean, Broker
    <3> QED
      BY <1>1, <3>1 DEF Clean, Broker
  <2>7. Serving'
    <3>1. ASSUME Linked, NEW i \in Numbers, NEW d \in Channels, session[i].for = d
          PROVE  channels'[i] = d
      BY <1>0, <2>1, <2>2, <3>1 DEF Clean, Serving
    <3> QED
      BY <1>1, <1>4, <3>1 DEF Clean, Serving, Linked, Kept
  <2>8. Served'
    <3>1. ASSUME Linked, NEW d \in Channels \ destroyed
          PROVE  /\ call[d]["open"] = "pending" => Asks(toPeer, d, "open") \/ session[number'[d]].for = d
                 /\ call[d]["open"] = "resolved" /\ call[d]["close"] \in {"none", "scheduled"}
                        => session[number'[d]].for = d
                 /\ call[d]["close"] = "pending" => Asks(toPeer, d, "close") \/ ~No(ticks, toClient, d, "close_ok")
      <4>1. CASE d = c
        BY <1>0, <1>6, <4>1
      <4>2. CASE d # c
        BY <2>2, <3>1, <4>2 DEF Clean, Served
      <4> QED
        BY <4>1, <4>2
    <3> QED
      BY <1>1, <1>4, <3>1 DEF Served, Linked, Kept
  <2> QED
    BY <1>7, <1>8, <1>9, <2>3, <2>4, <2>6, <2>7, <2>8 DEF Clean
<1> QED
  BY <1>1, <1>10, <1>11 DEF Free

\* The connection ends.
LEMMA ConnectionEndsClean ==
    ASSUME Types, Names, Clean, NEW closes, closed \subseteq closes, closes \subseteq closed \cup {Conn}, NEW rest,
           DestroyConnection(closes, rest),
           Conn \in destroyed => Unreturned(Conn) \/ Conn \in replying,
           \/ rest = ticks /\ draining' = TRUE
           \/ /\ ticks # <<>> /\ rest = Tail(ticks)
              /\ replying = {} /\ \A o \in Objects : ~Unreturned(o),
           replying' \subseteq replying, decoding' # "failed", UNCHANGED <<stage, number, toPeer, broker>>
    PROVE  Clean'
<1> DEFINE D == ({channels[n] : n \in Numbers} \ {None}) \cup {Conn}
<1>0. /\ ticks \in Seq(Jobs) /\ Objects = Channels \cup {Conn} /\ Conn \notin Channels /\ None \notin Channels
             /\ Conn # None
      /\ number \in [Channels -> Numbers \cup {0}] /\ {"open", "close", "again", "drop"} = Kinds /\ 0 \notin Numbers
      /\ call \in [Objects -> [Kinds -> {"none", "scheduled", "pending", "resolved", "rejected"}]]
      /\ channels \in [Numbers -> Channels \cup {None}]
      /\ destroyed \subseteq Objects
  BY CleanFacts
<1>1. /\ D \in SUBSET Objects /\ IsFiniteSet(D) /\ Conn \in D
      /\ \A c \in D \ {Conn} : number[c] # 0 /\ channels[number[c]] = c
      /\ \A n \in Numbers : channels[n] # None => channels[n] \in D
  BY ConnectionObjects
<1>2. \A c \in D : c = Conn \/ c \notin destroyed
  BY DEF Clean, Registered
<1>3. DestroyAll(D, closes, rest) /\ socketOpen' = FALSE /\ toClient' = <<>>
  BY DEF DestroyConnection
<1> HIDE DEF D
<1>4. rest \in Seq(Jobs)
  <2>1. ticks \in Seq(Jobs)
    BY <1>0
  <2> QED
    BY <2>1, TailIs
<1>5. /\ \A s : Kept(rest, s, ticks', s)
      /\ Own(rest) => Own(ticks')
  BY <1>1, <1>3, <1>4, DestroyedTicks
<1>6. /\ \A x : Nothing(ticks, toClient, x) => Nothing(rest, toClient, x)
      /\ \A x, m : No(ticks, toClient, x, m) => No(rest, toClient, x, m)
      /\ Own(rest)
  <2>1. CASE rest = ticks
    BY <2>1 DEF Clean, Known
  <2>2. CASE ticks # <<>> /\ rest = Tail(ticks)
    <3>1. Own(Tail(ticks))
      BY <1>0, <2>2, JobTaken DEF Clean, Known
    <3> QED
      BY <1>0, <2>2, <3>1, HandlingTaken
  <2> QED
    BY <2>1, <2>2
<1>7. /\ \A x : Nothing(ticks, toClient, x) => Nothing(ticks', <<>>, x)
      /\ \A x, m : No(ticks, toClient, x, m) => No(ticks', <<>>, x, m)
  BY <1>5, <1>6, StreamLost DEF Kept
<1>8. /\ destroyed' = destroyed \cup D /\ closed' = closes
      /\ crashed' = (\E o \in D : call[o]["drop"] = "pending")
      /\ channels' = MapWithout(D)
  BY <1>3 DEF DestroyAll
<1>9. \A o \in Objects, k \in Kinds :
         \/ o \in D /\ call[o][k] = "pending" /\ call'[o][k] = "rejected"
         \/ ~(o \in D /\ call[o][k] = "pending") /\ (call'[o][k] = call[o][k] \/ (k = "drop" /\ call'[o][k] = "scheduled"))
  BY <1>3 DEF DestroyAll
<1>10. \A n \in Numbers : channels'[n] = None
  <2>1. \A n \in Numbers : channels[n] # None => \E c \in D \ {Conn} : number[c] = n
    BY <1>0, <1>1 DEF Names, Numbered
  <2> QED
    BY <1>0, <1>8, <2>1 DEF MapWithout
<1>11. ASSUME NEW c \in Channels, c \notin destroyed'
       PROVE  number[c] = 0 /\ \A k \in Kinds : call[c][k] = "none"
  <2>1. c \notin destroyed /\ c \notin D
    BY <1>8, <1>11
  <2>2. number[c] = 0
    BY <1>0, <1>1, <2>1 DEF Clean, Registered
  <2> QED
    BY <2>2 DEF Names, Numbered
<1>12. ~crashed'
  <2>1. \A o \in D : o \notin destroyed => call[o]["drop"] = "none"
    BY <1>1 DEF Names, Called
  <2>2. Conn \in destroyed => call[Conn]["drop"] # "pending"
    BY DEF Clean, Returning
  <2> QED
    BY <1>2, <1>8, <2>1, <2>2
<1>13. Sane'
  BY <1>12 DEF Clean, Sane, broker
<1>14. Registered'
  <2>1. None \notin destroyed'
    BY <1>0, <1>1, <1>8
  <2> QED
    BY <1>10, <1>11, <2>1 DEF Registered
<1>15. Dropped' /\ Dead'
  BY <1>1, <1>3, <1>8 DEF Dropped, Dead
<1>16. Known'
  BY <1>3, <1>5, <1>6, StreamLost DEF Known
<1>17. Failing'
  BY <1>1, <1>3, <1>8 DEF Failing
<1>18. Returning'
  <2> SUFFICES ASSUME NEW o \in destroyed', (Unreturned(o))' \/ (o = Conn /\ Conn \in replying')
               PROVE  draining' /\ call'[o]["drop"] # "pending"
    BY DEF Returning
  <2>1. o \in Objects
    BY <1>0, <1>1, <1>8
  <2>2. Unreturned(o) \/ (o = Conn /\ Conn \in replying)
    BY <1>0, <1>8, <1>9, <2>1 DEF Unreturned, Resolved
  <2>3. draining'
    <3>1. CASE rest = ticks /\ draining' = TRUE
      BY <3>1
    <3>2. CASE replying = {} /\ \A x \in Objects : ~Unreturned(x)
      BY <2>1, <2>2, <3>2
    <3> QED
      BY <3>1, <3>2
  <2>4. CASE o \in D
    BY <1>0, <1>9, <2>1, <2>3, <2>4
  <2>5. CASE o \notin D
    <3>1. o \in destroyed
      BY <1>8, <2>5
    <3>2. call[o]["drop"] # "pending"
      BY <2>2, <3>1 DEF Clean, Returning
    <3> QED
      BY <1>0, <1>9, <2>1, <2>3, <2>5, <3>2
  <2> QED
    BY <2>3, <2>4, <2>5
<1>19. Broker'
  <2>1. \A c \in Channels : call[c]["close"] \in Past => call'[c]["close"] \in Past
    BY <1>0, <1>9 DEF Past
  <2> QED
    BY <2>1 DEF Clean, Broker, broker
<1>20. Asking' /\ Serving' /\ Served'
  BY <1>3 DEF Asking, Serving, Served, Linked
<1>21. Coming'
  <2> SUFFICES ASSUME NEW c \in Channels, c \notin destroyed' PROVE Nothing(ticks', <<>>, c)
    BY <1>3, NothingIsNo DEF Coming
  <2>1. c \notin destroyed /\ call[c]["open"] = "none"
    BY <1>0, <1>8, <1>11
  <2> QED
    BY <1>7, <2>1 DEF Clean, Coming
<1>22. ConnClose'
  BY <1>1, <1>3, <1>7, <1>8 DEF Clean, ConnClose, broker
<1> QED
  BY <1>13, <1>14, <1>15, <1>16, <1>17, <1>18, <1>19, <1>20, <1>21, <1>22 DEF Clean

\* close() of a channel returns.
LEMMA ChannelReturnsClean ==
    ASSUME Types, Names, Clean, ~Repeated, NEW c \in Channels, CloseReturns(c)
    PROVE  Clean'
<1>0. /\ ticks \in Seq(Jobs) /\ Objects = Channels \cup {Conn} /\ Conn \notin Channels /\ None \notin Channels
      /\ number \in [Channels -> Numbers \cup {0}] /\ {"open", "close", "again", "drop"} = Kinds /\ 0 \notin Numbers
      /\ call \in [Objects -> [Kinds -> {"none", "scheduled", "pending", "resolved", "rejected"}]]
      /\ channels \in [Numbers -> Channels \cup {None}] /\ toClient \in Seq(ToClient)
      /\ destroyed \subseteq Objects /\ decoding \in {"idle", "reading", "failed"}
  BY CleanFacts
<1>1. /\ Continue /\ c \notin closed /\ call[c]["close"] = "resolved" /\ c # Conn
      /\ DestroyChannel(c, closed \cup {c}, ticks)
      /\ UNCHANGED <<stage, number, replying, toPeer, session, peer, contents, offence>>
  BY <1>0 DEF CloseReturns, Resolved, broker
<1>2. Unreturned(c)
  BY <1>1 DEF Unreturned, Resolved
<1>3. DestroyAll({c}, closed \cup {c}, ticks) /\ UNCHANGED <<socketOpen, toClient>>
  BY <1>1 DEF DestroyChannel
<1>4. Drops({c}, closed \cup {c}) = {}
  BY DEF Drops
<1>5. {c} \in SUBSET Objects /\ IsFiniteSet({c}) /\ Conn \notin {c}
  BY <1>0, FS_Singleton
<1>6. /\ Kept(ticks, toClient, ticks', toClient) /\ (Own(ticks) => Own(ticks'))
      /\ Waits(ticks', Ended) <=> Waits(ticks, Ended)
  BY <1>0, <1>3, <1>4, <1>5, DestroyedTicks
<1>7. /\ destroyed' = destroyed \cup {c} /\ closed' = closed \cup {c}
      /\ crashed' = (\E o \in {c} : call[o]["drop"] = "pending")
      /\ channels' = MapWithout({c})
  BY <1>3 DEF DestroyAll
<1>8. \A n \in Numbers : channels'[n] = IF number[c] = n THEN None ELSE channels[n]
  BY <1>1, <1>7 DEF MapWithout
<1>9. call[c]["open"] = "resolved" /\ number[c] \in Numbers
  BY <1>0, <1>1 DEF Names, Called, Numbered
<1>10. call[c]["drop"] # "pending"
  <2>1. CASE c \in destroyed
    BY <1>2, <2>1 DEF Clean, Returning
  <2>2. CASE c \notin destroyed
    BY <1>5, <2>2 DEF Names, Called
  <2> QED
    BY <2>1, <2>2
<1>11. \A o \in Objects, k \in Kinds : call'[o][k] = call[o][k]
  <2>1. \A k \in Kinds : call[c][k] # "pending"
    BY <1>0, <1>1, <1>9, <1>10 DEF Repeated
  <2>2. \A o \in Objects, k \in Kinds :
           call'[o][k] = IF o \in {c} /\ call[o][k] = "pending" THEN "rejected" ELSE call[o][k]
    BY <1>3, <1>4 DEF DestroyAll
  <2> QED
    BY <2>1, <2>2
<1>12. ~crashed'
  BY <1>7, <1>10
<1>13. \/ c \in destroyed /\ Conn \in destroyed /\ \A n \in Numbers : channels[n] = None
       \/ c \notin destroyed /\ channels[number[c]] = c /\ Conn \notin destroyed /\ socketOpen
  <2>1. CASE c \in destroyed
    BY <1>1, <2>1 DEF Clean, Dead, Names, Over
  <2>2. CASE c \notin destroyed
    <3>1. channels[number[c]] = c /\ c # None
      BY <1>0, <1>9, <2>2 DEF Clean, Registered
    <3>2. Conn \notin destroyed
      BY <1>9, <3>1 DEF Names, Over
    <3>3. socketOpen
      BY <1>2, <1>5, <3>2 DEF Clean, Failing
    <3> QED
      BY <2>2, <3>1, <3>2, <3>3
  <2> QED
    BY <2>1, <2>2
<1>14. draining' = TRUE /\ decoding' # "failed"
  BY <1>0, <1>1 DEF Continue, RunContinuation, PieceEnds, Clean, Sane
<1>15. Sane'
  BY <1>1, <1>12, <1>14 DEF Clean, Sane
<1>16. Registered'
  <2>1. ASSUME NEW d \in Channels, d \notin destroyed', number[d] # 0
        PROVE  channels'[number[d]] = d
    <3>1. d # c /\ number[d] \in Numbers /\ channels[number[d]] = d /\ d # None
      BY <1>0, <1>7, <2>1 DEF Clean, Registered
    <3> QED
      BY <1>8, <1>13, <3>1
  <2>2. ASSUME NEW n \in Numbers
        PROVE  channels'[n] \notin destroyed'
    <3>1. None \notin destroyed'
      BY <1>0, <1>7 DEF Conn, None
    <3>2. channels[n] = c => number[c] = n
      BY <1>0 DEF Names, Numbered
    <3> QED
      BY <1>7, <1>8, <3>1, <3>2 DEF Clean, Registered
  <2> QED
    BY <1>1, <2>1, <2>2 DEF Registered
<1>17. Dropped'
  BY <1>0, <1>3, <1>11 DEF Clean, Dropped
<1>18. Dead'
  BY <1>0, <1>1, <1>7, <1>9, <1>11 DEF Clean, Dead
<1>19. Known'
  <2>1. ASSUME NEW i \in 1..Len(toClient), toClient[i].n # 0
        PROVE  channels'[toClient[i].n] = toClient[i].for
    <3>1. toClient[i] \in ToClient
      BY <1>0
    <3>2. toClient[i].n \in Numbers /\ toClient[i].for \in Channels
      BY <1>0, <2>1, <3>1 DEF ToClient
    <3>3. channels[toClient[i].n] = toClient[i].for
      BY <2>1 DEF Clean, Known, Routed
    <3>4. c \notin destroyed
      BY <1>0, <1>13, <3>2, <3>3
    <3>5. Nothing(ticks, toClient, c)
      BY <1>1, <3>4 DEF Clean, Coming
    <3>6. toClient[i].for # c
      BY <3>5 DEF Nothing
    <3> QED
      BY <1>8, <1>13, <3>2, <3>3, <3>4, <3>6
  <2> QED
    BY <1>3, <1>6, <2>1 DEF Clean, Known, Routed
<1>20. \A o \in Objects : (Unreturned(o))' => Unreturned(o) /\ o # c
  BY <1>0, <1>7, <1>11 DEF Unreturned, Resolved
<1>21. Failing'
  BY <1>1, <1>3, <1>5, <1>6, <1>7, <1>20 DEF Clean, Failing, Kept
<1>22. Returning'
  <2> SUFFICES ASSUME NEW o \in destroyed', (Unreturned(o))' \/ (o = Conn /\ Conn \in replying')
               PROVE  draining' /\ call'[o]["drop"] # "pending"
    BY DEF Returning
  <2>1. o \in Objects
    BY <1>0, <1>7
  <2>2. o # c
    BY <1>1, <1>20, <2>1
  <2>3. o \in destroyed
    BY <1>7, <2>2
  <2>4. Unreturned(o) \/ (o = Conn /\ Conn \in replying)
    BY <1>1, <1>20, <2>1
  <2>5. call[o]["drop"] # "pending"
    BY <2>3, <2>4 DEF Clean, Returning
  <2>6. call'[o]["drop"] = call[o]["drop"]
    BY <1>0, <1>11, <2>1
  <2> QED
    BY <1>14, <2>5, <2>6
<1>23. Broker'
  BY <1>0, <1>1, <1>11 DEF Clean, Broker
<1>24. Asking'
  BY <1>0, <1>1, <1>3, <1>6, <1>7, <1>9, <1>11 DEF Clean, Asking, Linked, Kept
<1>25. Serving'
  <2> SUFFICES ASSUME Linked, NEW n \in Numbers, NEW d \in Channels, session[n].for = d
               PROVE  /\ channels'[n] = d
                      /\ \/ call'[d]["open"] = "resolved"
                         \/ call'[d]["open"] = "pending" /\ ~No(ticks', toClient, d, "open_ok")
                      /\ call'[d]["close"] # "resolved"
                      /\ session[n].state = "open" => No(ticks', toClient, d, "close_ok")
                      /\ session[n].state = "closing" => ~No(ticks', toClient, d, "close")
    BY <1>1, <1>3 DEF Serving, Linked
  <2>1. /\ channels[n] = d
        /\ \/ call[d]["open"] = "resolved"
           \/ call[d]["open"] = "pending" /\ ~No(ticks, toClient, d, "open_ok")
        /\ call[d]["close"] # "resolved"
        /\ session[n].state = "open" => No(ticks, toClient, d, "close_ok")
        /\ session[n].state = "closing" => ~No(ticks, toClient, d, "close")
    BY DEF Clean, Serving
  <2>2. channels'[n] = d
    BY <1>0, <1>1, <1>8, <1>13, <2>1
  <2> QED
    BY <1>0, <1>6, <1>11, <2>1, <2>2 DEF Kept
<1>26. Served'
  BY <1>0, <1>1, <1>3, <1>6, <1>7, <1>11 DEF Clean, Served, Linked, Kept
<1>27. Coming'
  BY <1>0, <1>3, <1>6, <1>7, <1>11 DEF Clean, Coming, Kept
<1>28. ConnClose'
  BY <1>0, <1>1, <1>3, <1>6, <1>7, <1>11 DEF Clean, ConnClose, Kept
<1> QED
  BY <1>15, <1>16, <1>17, <1>18, <1>19, <1>21, <1>22, <1>23, <1>24, <1>25, <1>26, <1>27, <1>28 DEF Clean

\* What ends a channel or the connection.
LEMMA DestructionClean ==
    ASSUME Types, Names, Clean, ~Repeated,
           \/ \E c \in Channels : CloseOkWritten(c) \/ Destroy(c)
           \/ ConnectionCloseContinues
           \/ StreamEnds
           \/ \E o \in Objects : CloseReturns(o)
    PROVE  Spoilt' \/ Clean'
<1>0. /\ Objects = Channels \cup {Conn} /\ Conn \notin Channels /\ decoding \in {"idle", "reading", "failed"}
      /\ ticks \in Seq(Jobs)
  BY CleanFacts
<1>1. ASSUME NEW c \in Channels, CloseOkWritten(c) PROVE FALSE
  BY <1>0, <1>1 DEF CloseOkWritten, Clean, Sane
<1>2. ASSUME NEW c \in Channels, Destroy(c) PROVE Spoilt'
  <2>1. c \in Destroyers /\ c \in destroyed'
    BY <1>2 DEF Destroy, DestroyChannel, DestroyAll
  <2> QED
    BY <2>1 DEF Spoilt
<1>3. PieceEnds => decoding' # "failed"
  BY <1>0 DEF PieceEnds, Clean, Sane
<1>4. ASSUME ConnectionCloseContinues PROVE Clean'
  <2>1. /\ Conn \in replying /\ replying' \subseteq replying /\ DestroyConnection(closed, ticks)
        /\ draining' = TRUE /\ decoding' # "failed" /\ UNCHANGED <<stage, number, toPeer, broker>>
    BY <1>3, <1>4 DEF ConnectionCloseContinues, Continue, RunContinuation
  <2> QED
    BY <2>1, ConnectionEndsClean
<1>5. ASSUME CloseReturns(Conn) PROVE Clean'
  <2>1. /\ Unreturned(Conn) /\ DestroyConnection(closed \cup {Conn}, ticks)
        /\ draining' = TRUE /\ decoding' # "failed" /\ UNCHANGED <<stage, number, replying, toPeer, broker>>
    BY <1>3, <1>5 DEF CloseReturns, Continue, RunContinuation, Unreturned
  <2> QED
    BY <2>1, ConnectionEndsClean
<1>6. ASSUME StreamEnds PROVE Clean'
  <2>1. Tick(Ended) /\ UNCHANGED <<stage, number, replying, toPeer, session, peer, contents, offence>>
    BY <1>6 DEF StreamEnds, broker
  <2>2. /\ \A o \in destroyed : ~Unreturned(o) /\ ~(o = Conn /\ Conn \in replying)
        /\ draining' = FALSE /\ decoding' \in {"idle", "reading"}
        /\ ticks # <<>> /\ Ended = Head(ticks)
    BY <2>1, TickClean
  <2>3. Waits(ticks, Ended) /\ (Waits(Tail(ticks), Ended) => Waits(ticks, Ended)) /\ Own(Tail(ticks))
    BY <1>0, <2>2, JobTaken DEF Clean, Known
  <2>4. ~socketOpen
    BY <2>3 DEF Clean, Failing
  <2>5. CASE /\ Conn \in destroyed /\ ticks' = Tail(ticks)
             /\ UNCHANGED <<call, destroyed, closed, channels, crashed, socketOpen, toClient>>
    <3>1. Kept(ticks, toClient, Tail(ticks), toClient)
      BY <1>0, <2>2, JobsDiffer, OtherTaken
    <3>2. Sane' /\ Registered' /\ Dropped' /\ Dead' /\ Known' /\ Failing' /\ Broker'
      BY <2>1, <2>2, <2>3, <2>4, <2>5 DEF Clean, Sane, Registered, Dropped, Dead, Known, Failing, Broker
    <3>3. Asking' /\ Serving' /\ Served'
      BY <2>4, <2>5 DEF Asking, Serving, Served, Linked
    <3>4. Coming' /\ ConnClose'
      BY <2>1, <2>5, <3>1 DEF Clean, Coming, ConnClose, Kept
    <3>5. Returning'
      BY <2>1, <2>2, <2>5 DEF Returning, Unreturned, Resolved
    <3> QED
      BY <3>2, <3>3, <3>4, <3>5 DEF Clean
  <2>6. CASE Conn \notin destroyed /\ DestroyConnection(closed, Tail(ticks))
    <3>1. replying = {} /\ \A o \in Objects : ~Unreturned(o)
      BY <2>4, <2>6 DEF Clean, Failing
    <3> QED
      BY <2>1, <2>2, <2>6, <3>1, ConnectionEndsClean DEF broker
  <2> QED
    BY <1>6, <2>5, <2>6 DEF StreamEnds
<1> QED
  BY <1>0, <1>1, <1>2, <1>4, <1>5, <1>6, ChannelReturnsClean

\* The socket fails: all that is on its way is lost.
LEMMA SocketFailsClean ==
    ASSUME Types, Names, Clean, SocketFails
    PROVE  Clean'
<1>0. /\ Objects = Channels \cup {Conn} /\ Conn \notin Channels /\ decoding \in {"idle", "reading", "failed"}
      /\ destroyed \subseteq Objects /\ Ended \in Jobs
  BY CleanFacts, JobsDiffer
<1>1. /\ ticks = <<>> /\ ~Continuations /\ PieceEnds /\ ~crashed
      /\ socketOpen /\ socketOpen' = FALSE /\ toPeer' = <<>> /\ toClient' = <<>> /\ ticks' = Append(ticks, Ended)
      /\ UNCHANGED <<stage, number, channels, call, destroyed, closed, replying, session, peer, contents, offence,
             crashed>>
  BY DEF SocketFails, Turn, BeginTurn, Quiet, objects, broker
<1>2. Len(<<>>) = 0 /\ 1..0 = {}
  OBVIOUS
<1>3. ticks' = <<Ended>> /\ Len(ticks') = 1 /\ 1..1 = {1} /\ ticks'[1] = Ended
  BY <1>1
<1>4. Ended.type # "method"
  BY JobsDiffer
<1>5. \A x : Nothing(ticks', <<>>, x)
  BY <1>2, <1>3, <1>4 DEF Nothing, Handles
<1>6. Own(ticks') /\ Routed(<<>>, channels)
  BY <1>2, <1>3, <1>4 DEF Own, Routed
<1>7. (\A x, m : ~Asks(<<>>, x, m)) /\ \A n : OneRequest(<<>>, n)
  BY <1>2 DEF Asks, OneRequest
<1>8. \A x : (\A m : No(ticks', <<>>, x, m) /\ Uniq(ticks', <<>>, x, m)) /\ Final(ticks', <<>>, x)
  BY <1>5, NothingIsNo
<1>9. Sane' /\ Registered' /\ Dropped' /\ Dead' /\ Known'
  BY <1>0, <1>1, <1>6 DEF Clean, Sane, Registered, Dropped, Dead, Known, PieceEnds
<1>10. replying = {} /\ \A o \in Objects : ~Unreturned(o)
  BY <1>0, <1>1 DEF Clean, Sane, Continuations, Unreturned
<1>11. Failing'
  BY <1>1, <1>5, <1>10 DEF Failing, Unreturned, Resolved
<1>12. Returning'
  BY <1>0, <1>1, <1>10 DEF Returning, Unreturned, Resolved
<1>13. Broker' /\ Asking' /\ Serving' /\ Served'
  BY <1>1, <1>7 DEF Broker, Asking, Serving, Served, Linked
<1>14. Coming' /\ ConnClose'
  BY <1>1, <1>5, <1>7, <1>8 DEF Coming, ConnClose
<1> QED
  BY <1>9, <1>11, <1>12, <1>13, <1>14 DEF Clean

\* What the broker finds when it takes a frame, and what is left.
LEMMA ReadingFacts ==
    ASSUME Types, Names, Clean, PeerReads
    PROVE  /\ UNCHANGED <<stage, number, channels, call, destroyed, closed, replying, ticks, draining, decoding,
                  contents, socketOpen, crashed>>
           /\ Registered' /\ Dropped' /\ Dead' /\ Returning'
           /\ \A x, m : Asks(toPeer', x, m) => Asks(toPeer, x, m)
           /\ \A x, m : Asks(toPeer, x, m) => (x = Head(toPeer).for /\ m = Head(toPeer).m) \/ Asks(toPeer', x, m)
           /\ Asks(toPeer, Head(toPeer).for, Head(toPeer).m)
           /\ \A n : OneRequest(toPeer, n) => OneRequest(toPeer', n)
           /\ Head(toPeer).n # 0 => Head(toPeer).for \in Channels /\ Head(toPeer).n \in Numbers /\ Head(toPeer).n = number[Head(toPeer).for]
           /\ Head(toPeer).n = 0 => Head(toPeer).for = Conn /\ Head(toPeer).m \in {"close", "close_ok"}
           /\ Head(toPeer).m \in {"open", "close"} /\ OneRequest(toPeer, Head(toPeer).n) =>
                 \A x \in Objects, m \in {"open", "close"} : NumberOf(x) = Head(toPeer).n => ~Asks(toPeer', x, m)
<1> DEFINE f == Head(toPeer)
<1>0. /\ Objects = Channels \cup {Conn} /\ Conn \notin Channels /\ toPeer \in Seq(ToPeer) /\ 0 \notin Numbers
  BY CleanFacts
<1>1. /\ toPeer # <<>> /\ toPeer' = Tail(toPeer)
      /\ UNCHANGED <<stage, number, channels, call, destroyed, closed, replying, ticks, draining, decoding, contents,
             socketOpen, crashed>>
  BY PeerReadsHow DEF objects
<1>2. Registered' /\ Dropped' /\ Dead' /\ Returning'
  BY <1>1 DEF Clean, Registered, Dropped, Dead, Returning, Unreturned, Resolved
<1>3. /\ Asks(toPeer, f.for, f.m)
      /\ \A x, m : Asks(toPeer', x, m) => Asks(toPeer, x, m)
      /\ \A x, m : Asks(toPeer, x, m) => (x = f.for /\ m = f.m) \/ Asks(toPeer', x, m)
      /\ \A n : OneRequest(toPeer, n) => OneRequest(toPeer', n)
      /\ f.for # Conn => f.n = number[f.for]
  BY <1>0, <1>1, RequestTaken DEF Names, Numbered
<1>4. /\ f.n # 0 => f.for \in Channels /\ f.n \in Numbers
      /\ f.n = 0 => f.for = Conn /\ f.m \in {"close", "close_ok"}
  BY <1>1, HeadRequest
<1>5. \A i \in 1..Len(toPeer) : /\ toPeer[i] \in ToPeer
                                /\ toPeer[i].for \in Channels => toPeer[i].n = number[toPeer[i].for]
                                /\ toPeer[i].for = Conn => toPeer[i].n = 0
  <2> SUFFICES ASSUME NEW i \in 1..Len(toPeer)
               PROVE  /\ toPeer[i] \in ToPeer
                      /\ toPeer[i].for \in Channels => toPeer[i].n = number[toPeer[i].for]
                      /\ toPeer[i].for = Conn => toPeer[i].n = 0
    OBVIOUS
  <2>1. toPeer[i] \in ToPeer
    BY <1>0
  <2>2. toPeer[i].for = Conn => toPeer[i].n = 0
    BY <1>0, <2>1 DEF ToPeer
  <2>3. toPeer[i].for \in Channels => toPeer[i].n = number[toPeer[i].for]
    BY <1>0 DEF Names, Numbered, Signed
  <2> QED
    BY <2>1, <2>2, <2>3
<1>6. ASSUME f.m \in {"open", "close"}, OneRequest(toPeer, f.n), NEW x \in Objects, NEW m \in {"open", "close"},
             NumberOf(x) = f.n, Asks(toPeer', x, m)
      PROVE  FALSE
  <2>1. \A i \in 1..Len(toPeer) : toPeer[i].for = x => toPeer[i].n = f.n
    BY <1>0, <1>5, <1>6 DEF NumberOf
  <2> QED
    BY <1>0, <1>1, <1>6, <2>1, RequestAlone
<1>7. f.n # 0 => f.for \in Channels /\ f.n \in Numbers /\ f.n = number[f.for]
  BY <1>0, <1>3, <1>4
<1>8. f.m \in {"open", "close"} /\ OneRequest(toPeer, f.n) =>
         \A x \in Objects, m \in {"open", "close"} : NumberOf(x) = f.n => ~Asks(toPeer', x, m)
  BY <1>6
<1> QED
  BY <1>1, <1>2, <1>3, <1>4, <1>7, <1>8

\* The broker sends a method.
LEMMA MethodSent ==
    ASSUME Types, NEW n, NEW m, NEW x, [n |-> n, m |-> m, for |-> x] \in ToClient,
           toClient' = Append(toClient, [n |-> n, m |-> m, for |-> x])
    PROVE  /\ Sent(ticks, toClient, toClient', x, m)
           /\ \A w : Routed(toClient, w) /\ (n # 0 => w[n] = x) => Routed(toClient', w)
<1> DEFINE e == [n |-> n, m |-> m, for |-> x]
<1>1. toClient \in Seq(ToClient)
  BY DEF Types
<1>2. e.n = n /\ e.m = m /\ e.for = x /\ e \in ToClient /\ toClient' = Append(toClient, e)
  OBVIOUS
<1> HIDE DEF e
<1>3. /\ Sent(ticks, toClient, Append(toClient, e), e.for, e.m)
      /\ \A w : Routed(toClient, w) /\ (e.n # 0 => w[e.n] = e.for) => Routed(Append(toClient, e), w)
  BY <1>1, <1>2, FrameSent
<1> QED
  BY <1>2, <1>3

\* A frame that the broker does not answer.
LEMMA SilentlyReadClean ==
    ASSUME Types, Names, Clean, PeerReads, UNCHANGED <<toClient, offence>>, Broker',
           \/ UNCHANGED <<session, peer>> /\ Head(toPeer).m \notin {"open", "close"}
           \/ ~Linked' /\ (peer' = peer \/ peer' = "closed")
    PROVE  Clean'
<1>0. Objects = Channels \cup {Conn} /\ Conn \notin Channels
  BY CleanFacts
<1>1. /\ UNCHANGED <<stage, number, channels, call, destroyed, closed, replying, ticks, draining, decoding, contents,
             socketOpen, crashed>>
      /\ Registered' /\ Dropped' /\ Dead' /\ Returning'
      /\ \A x, m : Asks(toPeer', x, m) => Asks(toPeer, x, m)
      /\ \A x, m : Asks(toPeer, x, m) => (x = Head(toPeer).for /\ m = Head(toPeer).m) \/ Asks(toPeer', x, m)
      /\ \A n : OneRequest(toPeer, n) => OneRequest(toPeer', n)
  BY ReadingFacts
<1>2. Sane' /\ Known' /\ Failing'
  BY <1>1 DEF Clean, Sane, Known, Failing, Unreturned, Resolved
<1>3. Coming'
  BY <1>1 DEF Clean, Coming
<1>4. ConnClose'
  BY <1>1 DEF Clean, ConnClose
<1>5. Asking' /\ Serving' /\ Served'
  <2>1. CASE UNCHANGED <<session, peer>> /\ Head(toPeer).m \notin {"open", "close"}
    BY <1>1, <2>1 DEF Clean, Asking, Serving, Served, Linked
  <2>2. CASE ~Linked'
    BY <2>2 DEF Asking, Serving, Served
  <2> QED
    BY <2>1, <2>2
<1> QED
  BY <1>1, <1>2, <1>3, <1>4, <1>5 DEF Clean

\* The broker opens a channel.
LEMMA OpenReadClean ==
    ASSUME Types, Names, Clean, PeerReads,
           Head(toPeer).n # 0, peer = "open", Head(toPeer).m = "open", session[Head(toPeer).n].state = "closed",
           session' = [session EXCEPT ![Head(toPeer).n] = [state |-> "open", for |-> Head(toPeer).for]],
           Send(<<[n |-> Head(toPeer).n, m |-> "open_ok", for |-> Head(toPeer).for]>>), UNCHANGED <<peer, offence>>
    PROVE  Clean'
<1> DEFINE f == Head(toPeer)
           c == f.for
           n == f.n
           e == [n |-> n, m |-> "open_ok", for |-> c]
<1>0. /\ Objects = Channels \cup {Conn} /\ Conn \notin Channels /\ 0 \notin Numbers /\ None \notin Channels
      /\ number \in [Channels -> Numbers \cup {0}] /\ toClient \in Seq(ToClient)
      /\ session \in [Numbers -> [state : {"closed", "open", "closing"}, for : Channels \cup {None}]]
      /\ \A i \in Numbers : session[i].state = "closed" <=> session[i].for = None
  BY CleanFacts
<1>1. /\ UNCHANGED <<stage, number, channels, call, destroyed, closed, replying, ticks, draining, decoding, contents,
             socketOpen, crashed>>
      /\ Registered' /\ Dropped' /\ Dead' /\ Returning'
      /\ \A x, m : Asks(toPeer', x, m) => Asks(toPeer, x, m)
      /\ \A x, m : Asks(toPeer, x, m) => (x = c /\ m = "open") \/ Asks(toPeer', x, m)
      /\ Asks(toPeer, c, "open")
      /\ \A i : OneRequest(toPeer, i) => OneRequest(toPeer', i)
      /\ c \in Channels /\ n \in Numbers /\ n = number[c]
      /\ OneRequest(toPeer, n) =>
                 \A x \in Objects, m \in {"open", "close"} : NumberOf(x) = n => ~Asks(toPeer', x, m)
  BY ReadingFacts
<1>2. session' = [session EXCEPT ![n] = [state |-> "open", for |-> c]] /\ session[n].state = "closed" /\ peer = "open"
          /\ UNCHANGED <<peer, offence>>
  OBVIOUS
<1>3. /\ socketOpen => toClient' = Append(toClient, e) /\ e \in ToClient
      /\ ~socketOpen => toClient' = toClient
  <2>1. e \in ToClient
    BY <1>1 DEF ToClient, Methods
  <2>2. Send(<<e>>)
    OBVIOUS
  <2> QED
    BY <2>1, <2>2, Sending
<1>4. e.for = c /\ e.m = "open_ok" /\ e.n = n
  OBVIOUS
<1> HIDE DEF e, c, n, f
<1>5. /\ \A i \in Numbers : i # n => session'[i] = session[i]
      /\ session'[n].state = "open" /\ session'[n].for = c
      /\ session[n].for = None
  BY <1>0, <1>1, <1>2
<1>6. \A d \in Channels, m \in {"open", "close"} : number[d] = n => ~Asks(toPeer', d, m)
  BY <1>0, <1>1, <1>2 DEF Clean, Broker, NumberOf
<1>7. Broker'
  <2>1. ASSUME NEW d \in Channels
        PROVE  /\ Asks(toPeer', d, "open") => session'[number[d]].for = None
               /\ Asks(toPeer', d, "close") => session'[number[d]].for = d /\ call[d]["close"] \in Past
               /\ Asks(toPeer', d, "flow_ok") => session'[number[d]].for = d \/ call[d]["close"] \in Past
               /\ ~Asks(toPeer', d, "close_ok")
    <3>1. /\ Asks(toPeer, d, "open") => session[number[d]].for = None
          /\ Asks(toPeer, d, "close") => session[number[d]].for = d /\ call[d]["close"] \in Past
          /\ Asks(toPeer, d, "flow_ok") => session[number[d]].for = d \/ call[d]["close"] \in Past
          /\ ~Asks(toPeer, d, "close_ok")
      BY <1>2 DEF Clean, Broker
    <3>2. \A m : Asks(toPeer', d, m) => number[d] # 0
      <4> SUFFICES ASSUME NEW m, Asks(toPeer, d, m) PROVE number[d] # 0
        BY <1>1
      <4>1. PICK i \in 1..Len(toPeer) : toPeer[i].for = d
        BY DEF Asks
      <4>2. toPeer[i] \in ToPeer
        BY CleanFacts
      <4>3. toPeer[i].n \in Numbers
        BY <1>0, <4>1, <4>2 DEF ToPeer
      <4>4. toPeer[i].n = number[d]
        BY <1>0, <4>1 DEF Names, Numbered, Signed
      <4> QED
        BY <1>0, <4>3, <4>4
    <3>3. CASE number[d] = n
      BY <1>0, <1>1, <1>5, <1>6, <3>1, <3>3
    <3>4. CASE number[d] # n
      BY <1>0, <1>1, <1>5, <3>1, <3>2, <3>4
    <3> QED
      BY <3>3, <3>4
  <2>2. \A i \in Numbers : OneRequest(toPeer', i)
    BY <1>1, <1>2 DEF Clean, Broker
  <2> QED
    BY <1>1, <2>1, <2>2 DEF Broker
<1>8. Sane'
  BY <1>1, <1>2 DEF Clean, Sane
<1>9. CASE ~socketOpen
  <2>1. toClient' = toClient
    BY <1>3, <1>9
  <2>2. Known' /\ Failing' /\ Coming'
    BY <1>1, <2>1 DEF Clean, Known, Failing, Coming, Unreturned, Resolved
  <2>3. ConnClose'
    BY <1>1, <1>2, <2>1 DEF Clean, ConnClose
  <2>4. Asking' /\ Serving' /\ Served'
    BY <1>1, <1>9 DEF Asking, Serving, Served, Linked
  <2> QED
    BY <1>1, <1>7, <1>8, <2>2, <2>3, <2>4 DEF Clean
<1>10. CASE socketOpen
  <2>0. Linked /\ toClient' = Append(toClient, e) /\ e \in ToClient
    BY <1>2, <1>3, <1>10 DEF Linked
  <2>1. /\ c \notin destroyed /\ call[c]["open"] = "pending" /\ Nothing(ticks, toClient, c)
    BY <1>1, <2>0 DEF Clean, Asking
  <2>2. channels[n] = c /\ call[c]["close"] = "none"
    BY <1>0, <1>1, <2>1, CleanFacts DEF Clean, Registered, Names, Called
  <2>12. Sent(ticks, toClient, toClient', c, "open_ok") /\ Routed(toClient', channels)
    BY <2>0, <2>2, MethodSent DEF Clean, Known, e
  <2>3. /\ \A x : x # c => (Nothing(ticks, toClient', x) <=> Nothing(ticks, toClient, x))
        /\ ~No(ticks, toClient', c, "open_ok")
        /\ \A x, m : x # c \/ m # "open_ok" => (No(ticks, toClient', x, m) <=> No(ticks, toClient, x, m))
        /\ \A x, m : Uniq(ticks, toClient, x, m) /\ (x # c \/ m # "open_ok" \/ No(ticks, toClient, x, m)) => Uniq(ticks, toClient', x, m)
        /\ \A x : Final(ticks, toClient, x) /\ (x # c \/ No(ticks, toClient, x, "close_ok")) => Final(ticks, toClient', x)
    BY <2>12 DEF Sent
  <2>4. \A m : No(ticks, toClient, c, m)
    BY <2>1, NothingIsNo
  <2>5. \A d \in Channels \ destroyed : d # c => number[d] # n
    BY <1>0, <1>1, <2>2 DEF Clean, Registered
  <2>6. Known' /\ Failing'
    BY <1>1, <1>10, <2>12 DEF Clean, Known, Failing
  <2>7. Asking'
    <3> SUFFICES ASSUME NEW d \in Channels
                 PROVE  /\ Asks(toPeer', d, "open") =>
                              d \notin destroyed /\ call[d]["open"] = "pending" /\ Nothing(ticks, toClient', d)
                        /\ Asks(toPeer', d, "close") =>
                              d \notin destroyed /\ call[d]["close"] = "pending" /\ No(ticks, toClient', d, "close_ok")
      BY <1>1 DEF Asking
    <3>1. CASE d = c
      BY <1>1, <1>6, <3>1
    <3>2. CASE d # c
      BY <1>1, <2>0, <2>3, <3>2 DEF Clean, Asking
    <3> QED
      BY <3>1, <3>2
  <2>8. Serving'
    <3> SUFFICES ASSUME NEW i \in Numbers, NEW d \in Channels, session'[i].for = d
                 PROVE  /\ channels[i] = d
                        /\ \/ call[d]["open"] = "resolved"
                           \/ call[d]["open"] = "pending" /\ ~No(ticks, toClient', d, "open_ok")
                        /\ call[d]["close"] # "resolved"
                        /\ session'[i].state = "open" => No(ticks, toClient', d, "close_ok")
                        /\ session'[i].state = "closing" => ~No(ticks, toClient', d, "close")
      BY <1>1 DEF Serving
    <3>1. CASE i = n
      BY <1>5, <2>1, <2>2, <2>3, <2>4, <3>1
    <3>2. CASE i # n
      <4>1. /\ channels[i] = d
            /\ \/ call[d]["open"] = "resolved"
               \/ call[d]["open"] = "pending" /\ ~No(ticks, toClient, d, "open_ok")
            /\ call[d]["close"] # "resolved"
            /\ session[i].state = "open" => No(ticks, toClient, d, "close_ok")
            /\ session[i].state = "closing" => ~No(ticks, toClient, d, "close")
        BY <1>5, <2>0, <3>2 DEF Clean, Serving
      <4> QED
        BY <1>5, <2>3, <3>2, <4>1
    <3> QED
      BY <3>1, <3>2
  <2>9. Served'
    <3> SUFFICES ASSUME NEW d \in Channels \ destroyed
                 PROVE  /\ call[d]["open"] = "pending" => Asks(toPeer', d, "open") \/ session'[number[d]].for = d
                        /\ call[d]["open"] = "resolved" /\ call[d]["close"] \in {"none", "scheduled"}
                               => session'[number[d]].for = d
                        /\ call[d]["close"] = "pending" => Asks(toPeer', d, "close") \/ ~No(ticks, toClient', d, "close_ok")
      BY <1>1 DEF Served
    <3>1. CASE d = c
      BY <1>1, <1>5, <2>1, <2>2, <3>1
    <3>2. CASE d # c
      <4>1. /\ call[d]["open"] = "pending" => Asks(toPeer, d, "open") \/ session[number[d]].for = d
            /\ call[d]["open"] = "resolved" /\ call[d]["close"] \in {"none", "scheduled"} => session[number[d]].for = d
            /\ call[d]["close"] = "pending" => Asks(toPeer, d, "close") \/ ~No(ticks, toClient, d, "close_ok")
        BY <2>0 DEF Clean, Served
      <4>2. call[d]["open"] # "none" => number[d] \in Numbers /\ session'[number[d]] = session[number[d]]
        BY <1>0, <1>5, <2>5, <3>2 DEF Names, Numbered, Kinds
      <4> QED
        BY <1>1, <2>3, <3>2, <4>1, <4>2
    <3> QED
      BY <3>1, <3>2
  <2>10. Coming'
    <3> SUFFICES ASSUME NEW d \in Channels \ destroyed
                 PROVE  /\ ~Nothing(ticks, toClient', d)
                               => call[d]["open"] \in {"pending", "resolved"} /\ call[d]["close"] # "resolved"
                        /\ ~No(ticks, toClient', d, "open_ok") => call[d]["open"] = "pending"
                        /\ ~No(ticks, toClient', d, "close_ok") => call[d]["close"] = "pending"
                        /\ ~No(ticks, toClient', d, "close") => d \in PeerCloses
                        /\ Uniq(ticks, toClient', d, "open_ok") /\ Final(ticks, toClient', d)
      BY <1>1 DEF Coming
    <3>1. /\ ~Nothing(ticks, toClient, d) => call[d]["open"] \in {"pending", "resolved"} /\ call[d]["close"] # "resolved"
          /\ ~No(ticks, toClient, d, "open_ok") => call[d]["open"] = "pending"
          /\ ~No(ticks, toClient, d, "close_ok") => call[d]["close"] = "pending"
          /\ ~No(ticks, toClient, d, "close") => d \in PeerCloses
          /\ Uniq(ticks, toClient, d, "open_ok") /\ Final(ticks, toClient, d)
      BY DEF Clean, Coming
    <3>2. CASE d = c
      BY <2>1, <2>2, <2>3, <2>4, <3>1, <3>2
    <3>3. CASE d # c
      BY <2>3, <3>1, <3>3
    <3> QED
      BY <3>2, <3>3
  <2>11. ConnClose'
    <3>1. c # Conn
      BY <1>0, <1>1
    <3> QED
      BY <1>1, <1>2, <2>3, <3>1 DEF Clean, ConnClose
  <2> QED
    BY <1>1, <1>7, <1>8, <2>6, <2>7, <2>8, <2>9, <2>10, <2>11 DEF Clean
<1> QED
  BY <1>9, <1>10

\* The broker closes a channel that is asked to be closed.
LEMMA CloseReadClean ==
    ASSUME Types, Names, Clean, PeerReads,
           Head(toPeer).n # 0, peer = "open", Head(toPeer).m = "close",
           \/ session[Head(toPeer).n].state = "open" /\ session' = [session EXCEPT ![Head(toPeer).n] = NoSession]
           \/ session[Head(toPeer).n].state = "closing" /\ session' = session,
           Send(<<[n |-> Head(toPeer).n, m |-> "close_ok", for |-> Head(toPeer).for]>>), UNCHANGED <<peer, offence>>
    PROVE  Clean'
<1> DEFINE f == Head(toPeer)
           c == f.for
           n == f.n
           e == [n |-> n, m |-> "close_ok", for |-> c]
<1>0. /\ Objects = Channels \cup {Conn} /\ Conn \notin Channels /\ 0 \notin Numbers /\ None \notin Channels
      /\ number \in [Channels -> Numbers \cup {0}] /\ toClient \in Seq(ToClient)
      /\ session \in [Numbers -> [state : {"closed", "open", "closing"}, for : Channels \cup {None}]]
      /\ \A i \in Numbers : session[i].state = "closed" <=> session[i].for = None
      /\ \A i \in Numbers : session[i].for # None => number[session[i].for] = i
  BY CleanFacts DEF Names, Numbered
<1>1. /\ UNCHANGED <<stage, number, channels, call, destroyed, closed, replying, ticks, draining, decoding, contents,
             socketOpen, crashed>>
      /\ Registered' /\ Dropped' /\ Dead' /\ Returning'
      /\ \A x, m : Asks(toPeer', x, m) => Asks(toPeer, x, m)
      /\ \A x, m : Asks(toPeer, x, m) => (x = c /\ m = "close") \/ Asks(toPeer', x, m)
      /\ Asks(toPeer, c, "close")
      /\ \A i : OneRequest(toPeer, i) => OneRequest(toPeer', i)
      /\ c \in Channels /\ n \in Numbers /\ n = number[c]
      /\ OneRequest(toPeer, n) =>
                 \A x \in Objects, m \in {"open", "close"} : NumberOf(x) = n => ~Asks(toPeer', x, m)
  BY ReadingFacts
<1>2. peer = "open" /\ UNCHANGED <<peer, offence>>
  OBVIOUS
<1>3. /\ socketOpen => toClient' = Append(toClient, e) /\ e \in ToClient
      /\ ~socketOpen => toClient' = toClient
  <2>1. e \in ToClient
    BY <1>1 DEF ToClient, Methods
  <2>2. Send(<<e>>)
    OBVIOUS
  <2> QED
    BY <2>1, <2>2, Sending
<1>4. /\ \A i \in Numbers : i # n => session'[i] = session[i]
      /\ (session'[n] = session[n] /\ session[n].state = "closing") \/ session'[n].for = None
  BY <1>0, <1>1 DEF NoSession
<1> HIDE DEF e, c, n, f
<1>5. session[n].for = c /\ call[c]["close"] \in Past
  BY <1>1, <1>2 DEF Clean, Broker
<1>6. \A d \in Channels, m \in {"open", "close"} : number[d] = n => ~Asks(toPeer', d, m)
  BY <1>0, <1>1, <1>2 DEF Clean, Broker, NumberOf
<1>7. Broker'
  <2>1. ASSUME NEW d \in Channels
        PROVE  /\ Asks(toPeer', d, "open") => session'[number[d]].for = None
               /\ Asks(toPeer', d, "close") => session'[number[d]].for = d /\ call[d]["close"] \in Past
               /\ Asks(toPeer', d, "flow_ok") => session'[number[d]].for = d \/ call[d]["close"] \in Past
               /\ ~Asks(toPeer', d, "close_ok")
    <3>1. /\ Asks(toPeer, d, "open") => session[number[d]].for = None
          /\ Asks(toPeer, d, "close") => session[number[d]].for = d /\ call[d]["close"] \in Past
          /\ Asks(toPeer, d, "flow_ok") => session[number[d]].for = d \/ call[d]["close"] \in Past
          /\ ~Asks(toPeer, d, "close_ok")
      BY <1>2 DEF Clean, Broker
    <3>2. \A m : Asks(toPeer', d, m) => number[d] # 0
      <4> SUFFICES ASSUME NEW m, Asks(toPeer, d, m) PROVE number[d] # 0
        BY <1>1
      <4>1. PICK i \in 1..Len(toPeer) : toPeer[i].for = d
        BY DEF Asks
      <4>2. toPeer[i] \in ToPeer
        BY CleanFacts
      <4>3. toPeer[i].n \in Numbers
        BY <1>0, <4>1, <4>2 DEF ToPeer
      <4>4. toPeer[i].n = number[d]
        BY <1>0, <4>1 DEF Names, Numbered, Signed
      <4> QED
        BY <1>0, <4>3, <4>4
    <3>3. CASE number[d] = n
      BY <1>0, <1>1, <1>5, <1>6, <3>1, <3>3
    <3>4. CASE number[d] # n
      BY <1>0, <1>1, <1>4, <3>1, <3>2, <3>4
    <3> QED
      BY <3>3, <3>4
  <2>2. \A i \in Numbers : OneRequest(toPeer', i)
    BY <1>1, <1>2 DEF Clean, Broker
  <2> QED
    BY <1>1, <2>1, <2>2 DEF Broker
<1>8. Sane'
  BY <1>1, <1>2 DEF Clean, Sane
<1>9. CASE ~socketOpen
  <2>1. toClient' = toClient
    BY <1>3, <1>9
  <2>2. Known' /\ Failing' /\ Coming'
    BY <1>1, <2>1 DEF Clean, Known, Failing, Coming, Unreturned, Resolved
  <2>3. ConnClose'
    BY <1>1, <1>2, <2>1 DEF Clean, ConnClose
  <2>4. Asking' /\ Serving' /\ Served'
    BY <1>1, <1>9 DEF Asking, Serving, Served, Linked
  <2> QED
    BY <1>1, <1>7, <1>8, <2>2, <2>3, <2>4 DEF Clean
<1>10. CASE socketOpen
  <2>0. Linked /\ toClient' = Append(toClient, e) /\ e \in ToClient
    BY <1>2, <1>3, <1>10 DEF Linked
  <2>1. /\ c \notin destroyed /\ call[c]["close"] = "pending" /\ No(ticks, toClient, c, "close_ok")
    BY <1>1, <2>0 DEF Clean, Asking
  <2>2. channels[n] = c /\ call[c]["open"] = "resolved"
    <3>1. call[c]["close"] # "none"
      BY <2>1
    <3> QED
      BY <1>0, <1>1, <2>1, <3>1 DEF Clean, Registered, Names, Called
  <2>3. Sent(ticks, toClient, toClient', c, "close_ok") /\ Routed(toClient', channels)
    BY <2>0, <2>2, MethodSent DEF Clean, Known, e
  <2>4. /\ \A x : x # c => (Nothing(ticks, toClient', x) <=> Nothing(ticks, toClient, x))
        /\ ~No(ticks, toClient', c, "close_ok")
        /\ \A x, m : x # c \/ m # "close_ok" => (No(ticks, toClient', x, m) <=> No(ticks, toClient, x, m))
        /\ \A x, m : Uniq(ticks, toClient, x, m) /\ (x # c \/ m # "close_ok" \/ No(ticks, toClient, x, m)) => Uniq(ticks, toClient', x, m)
        /\ \A x : Final(ticks, toClient, x) /\ (x # c \/ No(ticks, toClient, x, "close_ok")) => Final(ticks, toClient', x)
    BY <2>3 DEF Sent
  <2>5. \A d \in Channels \ destroyed : d # c => number[d] # n
    BY <1>0, <1>1, <2>2 DEF Clean, Registered
  <2>6. Known' /\ Failing'
    BY <1>1, <1>10, <2>3 DEF Clean, Known, Failing
  <2>7. Asking'
    <3> SUFFICES ASSUME NEW d \in Channels
                 PROVE  /\ Asks(toPeer', d, "open") =>
                              d \notin destroyed /\ call[d]["open"] = "pending" /\ Nothing(ticks, toClient', d)
                        /\ Asks(toPeer', d, "close") =>
                              d \notin destroyed /\ call[d]["close"] = "pending" /\ No(ticks, toClient', d, "close_ok")
      BY <1>1 DEF Asking
    <3>1. CASE d = c
      BY <1>1, <1>6, <3>1
    <3>2. CASE d # c
      BY <1>1, <2>0, <2>4, <3>2 DEF Clean, Asking
    <3> QED
      BY <3>1, <3>2
  <2>8. Serving'
    <3> SUFFICES ASSUME NEW i \in Numbers, NEW d \in Channels, session'[i].for = d
                 PROVE  /\ channels[i] = d
                        /\ \/ call[d]["open"] = "resolved"
                           \/ call[d]["open"] = "pending" /\ ~No(ticks, toClient', d, "open_ok")
                        /\ call[d]["close"] # "resolved"
                        /\ session'[i].state = "open" => No(ticks, toClient', d, "close_ok")
                        /\ session'[i].state = "closing" => ~No(ticks, toClient', d, "close")
      BY <1>1 DEF Serving
    <3>0. session'[i] = session[i] /\ (i = n => session[i].state = "closing") /\ (d = c => i = n)
      BY <1>0, <1>1, <1>4
    <3>1. /\ channels[i] = d
          /\ \/ call[d]["open"] = "resolved"
             \/ call[d]["open"] = "pending" /\ ~No(ticks, toClient, d, "open_ok")
          /\ call[d]["close"] # "resolved"
          /\ session[i].state = "open" => No(ticks, toClient, d, "close_ok")
          /\ session[i].state = "closing" => ~No(ticks, toClient, d, "close")
      BY <2>0, <3>0 DEF Clean, Serving
    <3> QED
      BY <2>4, <3>0, <3>1
  <2>9. Served'
    <3> SUFFICES ASSUME NEW d \in Channels \ destroyed
                 PROVE  /\ call[d]["open"] = "pending" => Asks(toPeer', d, "open") \/ session'[number[d]].for = d
                        /\ call[d]["open"] = "resolved" /\ call[d]["close"] \in {"none", "scheduled"}
                               => session'[number[d]].for = d
                        /\ call[d]["close"] = "pending" => Asks(toPeer', d, "close") \/ ~No(ticks, toClient', d, "close_ok")
      BY <1>1 DEF Served
    <3>1. CASE d = c
      BY <2>1, <2>2, <2>4, <3>1
    <3>2. CASE d # c
      <4>1. /\ call[d]["open"] = "pending" => Asks(toPeer, d, "open") \/ session[number[d]].for = d
            /\ call[d]["open"] = "resolved" /\ call[d]["close"] \in {"none", "scheduled"} => session[number[d]].for = d
            /\ call[d]["close"] = "pending" => Asks(toPeer, d, "close") \/ ~No(ticks, toClient, d, "close_ok")
        BY <2>0 DEF Clean, Served
      <4>2. call[d]["open"] # "none" => number[d] \in Numbers /\ session'[number[d]] = session[number[d]]
        BY <1>0, <1>4, <2>5, <3>2 DEF Names, Numbered, Kinds
      <4> QED
        BY <1>1, <2>4, <3>2, <4>1, <4>2
    <3> QED
      BY <3>1, <3>2
  <2>10. Coming'
    <3> SUFFICES ASSUME NEW d \in Channels \ destroyed
                 PROVE  /\ ~Nothing(ticks, toClient', d)
                               => call[d]["open"] \in {"pending", "resolved"} /\ call[d]["close"] # "resolved"
                        /\ ~No(ticks, toClient', d, "open_ok") => call[d]["open"] = "pending"
                        /\ ~No(ticks, toClient', d, "close_ok") => call[d]["close"] = "pending"
                        /\ ~No(ticks, toClient', d, "close") => d \in PeerCloses
                        /\ Uniq(ticks, toClient', d, "open_ok") /\ Final(ticks, toClient', d)
      BY <1>1 DEF Coming
    <3>1. /\ ~Nothing(ticks, toClient, d) => call[d]["open"] \in {"pending", "resolved"} /\ call[d]["close"] # "resolved"
          /\ ~No(ticks, toClient, d, "open_ok") => call[d]["open"] = "pending"
          /\ ~No(ticks, toClient, d, "close_ok") => call[d]["close"] = "pending"
          /\ ~No(ticks, toClient, d, "close") => d \in PeerCloses
          /\ Uniq(ticks, toClient, d, "open_ok") /\ Final(ticks, toClient, d)
      BY DEF Clean, Coming
    <3>2. CASE d = c
      BY <2>1, <2>2, <2>4, <3>1, <3>2
    <3>3. CASE d # c
      BY <2>4, <3>1, <3>3
    <3> QED
      BY <3>2, <3>3
  <2>11. ConnClose'
    <3>1. c # Conn
      BY <1>0, <1>1
    <3> QED
      BY <1>1, <1>2, <2>4, <3>1 DEF Clean, ConnClose
  <2> QED
    BY <1>1, <1>7, <1>8, <2>6, <2>7, <2>8, <2>9, <2>10, <2>11 DEF Clean
<1> QED
  BY <1>9, <1>10

\* The broker answers the close of the connection, or is told that it is closed.
LEMMA EndReadClean ==
    ASSUME Types, Names, Clean, PeerReads, Head(toPeer).n = 0, peer' = "closed", UNCHANGED <<session, offence>>,
           \/ Head(toPeer).m = "close" /\ Send(<<[n |-> 0, m |-> "close_ok", for |-> Conn]>>)
           \/ toClient' = toClient
    PROVE  Clean'
<1>0. Objects = Channels \cup {Conn} /\ Conn \notin Channels
  BY CleanFacts
<1>1. /\ UNCHANGED <<stage, number, channels, call, destroyed, closed, replying, ticks, draining, decoding, contents,
             socketOpen, crashed>>
      /\ Registered' /\ Dropped' /\ Dead' /\ Returning'
      /\ \A x, m : Asks(toPeer', x, m) => Asks(toPeer, x, m)
      /\ Asks(toPeer, Conn, Head(toPeer).m)
      /\ \A i : OneRequest(toPeer, i) => OneRequest(toPeer', i)
      /\ Head(toPeer).m = "close" /\ OneRequest(toPeer, 0) => ~Asks(toPeer', Conn, "close")
  BY <1>0, ReadingFacts DEF NumberOf
<1>2. Broker' /\ Asking' /\ Serving' /\ Served'
  BY DEF Broker, Asking, Serving, Served, Linked
<1>3. Sane'
  BY <1>1 DEF Clean, Sane
<1>4. CASE toClient' = toClient
  <2>1. Known' /\ Failing' /\ Coming' /\ ConnClose'
    BY <1>1, <1>4 DEF Clean, Known, Failing, Coming, ConnClose, Unreturned, Resolved
  <2> QED
    BY <1>1, <1>2, <1>3, <2>1 DEF Clean
<1>5. CASE socketOpen /\ Head(toPeer).m = "close" /\ Send(<<[n |-> 0, m |-> "close_ok", for |-> Conn]>>)
  <2> DEFINE e == [n |-> 0, m |-> "close_ok", for |-> Conn]
  <2>1. e \in ToClient
    BY DEF ToClient
  <2>2. toClient' = Append(toClient, e)
    BY <1>5, <2>1, Sending
  <2>3. Sent(ticks, toClient, toClient', Conn, "close_ok") /\ Routed(toClient', channels)
    BY <2>1, <2>2, MethodSent DEF Clean, Known
  <2>4. Known' /\ Failing'
    BY <1>1, <1>5, <2>3 DEF Clean, Known, Failing
  <2>5. Coming'
    <3>1. \A d \in Channels : d # Conn
      BY <1>0
    <3> QED
      BY <1>1, <2>3, <3>1 DEF Clean, Coming, Sent
  <2>6. ConnClose'
    BY <1>1, <1>5, <2>3 DEF Clean, ConnClose, Sent
  <2> QED
    BY <1>1, <1>2, <1>3, <2>4, <2>5, <2>6 DEF Clean
<1>6. CASE ~socketOpen
  <2>1. [n |-> 0, m |-> "close_ok", for |-> Conn] \in ToClient
    BY DEF ToClient
  <2>2. toClient' = toClient
    BY <1>6, <2>1, Sending
  <2> QED
    BY <2>2, <1>4
<1> QED
  BY <1>4, <1>5, <1>6

\* The broker takes a frame.
LEMMA PeerReadsClean ==
    ASSUME Types, Names, Clean, PeerReads
    PROVE  Spoilt' \/ Clean'
<1> DEFINE f == Head(toPeer)
           c == f.for
<1>0. /\ None \notin Channels
      /\ \A i \in Numbers : session[i].state = "closed" <=> session[i].for = None
  BY CleanFacts
<1>1. /\ UNCHANGED <<stage, number, channels, call, destroyed, closed, replying, ticks, draining, decoding, contents,
             socketOpen, crashed>>
      /\ \A x, m : Asks(toPeer', x, m) => Asks(toPeer, x, m)
      /\ Asks(toPeer, c, f.m)
      /\ \A i : OneRequest(toPeer, i) => OneRequest(toPeer', i)
      /\ f.n # 0 => c \in Channels /\ f.n \in Numbers /\ f.n = number[c]
      /\ f.n = 0 => f.for = Conn /\ f.m \in {"close", "close_ok"}
  BY ReadingFacts
<1>2. UNCHANGED <<session, peer>> \/ peer' # "open" => Broker'
  BY <1>1 DEF Clean, Broker
<1>3. f.n # 0 /\ peer = "open" =>
         /\ f.m = "open" => session[f.n].for = None
         /\ f.m = "close" => session[f.n].for = c
         /\ f.m = "flow_ok" => session[f.n].for = c \/ call[c]["close"] \in Past
         /\ f.m # "close_ok"
  BY <1>1 DEF Clean, Broker
<1>4. CASE /\ f.n # 0 /\ peer = "open" /\ offence' = f.m /\ peer' = "closing" /\ session' = session
           /\ f.m \in {"open", "close", "close_ok", "flow_ok"}
           /\ f.m = "open" => session[f.n].state # "closed"
           /\ f.m \in {"close", "flow_ok"} => session[f.n].state = "closed"
  <2>1. f.m = "flow_ok" /\ call[c]["close"] \in Past
    BY <1>0, <1>1, <1>3, <1>4
  <2>2. c \in Closers
    BY <1>1, <1>4, <2>1 DEF Past, Names, Called
  <2>3. Crossed' /\ peer' # "open"
    BY <1>1, <1>4, <2>1, <2>2 DEF Crossed, Past
  <2> QED
    BY <2>3 DEF Spoilt
<1>5. CASE /\ f.n # 0 /\ peer = "open" /\ f.m = "open" /\ session[f.n].state = "closed"
           /\ session' = [session EXCEPT ![f.n] = [state |-> "open", for |-> f.for]]
           /\ Send(<<[n |-> f.n, m |-> "open_ok", for |-> f.for]>>) /\ UNCHANGED <<peer, offence>>
  BY <1>5, OpenReadClean
<1>6. CASE /\ f.n # 0 /\ peer = "open" /\ f.m = "close"
           /\ \/ session[f.n].state = "open" /\ session' = [session EXCEPT ![f.n] = NoSession]
              \/ session[f.n].state = "closing" /\ session' = session
           /\ Send(<<[n |-> f.n, m |-> "close_ok", for |-> f.for]>>) /\ UNCHANGED <<peer, offence>>
  BY <1>6, CloseReadClean
<1>7. CASE f.n # 0 /\ peer = "open" /\ f.m = "flow_ok" /\ UNCHANGED <<session, peer, offence, toClient>>
  BY <1>2, <1>7, SilentlyReadClean
<1>8. CASE f.n = 0 /\ peer' = "closed" /\ UNCHANGED <<session, offence>> /\ f.m = "close"
               /\ Send(<<[n |-> 0, m |-> "close_ok", for |-> Conn]>>)
  BY <1>8, EndReadClean
<1>9. CASE f.n = 0 /\ peer' = "closed" /\ UNCHANGED <<session, offence, toClient>>
  BY <1>9, EndReadClean
<1>10. CASE peer # "open" /\ UNCHANGED <<session, peer, offence, toClient>>
  <2>1. ~Linked'
    BY <1>10 DEF Linked
  <2> QED
    BY <1>2, <1>10, <2>1, SilentlyReadClean
<1>11. ~(f.n # 0 /\ peer = "open" /\ f.m = "close_ok")
  BY <1>3
<1> QED
  BY <1>4, <1>5, <1>6, <1>7, <1>8, <1>9, <1>10, <1>11, PeerReadsHow

\* The broker sends on a channel: a delivery, a flow, or its close.
LEMMA ChannelSendsClean ==
    ASSUME Types, Names, Clean, PeerSends, NEW n \in Numbers, NEW m \in {"content", "flow", "close"},
           session[n].state = "open", session[n].for \in Channels,
           m = "close" => session[n].for \in PeerCloses,
           toClient' = Append(toClient, [n |-> n, m |-> m, for |-> session[n].for]),
           session' = IF m = "close" THEN [session EXCEPT ![n].state = "closing"] ELSE session,
           peer' = peer
    PROVE  Clean'
<1> DEFINE c == session[n].for
           e == [n |-> n, m |-> m, for |-> c]
<1>0. /\ Objects = Channels \cup {Conn} /\ Conn \notin Channels /\ 0 \notin Numbers /\ None \notin Channels
      /\ session \in [Numbers -> [state : {"closed", "open", "closing"}, for : Channels \cup {None}]]
      /\ \A i \in Numbers : session[i].for # None => number[session[i].for] = i
  BY CleanFacts DEF Names, Numbered
<1>1. /\ peer = "open" /\ socketOpen
      /\ UNCHANGED <<stage, number, channels, call, destroyed, closed, replying, ticks, draining, decoding, toPeer,
             offence, socketOpen, crashed>>
  BY PeerSendsHow DEF objects
<1>2. c \in Channels /\ number[c] = n
  BY <1>0
<1>3. Linked
  BY <1>1 DEF Linked
<1>4. /\ channels[n] = c /\ call[c]["open"] \in {"pending", "resolved"} /\ call[c]["close"] # "resolved"
      /\ No(ticks, toClient, c, "close_ok")
  BY <1>2, <1>3 DEF Clean, Serving
<1>5. c \notin destroyed
  BY <1>4 DEF Clean, Registered
<1>6. e \in ToClient
  BY <1>2 DEF ToClient, Methods
<1>7. /\ \A i \in Numbers : i # n => session'[i] = session[i]
      /\ session'[n].for = c /\ session'[n].state = IF m = "close" THEN "closing" ELSE "open"
  <2>1. CASE m = "close"
    BY <1>0, <2>1
  <2>2. CASE m # "close"
    BY <2>2
  <2> QED
    BY <2>1, <2>2
<1>8. Sent(ticks, toClient, toClient', c, m) /\ Routed(toClient', channels)
  BY <1>4, <1>6, MethodSent DEF Clean, Known
<1> HIDE DEF e, c
<1>9. /\ \A x : x # c => (Nothing(ticks, toClient', x) <=> Nothing(ticks, toClient, x))
      /\ ~No(ticks, toClient', c, m)
      /\ \A x, k : x # c \/ k # m => (No(ticks, toClient', x, k) <=> No(ticks, toClient, x, k))
      /\ \A x, k : Uniq(ticks, toClient, x, k) /\ (x # c \/ k # m \/ No(ticks, toClient, x, k)) => Uniq(ticks, toClient', x, k)
      /\ \A x : Final(ticks, toClient, x) /\ (x # c \/ No(ticks, toClient, x, "close_ok")) => Final(ticks, toClient', x)
  BY <1>8 DEF Sent
<1>10. m # "open_ok" /\ m # "close_ok"
  OBVIOUS
<1>11. Sane' /\ Registered' /\ Dropped' /\ Dead' /\ Returning'
  BY <1>1 DEF Clean, Sane, Registered, Dropped, Dead, Returning, Unreturned, Resolved
<1>12. Known' /\ Failing'
  BY <1>1, <1>8 DEF Clean, Known, Failing
<1>13. \A i \in Numbers : session'[i].for = session[i].for
  BY <1>7, <1>2 DEF c
<1>14. Broker'
  <2>1. ASSUME NEW d \in Channels
        PROVE  /\ Asks(toPeer, d, "open") => session'[number[d]].for = None
               /\ Asks(toPeer, d, "close") => session'[number[d]].for = d /\ call[d]["close"] \in Past
               /\ Asks(toPeer, d, "flow_ok") => session'[number[d]].for = d \/ call[d]["close"] \in Past
               /\ ~Asks(toPeer, d, "close_ok")
    <3>1. \A k : Asks(toPeer, d, k) => number[d] \in Numbers
      <4> SUFFICES ASSUME NEW k, Asks(toPeer, d, k) PROVE number[d] \in Numbers
        OBVIOUS
      <4>1. PICK i \in 1..Len(toPeer) : toPeer[i].for = d
        BY DEF Asks
      <4>2. toPeer[i] \in ToPeer
        BY CleanFacts
      <4>3. toPeer[i].n \in Numbers
        BY <1>0, <4>1, <4>2 DEF ToPeer
      <4> QED
        BY <1>0, <4>1, <4>3 DEF Names, Numbered, Signed
    <3> QED
      BY <1>1, <1>13, <3>1 DEF Clean, Broker
  <2> QED
    BY <1>1, <2>1 DEF Clean, Broker
<1>15. Asking'
  <2>1. ~Asks(toPeer, c, "open")
    BY <1>0, <1>1, <1>2 DEF Clean, Broker, c
  <2>2. ASSUME NEW d \in Channels
        PROVE  /\ Asks(toPeer, d, "open") =>
                     d \notin destroyed /\ call[d]["open"] = "pending" /\ Nothing(ticks, toClient', d)
               /\ Asks(toPeer, d, "close") =>
                     d \notin destroyed /\ call[d]["close"] = "pending" /\ No(ticks, toClient', d, "close_ok")
    BY <1>3, <1>9, <1>10, <2>1 DEF Clean, Asking
  <2> QED
    BY <1>1, <2>2 DEF Asking
<1>16. Serving'
  <2> SUFFICES ASSUME NEW i \in Numbers, NEW d \in Channels, session'[i].for = d
               PROVE  /\ channels[i] = d
                      /\ \/ call[d]["open"] = "resolved"
                         \/ call[d]["open"] = "pending" /\ ~No(ticks, toClient', d, "open_ok")
                      /\ call[d]["close"] # "resolved"
                      /\ session'[i].state = "open" => No(ticks, toClient', d, "close_ok")
                      /\ session'[i].state = "closing" => ~No(ticks, toClient', d, "close")
    BY <1>1 DEF Serving
  <2>1. /\ channels[i] = d
        /\ \/ call[d]["open"] = "resolved"
           \/ call[d]["open"] = "pending" /\ ~No(ticks, toClient, d, "open_ok")
        /\ call[d]["close"] # "resolved"
        /\ session[i].state = "open" => No(ticks, toClient, d, "close_ok")
        /\ session[i].state = "closing" => ~No(ticks, toClient, d, "close")
    BY <1>3, <1>13 DEF Clean, Serving
  <2>2. i = n => d = c /\ session'[i].state = (IF m = "close" THEN "closing" ELSE "open")
    BY <1>7
  <2>3. i # n => session'[i] = session[i]
    BY <1>7
  <2>4. ~No(ticks, toClient, d, "close") => ~No(ticks, toClient', d, "close")
    BY <1>9
  <2>5. No(ticks, toClient', d, "close_ok") <=> No(ticks, toClient, d, "close_ok")
    BY <1>9, <1>10
  <2>6. No(ticks, toClient', d, "open_ok") <=> No(ticks, toClient, d, "open_ok")
    BY <1>9, <1>10
  <2>7. CASE i = n
    BY <1>4, <1>9, <2>1, <2>2, <2>5, <2>6, <2>7
  <2>8. CASE i # n
    BY <2>1, <2>3, <2>4, <2>5, <2>6, <2>8
  <2> QED
    BY <2>7, <2>8
<1>17. Served'
  <2> SUFFICES ASSUME NEW d \in Channels \ destroyed
               PROVE  /\ call[d]["open"] = "pending" => Asks(toPeer, d, "open") \/ session'[number[d]].for = d
                      /\ call[d]["open"] = "resolved" /\ call[d]["close"] \in {"none", "scheduled"}
                             => session'[number[d]].for = d
                      /\ call[d]["close"] = "pending" => Asks(toPeer, d, "close") \/ ~No(ticks, toClient', d, "close_ok")
    BY <1>1 DEF Served
  <2>1. /\ call[d]["open"] = "pending" => Asks(toPeer, d, "open") \/ session[number[d]].for = d
        /\ call[d]["open"] = "resolved" /\ call[d]["close"] \in {"none", "scheduled"} => session[number[d]].for = d
        /\ call[d]["close"] = "pending" => Asks(toPeer, d, "close") \/ ~No(ticks, toClient, d, "close_ok")
    BY <1>3 DEF Clean, Served
  <2>2. call[d]["open"] # "none" => number[d] \in Numbers
    BY CleanFacts DEF Names, Numbered
  <2> QED
    BY <1>9, <1>10, <1>13, <2>1, <2>2
<1>18. Coming'
  <2> SUFFICES ASSUME NEW d \in Channels \ destroyed
               PROVE  /\ ~Nothing(ticks, toClient', d)
                             => call[d]["open"] \in {"pending", "resolved"} /\ call[d]["close"] # "resolved"
                      /\ ~No(ticks, toClient', d, "open_ok") => call[d]["open"] = "pending"
                      /\ ~No(ticks, toClient', d, "close_ok") => call[d]["close"] = "pending"
                      /\ ~No(ticks, toClient', d, "close") => d \in PeerCloses
                      /\ Uniq(ticks, toClient', d, "open_ok") /\ Final(ticks, toClient', d)
    BY <1>1 DEF Coming
  <2>1. /\ ~Nothing(ticks, toClient, d) => call[d]["open"] \in {"pending", "resolved"} /\ call[d]["close"] # "resolved"
        /\ ~No(ticks, toClient, d, "open_ok") => call[d]["open"] = "pending"
        /\ ~No(ticks, toClient, d, "close_ok") => call[d]["close"] = "pending"
        /\ ~No(ticks, toClient, d, "close") => d \in PeerCloses
        /\ Uniq(ticks, toClient, d, "open_ok") /\ Final(ticks, toClient, d)
    BY DEF Clean, Coming
  <2>2. m = "close" => c \in PeerCloses
    BY DEF c
  <2>3. CASE d = c
    BY <1>4, <1>9, <1>10, <2>1, <2>2, <2>3
  <2>4. CASE d # c
    BY <1>9, <2>1, <2>4
  <2> QED
    BY <2>3, <2>4
<1>19. ConnClose'
  <2>1. c # Conn
    BY <1>0, <1>2
  <2> QED
    BY <1>1, <1>9, <2>1 DEF Clean, ConnClose
<1> QED
  BY <1>11, <1>12, <1>14, <1>15, <1>16, <1>17, <1>18, <1>19 DEF Clean

\* The broker sends.
LEMMA PeerSendsClean ==
    ASSUME Types, Names, Clean, PeerSends
    PROVE  Clean'
<1>0. Objects = Channels \cup {Conn} /\ Conn \notin Channels /\ PeerCloses \subseteq Channels
  BY CleanFacts
<1>1. /\ peer = "open" /\ socketOpen
      /\ UNCHANGED <<stage, number, channels, call, destroyed, closed, replying, ticks, draining, decoding, toPeer,
             offence, socketOpen, crashed>>
      /\ \/ \E n \in Numbers, m \in {"content", "flow"} :
               /\ session[n].state = "open" /\ session[n].for \in Channels
               /\ toClient' = Append(toClient, [n |-> n, m |-> m, for |-> session[n].for])
               /\ contents' \in 0..MaxContent /\ UNCHANGED <<session, peer>>
         \/ \E n \in Numbers :
               /\ session[n].state = "open" /\ session[n].for \in PeerCloses
               /\ toClient' = Append(toClient, [n |-> n, m |-> "close", for |-> session[n].for])
               /\ session' = [session EXCEPT ![n].state = "closing"] /\ UNCHANGED <<contents, peer>>
         \/ /\ toClient' = Append(toClient, [n |-> 0, m |-> "close", for |-> Conn])
            /\ peer' = "closing" /\ UNCHANGED <<session, contents>>
  BY PeerSendsHow DEF objects
<1>2. ASSUME NEW n \in Numbers, NEW m \in {"content", "flow"}, session[n].state = "open", session[n].for \in Channels,
             toClient' = Append(toClient, [n |-> n, m |-> m, for |-> session[n].for]), UNCHANGED <<session, peer>>
      PROVE  Clean'
  <2>1. m \in {"content", "flow", "close"} /\ m # "close"
    OBVIOUS
  <2> QED
    BY <1>2, <2>1, ChannelSendsClean
<1>3. ASSUME NEW n \in Numbers, session[n].state = "open", session[n].for \in PeerCloses,
             toClient' = Append(toClient, [n |-> n, m |-> "close", for |-> session[n].for]),
             session' = [session EXCEPT ![n].state = "closing"], peer' = peer
      PROVE  Clean'
  BY <1>0, <1>3, ChannelSendsClean
<1>4. CASE toClient' = Append(toClient, [n |-> 0, m |-> "close", for |-> Conn]) /\ peer' = "closing" /\ session' = session
  <2>1. [n |-> 0, m |-> "close", for |-> Conn] \in ToClient
    BY DEF ToClient
  <2>2. Sent(ticks, toClient, toClient', Conn, "close") /\ Routed(toClient', channels)
    BY <1>4, <2>1, MethodSent DEF Clean, Known
  <2>3. Sane' /\ Registered' /\ Dropped' /\ Dead' /\ Returning'
    BY <1>1 DEF Clean, Sane, Registered, Dropped, Dead, Returning, Unreturned, Resolved
  <2>4. Known' /\ Failing'
    BY <1>1, <2>2 DEF Clean, Known, Failing
  <2>5. Broker' /\ Asking' /\ Serving' /\ Served'
    BY <1>4 DEF Broker, Asking, Serving, Served, Linked
  <2>6. Coming'
    <3>1. \A d \in Channels : d # Conn
      BY <1>0
    <3> QED
      BY <1>1, <2>2, <3>1 DEF Clean, Coming, Sent
  <2>7. ConnClose'
    <3>1. \A k : k # "close" => (No(ticks, toClient', Conn, k) <=> No(ticks, toClient, Conn, k))
      BY <2>2 DEF Sent
    <3>2. Uniq(ticks, toClient, Conn, "close_ok") => Uniq(ticks, toClient', Conn, "close_ok")
      BY <2>2 DEF Sent
    <3> QED
      BY <1>1, <3>1, <3>2 DEF Clean, ConnClose
  <2> QED
    BY <2>3, <2>4, <2>5, <2>6, <2>7 DEF Clean
<1> QED
  BY <1>1, <1>2, <1>3, <1>4

\* At the beginning nothing has gone wrong.
LEMMA BeginningClean ==
    ASSUME Init
    PROVE  Clean
<1>1. Len(<<>>) = 0 /\ 1..0 = {}
  OBVIOUS
<1>2. \A x : Nothing(<<>>, <<>>, x)
  BY <1>1 DEF Nothing
<1>3. \A x : (\A m : No(<<>>, <<>>, x, m) /\ Uniq(<<>>, <<>>, x, m)) /\ Final(<<>>, <<>>, x)
  BY <1>2, NothingIsNo
<1>4. Own(<<>>) /\ Routed(<<>>, channels) /\ (\A x, m : ~Asks(<<>>, x, m)) /\ (\A n : OneRequest(<<>>, n))
          /\ ~Waits(<<>>, Ended)
  BY <1>1 DEF Own, Routed, Asks, OneRequest, Waits
<1>5. /\ ticks = <<>> /\ toClient = <<>> /\ toPeer = <<>> /\ destroyed = {} /\ closed = {} /\ replying = {}
      /\ socketOpen = TRUE /\ crashed = FALSE /\ offence = None /\ decoding = "idle"
      /\ \A c \in Channels : number[c] = 0
      /\ \A n \in Numbers : channels[n] = None /\ session[n].for = None
      /\ \A o \in Objects, k \in Kinds : call[o][k] = "none"
  BY DEF Init, LoopInit, NoSession
<1>6. {"open", "close", "again", "drop"} = Kinds /\ Channels \subseteq Objects /\ None \notin Channels
  BY ConnectionAssumption DEF Kinds, Objects
<1>7. Sane /\ Registered /\ Dropped /\ Dead /\ Known /\ Failing /\ Returning
  BY <1>4, <1>5, <1>6 DEF Sane, Registered, Dropped, Dead, Known, Failing, Returning
<1>8. Broker /\ Asking /\ Serving /\ Coming /\ ConnClose
  BY <1>2, <1>3, <1>4, <1>5, <1>6 DEF Broker, Asking, Serving, Coming, ConnClose
<1>9. Served
  BY <1>5, <1>6 DEF Served
<1> QED
  BY <1>7, <1>8, <1>9 DEF Clean

\* A step from a state in which nothing has gone wrong.
LEMMA CleanKept ==
    ASSUME Types, Names, Clean, ~Repeated, [Next]_vars
    PROVE  Spoilt' \/ Clean'
<1>1. CASE UNCHANGED vars
  BY <1>1 DEF vars, objects, broker, Clean, Sane, Registered, Dropped, Dead, Known, Failing, Returning, Broker, Asking,
              Serving, Served, Coming, ConnClose, Linked, Unreturned, Resolved
<1>2. CASE Next
  <2>1. Ticks => Spoilt' \/ Clean'
    BY ChannelOpenTickClean, CallTickClean, HandleMethodClean, DestructionClean DEF Ticks, HandleMethod
  <2>2. Continues => Spoilt' \/ Clean'
    BY UserClean, DestructionClean DEF Continues
  <2>3. User => Spoilt' \/ Clean'
    BY UserClean, DestructionClean, AgainRepeated DEF User, Spoilt
  <2>4. (\E c \in Channels : CloseOkWritten(c)) => Spoilt' \/ Clean'
    BY DestructionClean
  <2> QED
    BY <1>2, <2>1, <2>2, <2>3, <2>4, DecodeClean, SocketFailsClean, PeerReadsClean, PeerSendsClean DEF Next
<1> QED
  BY <1>1, <1>2

-----------------------------------------------------------------------------
(* What follows.                                                           *)
\* The inductive invariant: types and names always, and everything is clean
\* until a channel has ended otherwise than by one close() of its own.
THEOREM InvHolds == Spec => []Inv
<1>1. Init => Inv
  BY BeginningNames, BeginningClean DEF Inv
<1>2. Inv /\ [Next]_vars => Inv'
  BY NamesKept, SpoiltStays, CleanKept DEF Inv, Spoilt
<1> QED
  BY <1>1, <1>2, PTL DEF Spec

\* Only a channel that ends otherwise than by one close() of its own can hurt
\* others: until one is destroyed in use or closed by the broker, or close() is
\* called once more on what is closing or destroyed, nothing is lost, handed to
\* another channel's object or refused by the broker but for a flow_ok that
\* crosses a close(), and the process lives.
THEOREM HurtOnlyByUnclean == Spec => []OnlyUncleanEndsHurt
<1>1. ASSUME Inv PROVE OnlyUncleanEndsHurt
  <2>1. CASE Spoilt
    <3>1. Unclean \/ Crossed
      BY <2>1 DEF Spoilt, Unclean
    <3> QED
      BY <3>1 DEF OnlyUncleanEndsHurt
  <2>2. CASE Clean
    <3>1. ticks \in Seq(Jobs)
      BY <1>1 DEF Inv, Types
    <3>2. DOMAIN ticks = 1..Len(ticks)
      BY <3>1
    <3>3. SameSession
      BY <2>2, <3>2 DEF Clean, Known, Own, SameSession
    <3>4. offence = None /\ decoding # "failed" /\ ~crashed
      BY <2>2 DEF Clean, Sane
    <3>5. \A c \in Channels : ~Unregistered(c)
      BY <2>2 DEF Clean, Registered, Unregistered
    <3> QED
      BY <3>3, <3>4, <3>5 DEF OnlyUncleanEndsHurt
  <2> QED
    BY <1>1, <2>1, <2>2 DEF Inv
<1>2. Inv => OnlyUncleanEndsHurt
  BY <1>1
<1> QED
  BY <1>2, InvHolds, PTL

\* Nothing is under way between the two ends: no job, no frame, no continuation.
LEMMA StillnessFacts ==
    ASSUME Types, Names, Clean, Settled
    PROVE  /\ ticks = <<>> /\ toClient = <<>> /\ toPeer = <<>> /\ Linked
           /\ \A c \in Channels : stage[c] # "asked" /\ \A k \in Kinds : call[c][k] # "scheduled"
           /\ \A c \in Channels : stage[c] = "made" => call[c]["open"] \notin {"none", "resolved", "rejected"}
           /\ \A o \in Objects \ closed : call[o]["close"] # "resolved"
           /\ \A c \in Channels : \A m : ~Asks(toPeer, c, m)
           /\ \A c \in Channels : \A m : No(ticks, toClient, c, m)
<1>1. ticks = <<>> /\ toClient = <<>> /\ toPeer = <<>> /\ peer = "open" /\ Conn \notin destroyed /\ ~Continuations
  BY DEF Settled, Idle, Quiet
<1>2. Len(<<>>) = 0 /\ 1..0 = {}
  OBVIOUS
<1>3. \A j : ~Waits(ticks, j)
  BY <1>1, <1>2 DEF Waits
<1>4. socketOpen
  BY <1>1, <1>3 DEF Names, Over
<1>5. \A c \in Channels : stage[c] # "asked" /\ \A k \in Kinds : call[c][k] # "scheduled"
  BY <1>3 DEF Names, Scheduled, Objects
<1>6. /\ \A c \in Channels : stage[c] = "made" => call[c]["open"] \notin {"none", "resolved", "rejected"}
      /\ \A o \in Objects \ closed : call[o]["close"] # "resolved"
  BY <1>1 DEF Continuations, Resolved
<1>7. \A c \in Channels : \A m : ~Asks(toPeer, c, m) /\ No(ticks, toClient, c, m)
  BY <1>1, <1>2 DEF Asks, No
<1> QED
  BY <1>1, <1>4, <1>5, <1>6, <1>7 DEF Linked

\* Then the client and the broker have the same channels.
LEMMA CleanAgreement ==
    ASSUME Types, Names, Clean, Settled
    PROVE  \A n \in Numbers : session[n].for = channels[n]
<1>0. /\ call \in [Objects -> [Kinds -> {"none", "scheduled", "pending", "resolved", "rejected"}]]
      /\ channels \in [Numbers -> Channels \cup {None}]
      /\ session \in [Numbers -> [state : {"closed", "open", "closing"}, for : Channels \cup {None}]]
      /\ {"open", "close", "again", "drop"} = Kinds /\ Objects = Channels \cup {Conn}
      /\ closed \subseteq destroyed /\ Conn \notin Channels /\ None \notin Channels /\ 0 \notin Numbers
  BY CleanFacts
<1>1. ASSUME NEW n \in Numbers, session[n].for # None PROVE session[n].for = channels[n]
  <2>1. session[n].for \in Channels
    BY <1>0, <1>1
  <2> QED
    BY <2>1, StillnessFacts DEF Clean, Serving
<1>2. ASSUME NEW n \in Numbers, channels[n] # None PROVE session[n].for = channels[n]
  <2> DEFINE c == channels[n]
  <2>1. c \in Channels /\ c \notin destroyed /\ number[c] = n
    BY <1>0, <1>2 DEF Clean, Registered, Names, Numbered
  <2> HIDE DEF c
  <2>2. n # 0
    BY <1>0
  <2>3. /\ stage[c] \in {"idle", "asked", "made", "open", "failed"}
        /\ call[c]["open"] \in {"none", "scheduled", "pending", "resolved", "rejected"}
        /\ call[c]["close"] \in {"none", "scheduled", "pending", "resolved", "rejected"}
    BY <1>0, <2>1 DEF Types, TypeOK
  <2>4. /\ call[c]["open"] # "scheduled" /\ call[c]["close"] # "scheduled"
        /\ stage[c] = "made" => call[c]["open"] \notin {"none", "resolved", "rejected"}
        /\ call[c]["close"] # "resolved"
        /\ \A m : ~Asks(toPeer, c, m) /\ No(ticks, toClient, c, m)
        /\ stage[c] # "asked"
    BY <1>0, <2>1, StillnessFacts
  <2>5. call[c]["open"] # "rejected" /\ call[c]["close"] # "rejected"
    BY <1>0, <2>1 DEF Names, Called
  <2>6. call[c]["open"] # "none"
    <3>1. /\ ~(stage[c] \in {"idle", "asked"})
          /\ ~(stage[c] = "failed" /\ call[c]["open"] = "none")
      BY <2>1, <2>2 DEF Names, Numbered
    <3>2. stage[c] = "open" => call[c]["open"] = "resolved"
      BY <2>1 DEF Names, Called
    <3> QED
      BY <2>3, <2>4, <3>1, <3>2
  <2>7. /\ call[c]["open"] = "pending" => session[number[c]].for = c
        /\ call[c]["open"] = "resolved" /\ call[c]["close"] \in {"none", "scheduled"} => session[number[c]].for = c
        /\ call[c]["close"] # "pending"
    BY <2>1, <2>4, StillnessFacts DEF Clean, Served
  <2>8. session[n].for = c
    BY <2>1, <2>3, <2>4, <2>5, <2>6, <2>7
  <2> QED
    BY <2>8 DEF c
<1>3. \A n \in Numbers : session[n].for # None => session[n].for = channels[n]
  BY <1>1
<1>4. \A n \in Numbers : channels[n] # None => session[n].for = channels[n]
  BY <1>2
<1> QED
  BY <1>3, <1>4

\* When nothing is under way, client and broker have the same channels open,
\* under the same numbers, until a channel is destroyed in use or closed by
\* the broker, or close() is called again.
THEOREM AgreementWhileClean == Spec => []Agreement
<1>1. Inv => Agreement
  <2> SUFFICES ASSUME Inv, ~Unclean, Settled PROVE \A n \in Numbers : session[n].for = channels[n]
    BY DEF Agreement
  <2>1. ~Spoilt
    BY DEF Spoilt, Unclean, Settled
  <2> QED
    BY <2>1, CleanAgreement DEF Inv
<1> QED
  BY <1>1, InvHolds, PTL

-----------------------------------------------------------------------------
(* What callers and later channels may rely on while the connection lives  *)
(* and every channel has ended by one close() of its own.                  *)

(* A number that is free in the map is free altogether: the broker has no  *)
(* channel under it, no frame of it comes, and nothing but the answer to a *)
(* flow goes out under it.  That is what lets channel_open give a number   *)
(* again as soon as close() has taken it from the map.                     *)
FreeNumbersSilent ==
    Linked => \A n \in Numbers : channels[n] = None =>
        /\ session[n].for = None
        /\ \A i \in 1..Len(toClient) : toClient[i].n # n
        /\ \A i \in 1..Len(toPeer) : toPeer[i].n = n => toPeer[i].m = "flow_ok"

(* A channel whose open or close() waits has its request on the way to the *)
(* broker or the answer on its way back, and not both; and nothing else of *)
(* the kind is on the way.  No caller waits for a frame that was lost      *)
(* between the ticks, the stream and the broker.                           *)
HandshakesUnderWay ==
    Linked => \A c \in Channels \ destroyed :
        /\ call[c]["open"] = "pending"
              <=> Asks(toPeer, c, "open") \/ ~No(ticks, toClient, c, "open_ok")
        /\ ~(Asks(toPeer, c, "open") /\ ~No(ticks, toClient, c, "open_ok"))
        /\ call[c]["close"] = "pending"
              <=> Asks(toPeer, c, "close") \/ ~No(ticks, toClient, c, "close_ok")
        /\ ~(Asks(toPeer, c, "close") /\ ~No(ticks, toClient, c, "close_ok"))

(* What a caller was told is so: a channel that channel_open returned is   *)
(* one the broker has, until its close() is sent; a channel whose close()  *)
(* was answered is one the broker has no more, under any number.           *)
ReturnsAreTrue ==
    Linked => \A c \in Channels :
        /\ stage[c] = "open" /\ c \notin destroyed /\ call[c]["close"] \in {"none", "scheduled"}
              => session[number[c]].for = c
        /\ call[c]["close"] = "resolved" => \A n \in Numbers : session[n].for # c

LEMMA CleanFreeNumbersSilent == ASSUME Types, Names, Clean PROVE FreeNumbersSilent
<1> SUFFICES ASSUME Linked, NEW n \in Numbers, channels[n] = None
             PROVE  /\ session[n].for = None
                    /\ \A i \in 1..Len(toClient) : toClient[i].n # n
                    /\ \A i \in 1..Len(toPeer) : toPeer[i].n = n => toPeer[i].m = "flow_ok"
  BY DEF FreeNumbersSilent
<1>0. /\ session \in [Numbers -> [state : {"closed", "open", "closing"}, for : Channels \cup {None}]]
      /\ Conn \notin Channels /\ None \notin Channels /\ 0 \notin Numbers
  BY CleanFacts
<1>1. session[n].for = None
  <2>1. session[n].for \in Channels => channels[n] = session[n].for
    BY DEF Clean, Serving
  <2> QED
    BY <1>0, <2>1
<1>2. ASSUME NEW i \in 1..Len(toClient), toClient[i].n = n PROVE FALSE
  <2>1. toClient[i] \in ToClient
    BY DEF Types
  <2>2. toClient[i].for \in Channels
    BY <1>0, <1>2, <2>1 DEF ToClient
  <2>3. channels[n] = toClient[i].for
    BY <1>0, <1>2 DEF Clean, Known, Routed
  <2> QED
    BY <1>0, <2>2, <2>3
<1>3. ASSUME NEW i \in 1..Len(toPeer), toPeer[i].n = n PROVE toPeer[i].m = "flow_ok"
  <2> DEFINE c == toPeer[i].for
  <2>1. toPeer[i] \in ToPeer
    BY DEF Types
  <2>2. c \in Channels /\ toPeer[i].m \in {"open", "close", "close_ok", "flow_ok"}
    BY <1>0, <1>3, <2>1 DEF ToPeer
  <2>3. number[c] = n
    BY <1>0, <1>3, <2>2 DEF Names, Numbered, Signed
  <2>4. Asks(toPeer, c, toPeer[i].m)
    BY DEF Asks
  <2> HIDE DEF c
  <2>5. c \in destroyed
    BY <1>0, <2>2, <2>3 DEF Clean, Registered
  <2>6. ~Asks(toPeer, c, "open") /\ ~Asks(toPeer, c, "close")
    BY <2>2, <2>5 DEF Clean, Asking
  <2>7. ~Asks(toPeer, c, "close_ok")
    BY <2>2 DEF Clean, Broker, Linked
  <2> QED
    BY <2>2, <2>4, <2>6, <2>7
<1> QED
  BY <1>1, <1>2, <1>3

LEMMA CleanHandshakesUnderWay == ASSUME Types, Names, Clean PROVE HandshakesUnderWay
<1> SUFFICES ASSUME Linked, NEW c \in Channels \ destroyed
             PROVE  /\ call[c]["open"] = "pending"
                          <=> Asks(toPeer, c, "open") \/ ~No(ticks, toClient, c, "open_ok")
                    /\ ~(Asks(toPeer, c, "open") /\ ~No(ticks, toClient, c, "open_ok"))
                    /\ call[c]["close"] = "pending"
                          <=> Asks(toPeer, c, "close") \/ ~No(ticks, toClient, c, "close_ok")
                    /\ ~(Asks(toPeer, c, "close") /\ ~No(ticks, toClient, c, "close_ok"))
  BY DEF HandshakesUnderWay
<1>1. /\ Asks(toPeer, c, "open") => call[c]["open"] = "pending" /\ Nothing(ticks, toClient, c)
      /\ Asks(toPeer, c, "close") => call[c]["close"] = "pending" /\ No(ticks, toClient, c, "close_ok")
  BY DEF Clean, Asking
<1>2. /\ ~No(ticks, toClient, c, "open_ok") => call[c]["open"] = "pending"
      /\ ~No(ticks, toClient, c, "close_ok") => call[c]["close"] = "pending"
  BY DEF Clean, Coming
<1>3. Nothing(ticks, toClient, c) => No(ticks, toClient, c, "open_ok")
  BY DEF Nothing, No
<1>4. call[c]["close"] = "pending" => Asks(toPeer, c, "close") \/ ~No(ticks, toClient, c, "close_ok")
  BY DEF Clean, Served
<1>5. ASSUME call[c]["open"] = "pending", ~Asks(toPeer, c, "open")
      PROVE  ~No(ticks, toClient, c, "open_ok")
  <2>1. session[number[c]].for = c
    BY <1>5 DEF Clean, Served
  <2>2. number[c] \in Numbers
    <3>1. number[c] # 0
      BY <1>5 DEF Names, Numbered, Kinds
    <3> QED
      BY <3>1 DEF Types, TypeOK
  <2> QED
    BY <1>5, <2>1, <2>2 DEF Clean, Serving
<1> QED
  BY <1>1, <1>2, <1>3, <1>4, <1>5

LEMMA CleanReturnsAreTrue == ASSUME Types, Names, Clean PROVE ReturnsAreTrue
<1> SUFFICES ASSUME Linked, NEW c \in Channels
             PROVE  /\ stage[c] = "open" /\ c \notin destroyed /\ call[c]["close"] \in {"none", "scheduled"}
                          => session[number[c]].for = c
                    /\ call[c]["close"] = "resolved" => \A n \in Numbers : session[n].for # c
  BY DEF ReturnsAreTrue
<1>1. stage[c] = "open" => call[c]["open"] = "resolved"
  BY DEF Names, Called
<1>2. c \notin destroyed /\ call[c]["open"] = "resolved" /\ call[c]["close"] \in {"none", "scheduled"}
          => session[number[c]].for = c
  BY DEF Clean, Served
<1>3. call[c]["close"] = "resolved" => \A n \in Numbers : session[n].for # c
  BY DEF Clean, Serving
<1> QED
  BY <1>1, <1>2, <1>3

\* For any channels and any channel_max, until a channel is destroyed in use
\* or closed by the broker, or close() is called again: a number is given again
\* only when nothing of its last channel is left but the answer to a flow,
\* every open or close that waits has exactly one of its request and its answer
\* on the way, and what was returned is so.
THEOREM NumbersAndAnswers ==
    Spec => [](Unclean \/ (FreeNumbersSilent /\ HandshakesUnderWay /\ ReturnsAreTrue))
<1>1. Inv => Unclean \/ (FreeNumbersSilent /\ HandshakesUnderWay /\ ReturnsAreTrue)
  <2> SUFFICES ASSUME Inv, ~Unclean
               PROVE  FreeNumbersSilent /\ HandshakesUnderWay /\ ReturnsAreTrue
    OBVIOUS
  <2>1. CASE Spoilt
    <3>1. ~Linked
      BY <2>1 DEF Spoilt, Unclean, Linked
    <3> QED
      BY <3>1 DEF FreeNumbersSilent, HandshakesUnderWay, ReturnsAreTrue
  <2>2. CASE Clean
    BY <2>2, CleanFreeNumbersSilent, CleanHandshakesUnderWay, CleanReturnsAreTrue DEF Inv
  <2> QED
    BY <2>1, <2>2 DEF Inv
<1> QED
  BY <1>1, InvHolds, PTL
=============================================================================
