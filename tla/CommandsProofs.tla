--------------------------- MODULE CommandsProofs ---------------------------
(***************************************************************************)
(* For any number of calls, any operations and any server: what the        *)
(* commands leave behind (NothingElseLeft of Commands), the types, and     *)
(* that what a call reports was so (AnswersTrue).                          *)
(***************************************************************************)
EXTENDS Commands, SequenceTheorems, FiniteSetTheorems, TLAPS

Phases == {"idle", "connecting", "opening", "asking", "answered", "closing", "done"}

Connected == {"opening", "asking", "answered", "closing"}

Calls ==
    /\ phase \in [Clients -> Phases] /\ step \in [Clients -> Nat]
    /\ result = [c \in Clients |-> result[c]] /\ why = [c \in Clients |-> why[c]]

\* the command that a call is at has the connection, or had when it was refused
Keeps(c) ==
    \/ phase[c] \in Connected
    \/ phase[c] = "done" /\ result[c] # "true" /\ why[c] \in Refusals

Held == \A x \in connections : \E c \in Clients : x = <<c, step[c]>> /\ Keeps(c)

\* a private queue belongs to a command that was obeyed and goes on
OwnedBy(q) ==
    \A c \in Clients, k \in Nat : queues[q].owner = <<c, k>> => k = step[c] /\ phase[c] \in {"answered", "closing"}

Owned ==
    /\ queues = [q \in Queues |-> queues[q]]
    /\ \A q \in Queues : queues[q] # None => IsQueue(queues[q]) /\ OwnedBy(q)

Inv == Calls /\ Held /\ Owned

-----------------------------------------------------------------------------
\* a step of one call in which nothing of the server changes
LEMMA OneCall ==
    ASSUME Inv, NEW c \in Clients, NEW p \in Phases, Goes(c, p), UNCHANGED <<connections, queues, step>>,
           result' = [d \in Clients |-> result'[d]], why' = [d \in Clients |-> why'[d]],
           \A d \in Clients \ {c} : result'[d] = result[d] /\ why'[d] = why[d],
           <<c, step[c]>> \in connections => Keeps(c)',
           phase[c] \in {"answered", "closing"} => p \in {"answered", "closing"}
    PROVE  Inv'
<1>1. phase' \in [Clients -> Phases] /\ phase'[c] = p /\ \A d \in Clients \ {c} : phase'[d] = phase[d]
  BY DEF Inv, Calls, Goes
<1>2. Calls'
  BY <1>1 DEF Inv, Calls
<1>3. Held'
  BY <1>1 DEF Inv, Held, Keeps
<1>4. Owned'
  BY <1>1 DEF Inv, Owned, OwnedBy
<1> QED
  BY <1>2, <1>3, <1>4 DEF Inv

\* the end of a connection takes the private queues with it, and no other queue is changed
LEMMA Disconnected ==
    ASSUME Inv, NEW c \in Clients, Disconnect(<<c, step[c]>>)
    PROVE  /\ connections' = connections \ {<<c, step[c]>>}
           /\ queues' = [q \in Queues |-> queues'[q]]
           /\ \A q \in Queues : queues'[q] # None => queues'[q] = queues[q] /\ queues[q].owner # <<c, step[c]>>
BY DEF Disconnect, Remove

\* a call that has no connection any more goes where it likes
LEMMA WithoutConnection ==
    ASSUME Inv, NEW c \in Clients, NEW p \in Phases, NEW n \in Nat, Goes(c, p),
           Disconnect(<<c, step[c]>>), step' = [step EXCEPT ![c] = n],
           result' = [d \in Clients |-> result'[d]], why' = [d \in Clients |-> why'[d]],
           \A d \in Clients \ {c} : result'[d] = result[d] /\ why'[d] = why[d]
    PROVE  Inv'
<1>1. phase' \in [Clients -> Phases] /\ \A d \in Clients \ {c} : phase'[d] = phase[d]
  BY DEF Inv, Calls, Goes
<1>2. step' \in [Clients -> Nat] /\ \A d \in Clients \ {c} : step'[d] = step[d]
  BY DEF Inv, Calls
<1>3. Calls'
  BY <1>1, <1>2 DEF Calls
<1>4. Held'
  BY <1>1, <1>2, Disconnected DEF Inv, Held, Keeps
<1>5. Owned'
  <2>1. queues' = [q \in Queues |-> queues'[q]]
    BY Disconnected
  <2> SUFFICES ASSUME NEW q \in Queues, queues'[q] # None
               PROVE  IsQueue(queues'[q]) /\ OwnedBy(q)'
    BY <2>1 DEF Owned
  <2>2. queues'[q] = queues[q] /\ queues[q].owner # <<c, step[c]>> /\ IsQueue(queues[q]) /\ OwnedBy(q)
    BY Disconnected DEF Inv, Owned
  <2> QED
    BY <1>1, <1>2, <2>2 DEF OwnedBy
<1> QED
  BY <1>3, <1>4, <1>5 DEF Inv

LEMMA RefusalIsKnown ==
    ASSUME NEW command, NEW o, NEW connection, Refusal(command, o, connection) # None
    PROVE  Refusal(command, o, connection) \in Refusals
BY DEF Refusal, Refusals

\* a command that is obeyed changes no owner but that of the queue it declares
LEMMA Obeyed ==
    ASSUME Inv, NEW command, NEW o, NEW c \in Clients, Obey(command, o, <<c, step[c]>>),
           Refusal(command, o, <<c, step[c]>>) = None
    PROVE  /\ queues' = [q \in Queues |-> queues'[q]]
           /\ \A q \in Queues : queues'[q] # None =>
                /\ IsQueue(queues'[q])
                /\ \/ queues[q] # None /\ queues'[q].owner = queues[q].owner
                   \/ queues'[q].owner \in {None, <<c, step[c]>>}
<1> DEFINE Result == /\ queues' = [q \in Queues |-> queues'[q]]
                     /\ \A q \in Queues : queues'[q] # None =>
                          /\ IsQueue(queues'[q])
                          /\ \/ queues[q] # None /\ queues'[q].owner = queues[q].owner
                             \/ queues'[q].owner \in {None, <<c, step[c]>>}
<1>0. queues = [q \in Queues |-> queues[q]] /\ \A q \in Queues : queues[q] # None => IsQueue(queues[q])
  BY DEF Inv, Owned
<1>1. CASE queues' = queues
  BY <1>0, <1>1
<1>2. CASE Declare(o, <<c, step[c]>>) /\ queues' # queues
  <2>1. queues' = [queues EXCEPT ![o.name] =
                     IF queues[o.name] # None THEN queues[o.name]
                     ELSE NewQueue(o, IF o.private THEN <<c, step[c]>> ELSE None)]
    BY <1>2 DEF Declare
  <2> QED
    BY <1>0, <2>1 DEF IsQueue, NewQueue
<1>3. CASE \E names, unbound : Remove(names, unbound)
  BY <1>0, <1>3 DEF Remove
<1>4. CASE command.verb = "purge"
  <2> DEFINE n == command.name
  <2>1. queues' = [queues EXCEPT ![n].messages = 0]
    BY <1>4 DEF Obey
  <2>2. n \in Queues => queues[n] # None
    BY <1>4, CommandsAssumption DEF Refusal, Exists, Refusals
  <2>3. ASSUME NEW q \in Queues, queues'[q] # None
        PROVE  IsQueue(queues'[q]) /\ queues[q] # None /\ queues'[q].owner = queues[q].owner
    <3>1. CASE q = n
      BY <1>0, <2>1, <2>2, <3>1 DEF IsQueue
    <3>2. CASE q # n
      BY <1>0, <2>1, <2>3, <3>2
    <3> QED
      BY <3>1, <3>2
  <2>4. queues' = [q \in Queues |-> queues'[q]]
    BY <1>0, <2>1
  <2> QED
    BY <2>3, <2>4
<1> QED
  BY <1>1, <1>2, <1>3, <1>4 DEF Obey, server

LEMMA InvNext == ASSUME Inv, [Next]_vars PROVE Inv'
<1>1. CASE UNCHANGED vars
  BY <1>1 DEF vars, server, moments, Inv, Calls, Held, Keeps, Owned, OwnedBy
<1>2. ASSUME NEW c \in Clients, Call(c) \/ ChannelOpen(c) \/ ChannelClose(c)
      PROVE  Inv'
  <2>1. PICK p \in Phases : /\ Goes(c, p)
                            /\ phase[c] \in {"answered", "closing"} => p \in {"answered", "closing"}
                            /\ p \in Connected \/ phase[c] = "idle"
    BY <1>2 DEF Call, ChannelOpen, ChannelClose, GoesOn, At, Phases, Connected
  <2>2. UNCHANGED <<connections, queues, step, result, why>>
    BY <1>2 DEF Call, ChannelOpen, ChannelClose, GoesOn, server
  <2>3. <<c, step[c]>> \in connections => Keeps(c)'
    BY <2>1 DEF Inv, Held, Keeps, Goes, Calls, Connected
  <2> QED
    BY <2>1, <2>2, <2>3, OneCall DEF Inv, Calls
<1>3. ASSUME NEW c \in Clients, Connect(c) PROVE Inv'
  <2>1. phase[c] = "connecting" /\ UNCHANGED <<queues, step>> /\ <<c, step[c]>> \notin connections
    BY <1>3 DEF Connect, At, GoesOn, Fails, server, Inv, Held, Keeps, Connected
  <2>2. CASE Fails(c, "refused") /\ UNCHANGED connections
    BY <2>1, <2>2, OneCall DEF Fails, Phases, Inv, Calls
  <2>3. CASE connections' = connections \cup {<<c, step[c]>>} /\ GoesOn(c, "opening")
    <3>1. phase' \in [Clients -> Phases] /\ phase'[c] = "opening"
          /\ (\A d \in Clients \ {c} : phase'[d] = phase[d]) /\ UNCHANGED <<result, why>>
      BY <2>3 DEF GoesOn, Goes, Inv, Calls, Phases
    <3>2. Calls' /\ Owned'
      BY <2>1, <3>1 DEF Inv, Calls, Owned, OwnedBy
    <3>3. Held'
      BY <2>1, <2>3, <3>1 DEF Inv, Held, Keeps, Connected
    <3> QED
      BY <3>2, <3>3 DEF Inv
  <2> QED
    BY <1>3, <2>2, <2>3 DEF Connect, Connection
<1>4. ASSUME NEW c \in Clients, Ask(c) PROVE Inv'
  <2> DEFINE refusal == Refusal(Current(c), op[c], Connection(c))
  <2>1. phase[c] = "asking" /\ UNCHANGED <<connections, step>>
    BY <1>4 DEF Ask, At, GoesOn, Fails
  <2>2. CASE refusal # None /\ Fails(c, refusal) /\ UNCHANGED server
    <3>1. refusal \in Refusals /\ Failed(c) # "true"
      BY <2>2, RefusalIsKnown DEF Failed
    <3>2. Keeps(c)'
      BY <2>2, <3>1 DEF Fails, Goes, Keeps, Inv, Calls
    <3> QED
      BY <2>1, <2>2, <3>2, OneCall DEF Fails, Phases, Inv, Calls, server
  <2>3. CASE refusal = None /\ Obey(Current(c), op[c], Connection(c)) /\ GoesOn(c, "answered")
    <3>1. phase' \in [Clients -> Phases] /\ phase'[c] = "answered"
          /\ (\A d \in Clients \ {c} : phase'[d] = phase[d]) /\ UNCHANGED <<result, why>>
      BY <2>3 DEF GoesOn, Goes, Inv, Calls, Phases
    <3>2. Calls' /\ Held'
      BY <2>1, <3>1 DEF Inv, Calls, Held, Keeps, Connected
    <3>3. Owned'
      <4>1. /\ queues' = [q \in Queues |-> queues'[q]]
            /\ \A q \in Queues : queues'[q] # None =>
                /\ IsQueue(queues'[q])
                /\ \/ queues[q] # None /\ queues'[q].owner = queues[q].owner
                   \/ queues'[q].owner \in {None, <<c, step[c]>>}
        BY <2>3, Obeyed DEF Connection
      <4> SUFFICES ASSUME NEW q \in Queues, queues'[q] # None
                   PROVE  OwnedBy(q)'
        BY <4>1 DEF Owned
      <4>2. CASE queues[q] # None /\ queues'[q].owner = queues[q].owner
        BY <2>1, <3>1, <4>2 DEF Inv, Owned, OwnedBy
      <4>3. CASE queues'[q].owner \in {None, <<c, step[c]>>}
        BY <2>1, <3>1, <4>3, CommandsAssumption DEF OwnedBy
      <4> QED
        BY <4>1, <4>2, <4>3
    <3> QED
      BY <3>2, <3>3 DEF Inv
  <2> QED
    BY <1>4, <2>2, <2>3 DEF Ask
<1>5. ASSUME NEW c \in Clients, ConnectionClose(c) PROVE Inv'
  <2>1. Disconnect(<<c, step[c]>>) /\ why' = why
    BY <1>5 DEF ConnectionClose, Ended, Connection
  <2>2. CASE step' = [step EXCEPT ![c] = @ + 1] /\ Goes(c, "connecting") /\ UNCHANGED result
    <3>1. step[c] + 1 \in Nat
      BY DEF Inv, Calls
    <3> QED
      BY <2>1, <2>2, <3>1, WithoutConnection DEF Inv, Calls, Phases
  <2>3. CASE Goes(c, "done") /\ UNCHANGED step /\ result' = [result EXCEPT ![c] = "true"]
    <3>1. step' = [step EXCEPT ![c] = step[c]] /\ step[c] \in Nat
      BY <2>3 DEF Inv, Calls
    <3> QED
      BY <2>1, <2>3, <3>1, WithoutConnection DEF Inv, Calls, Phases
  <2> QED
    BY <1>5, <2>2, <2>3 DEF ConnectionClose
<1>6. ASSUME NEW c \in Clients, Lose(c) PROVE Inv'
  <2>1. Disconnect(<<c, step[c]>>) /\ Fails(c, "lost")
    BY <1>6 DEF Lose, Connection
  <2>2. step' = [step EXCEPT ![c] = step[c]] /\ step[c] \in Nat
    BY <2>1 DEF Fails, Inv, Calls
  <2> QED
    BY <2>1, <2>2, WithoutConnection DEF Fails, Inv, Calls, Phases
<1> QED
  BY <1>1, <1>2, <1>3, <1>4, <1>5, <1>6 DEF Next

LEMMA InvInit == ASSUME Init PROVE Inv
<1>1. Calls /\ Held
  BY DEF Init, Calls, Held, Phases
<1>2. PICK w \in Worlds : queues = w.queues
  BY DEF Init
<1>3. /\ w.queues = [q \in Queues |-> w.queues[q]]
      /\ \A q \in Queues : w.queues[q] # None =>
            IsQueue(w.queues[q]) /\ w.queues[q].owner \notin Clients \X Nat
  BY CommandsAssumption
<1>4. ASSUME NEW q \in Queues, queues[q] # None PROVE OwnedBy(q)
  <2>1. queues[q].owner \notin Clients \X Nat
    BY <1>2, <1>3, <1>4
  <2>2. \A c \in Clients, k \in Nat : <<c, k>> \in Clients \X Nat
    OBVIOUS
  <2> QED
    BY <2>1, <2>2 DEF OwnedBy
<1>5. Owned
  BY <1>2, <1>3, <1>4 DEF Owned
<1> QED
  BY <1>1, <1>5 DEF Inv

LEMMA InvAlways == Spec => []Inv
<1> QED
  BY InvInit, InvNext, PTL DEF Spec

\* For any number of calls of any operations: a connection that was opened for a command is closed
\* again unless the server refused the command, and a private queue is gone when the call that
\* declared it has ended (CommandBase.execute, commands.ts).
THEOREM CommandsLeaveNothingElse == Spec => []NothingElseLeft
<1>1. Inv => NothingElseLeft
  <2> SUFFICES ASSUME Inv PROVE NothingElseLeft
    OBVIOUS
  <2>1. ASSUME NEW c \in Clients, NEW k \in 1..3, <<c, k>> \in connections
        PROVE  k = step[c] /\ Keeps(c)
    <3>1. PICK d \in Clients : <<c, k>> = <<d, step[d]>> /\ Keeps(d)
      BY <2>1 DEF Inv, Held
    <3> QED
      BY <3>1
  <2>2. ASSUME NEW q \in Queues, NEW c \in Clients, NEW k \in 1..3,
               queues[q] # None, queues[q].owner = <<c, k>>
        PROVE  c \in Running
    BY <2>2 DEF Inv, Owned, OwnedBy, Running
  <2> QED
    BY <2>1, <2>2 DEF NothingElseLeft, Keeps, At, Connected, Refusals
<1> QED
  BY <1>1, InvAlways, PTL

-----------------------------------------------------------------------------
(* Types.                                                                  *)

ServerTypes ==
    /\ exchanges \in [Exchanges -> Storage \cup {None}] /\ bindings \subseteq Exchanges \X Names
    /\ queues = [q \in Queues |-> queues[q]]
    /\ \A q \in Queues : queues[q] # None =>
          IsQueue(queues[q]) /\ queues[q].storage_type \in Storage /\ queues[q].messages \in Nat

LEMMA Joined ==
    ASSUME NEW S, NEW a \in S, NEW b \in S, NEW d \in S
    PROVE  /\ LET s == (<<a>> \o <<>>) \o <<d>> IN Len(s) = 2 /\ s[1] = a /\ s[2] = d
           /\ LET s == (<<a>> \o <<b>>) \o <<d>> IN Len(s) = 3 /\ s[1] = a /\ s[2] = b /\ s[3] = d
<1>1. <<a>> \in Seq(S) /\ <<b>> \in Seq(S) /\ <<d>> \in Seq(S) /\ <<>> \in Seq(S)
  OBVIOUS
<1>2. Len(<<a>>) = 1 /\ Len(<<b>>) = 1 /\ Len(<<d>>) = 1 /\ <<a>>[1] = a /\ <<b>>[1] = b /\ <<d>>[1] = d
  OBVIOUS
<1>3. <<a>> \o <<>> = <<a>>
  BY <1>1, ConcatEmptySeq
<1>4. /\ <<a>> \o <<b>> \in Seq(S) /\ Len(<<a>> \o <<b>>) = 2
      /\ (<<a>> \o <<b>>)[1] = a /\ (<<a>> \o <<b>>)[2] = b
  BY <1>1, <1>2, ConcatProperties
<1>5. Len(<<a>> \o <<d>>) = 2 /\ (<<a>> \o <<d>>)[1] = a /\ (<<a>> \o <<d>>)[2] = d
  BY <1>1, <1>2, ConcatProperties
<1> DEFINE t == <<a>> \o <<b>>
<1>6. t \in Seq(S) /\ Len(t) = 2 /\ t[1] = a /\ t[2] = b
  BY <1>4
<1> HIDE DEF t
<1>7. Len(t \o <<d>>) = 3 /\ (t \o <<d>>)[1] = a /\ (t \o <<d>>)[2] = b /\ (t \o <<d>>)[3] = d
  BY <1>1, <1>2, <1>6, ConcatProperties
<1> QED
  BY <1>3, <1>5, <1>7 DEF t

\* the commands of a call: it looks at what it names before it does what it is for
LEMMA CommandsShape ==
    ASSUME NEW o \in Operations
    PROVE  LET n == Len(Commands(o)) IN
           /\ n \in 1..3
           /\ \A k \in 1..n : Commands(o)[k].name \in {o.name, o.other} \ {None} /\ Commands(o)[k].name \in Names
           /\ \A k \in 1..n : k # n => Commands(o)[k].verb = "look"
           /\ Commands(o)[n] = Command(IF o.call = "exists" THEN "look" ELSE o.call, o.name)
           /\ o.call \in {"bind", "unbind"} =>
                 /\ n > 1 /\ Commands(o)[1].name = o.name
                 /\ o.other # None => n = 3 /\ Commands(o)[2].name = o.other
           /\ o.call = "delete" /\ o.name \in Exchanges => n = 2 /\ Commands(o)[1].name = o.name
<1> DEFINE look == Command("look", o.name)
           other == Command("look", o.other)
           last == Command(o.call, o.name)
<1>0. o.name \in Names /\ o.other \in Names \cup {None} /\ None \notin Names
  BY CommandsAssumption DEF Names
<1>1. look.verb = "look" /\ look.name = o.name /\ other.verb = "look" /\ other.name = o.other
      /\ last.verb = o.call /\ last.name = o.name
  BY DEF Command
<1>2. CASE o.call = "exists"
  BY <1>0, <1>1, <1>2 DEF Commands
<1>3. CASE o.call \in {"bind", "unbind"} /\ o.other = None
  <2>1. Commands(o) = (<<look>> \o <<>>) \o <<last>>
    BY <1>3 DEF Commands, Checks
  <2> HIDE DEF look, last
  <2>2. Len(Commands(o)) = 2 /\ Commands(o)[1] = look /\ Commands(o)[2] = last
    <3> DEFINE S == {look, last}
    <3>1. look \in S /\ last \in S
      OBVIOUS
    <3> QED
      BY <2>1, <3>1, Joined
  <2> QED
    BY <1>0, <1>1, <1>3, <2>2 DEF last
<1>4. CASE o.call \in {"bind", "unbind"} /\ o.other # None
  <2>1. Commands(o) = (<<look>> \o <<other>>) \o <<last>>
    BY <1>4 DEF Commands, Checks
  <2> HIDE DEF look, last, other
  <2>2. Len(Commands(o)) = 3 /\ Commands(o)[1] = look /\ Commands(o)[2] = other /\ Commands(o)[3] = last
    <3> DEFINE S == {look, other, last}
    <3>1. look \in S /\ other \in S /\ last \in S
      OBVIOUS
    <3> HIDE DEF S
    <3>2. LET s == (<<look>> \o <<other>>) \o <<last>>
          IN Len(s) = 3 /\ s[1] = look /\ s[2] = other /\ s[3] = last
      BY <3>1, Joined
    <3> QED
      BY <2>1, <3>2
  <2> QED
    BY <1>0, <1>1, <1>4, <2>2 DEF last
<1>5. CASE o.call = "delete" /\ o.name \in Exchanges
  BY <1>0, <1>1, <1>5 DEF Commands
<1>6. CASE o.call \notin {"exists", "bind", "unbind"} /\ ~(o.call = "delete" /\ o.name \in Exchanges)
  BY <1>0, <1>1, <1>6 DEF Commands
<1> QED
  BY <1>2, <1>3, <1>4, <1>5, <1>6

LEMMA BindingIsPair ==
    ASSUME NEW o \in Operations, o.other # None
    PROVE  Binding(o) \in Exchanges \X Names
BY CommandsAssumption DEF Binding, Names

LEMMA RemoveTypes ==
    ASSUME ServerTypes, NEW names, NEW unbound, Remove(names, unbound)
    PROVE  ServerTypes'
<1>1. exchanges' \in [Exchanges -> Storage \cup {None}]
  BY DEF ServerTypes, Remove
<1>2. bindings' \subseteq Exchanges \X Names
  BY DEF ServerTypes, Remove
<1>3. queues' = [q \in Queues |-> IF q \in names THEN None ELSE queues[q]]
  BY DEF Remove
<1> QED
  BY <1>1, <1>2, <1>3 DEF ServerTypes

LEMMA ObeyTypes ==
    ASSUME ServerTypes, NEW command, NEW o \in Operations, NEW connection,
           Obey(command, o, connection), Refusal(command, o, connection) = None
    PROVE  ServerTypes'
<1>0. o.storage_type \in Storage
  BY CommandsAssumption
<1>1. CASE Declare(o, connection)
  <2>1. exchanges' \in [Exchanges -> Storage \cup {None}] /\ bindings' \subseteq Exchanges \X Names
    BY <1>0, <1>1 DEF Declare, ServerTypes
  <2>2. CASE queues' = queues
    BY <2>1, <2>2 DEF ServerTypes
  <2>3. CASE queues' # queues
    <3> DEFINE new == NewQueue(o, IF o.private THEN connection ELSE None)
    <3>1. queues' = [queues EXCEPT ![o.name] = IF queues[o.name] # None THEN queues[o.name] ELSE new]
      BY <1>1, <2>3 DEF Declare
    <3>2. IsQueue(new) /\ new.storage_type \in Storage /\ new.messages \in Nat
      BY <1>0 DEF IsQueue, NewQueue
    <3> HIDE DEF new
    <3> QED
      BY <2>1, <3>1, <3>2 DEF ServerTypes
  <2> QED
    BY <2>2, <2>3
<1>2. CASE \E names, unbound : Remove(names, unbound)
  BY <1>2, RemoveTypes
<1>3. CASE command.verb = "bind" /\ bindings' = bindings \cup {Binding(o)} /\ UNCHANGED <<exchanges, queues>>
  <2>1. o.other # None
    BY <1>3, CommandsAssumption DEF Refusal, Refusals
  <2> QED
    BY <1>3, <2>1, BindingIsPair DEF ServerTypes
<1>4. CASE command.verb = "purge" /\ queues' = [queues EXCEPT ![command.name].messages = 0]
           /\ UNCHANGED <<exchanges, bindings>>
  <2> DEFINE n == command.name
  <2>1. n \in Queues => queues[n] # None
    BY <1>4, CommandsAssumption DEF Refusal, Exists, Refusals
  <2>2. ASSUME NEW q \in Queues, queues'[q] # None
        PROVE  IsQueue(queues'[q]) /\ queues'[q].storage_type \in Storage /\ queues'[q].messages \in Nat
    <3>1. CASE q = n
      BY <1>4, <2>1, <3>1 DEF ServerTypes, IsQueue
    <3>2. CASE q # n
      BY <1>4, <2>2, <3>2 DEF ServerTypes
    <3> QED
      BY <3>1, <3>2
  <2>3. queues' = [q \in Queues |-> queues'[q]]
    BY <1>4 DEF ServerTypes
  <2> QED
    BY <1>4, <2>2, <2>3 DEF ServerTypes
<1>5. CASE UNCHANGED server
  BY <1>5 DEF server, ServerTypes
<1> QED
  BY <1>1, <1>2, <1>3, <1>4, <1>5 DEF Obey

CallTypes ==
    /\ op \in [Clients -> Operations]
    /\ \A c \in Clients : step[c] \in 1..Len(Commands(op[c]))
    /\ result \in [Clients -> {"true", "false", "error", None}]
    /\ why \in [Clients -> {"refused", "lost", None} \cup Refusals]
    /\ changed \in [Clients -> BOOLEAN]
    /\ ever \in [Clients -> SUBSET Things] /\ gone \in [Clients -> SUBSET Things]

Limited == limit \in Nat /\ IsFiniteSet(connections) /\ Cardinality(connections) <= limit

Types == ServerTypes /\ CallTypes /\ Limited

\* what is there, as a name and as a pair
Found ==
    /\ There \subseteq Things
    /\ \A n \in Names : <<n>> \in There <=> Exists(n)
    /\ \A b \in Exchanges \X Names : b \in There <=> b \in bindings

LEMMA ThereTypes ==
    ASSUME ServerTypes
    PROVE  Found
<1>1. \A n \in Names : <<n>> \notin bindings
  <2> SUFFICES ASSUME NEW n \in Names, <<n>> \in Exchanges \X Names PROVE FALSE
    BY DEF ServerTypes
  <2>1. Len(<<n>>) = 1
    OBVIOUS
  <2>2. PICK x \in Exchanges, y \in Names : <<n>> = <<x, y>>
    OBVIOUS
  <2>3. Len(<<x, y>>) = 2
    OBVIOUS
  <2> QED
    BY <2>1, <2>2, <2>3
<1>2. \A m, n \in Names : <<m>> = <<n>> => m = n
  OBVIOUS
<1>3. \A b \in Exchanges \X Names, n \in Names : b # <<n>>
  <2> SUFFICES ASSUME NEW b \in Exchanges \X Names, NEW n \in Names, b = <<n>> PROVE FALSE
    OBVIOUS
  <2>1. PICK x \in Exchanges, y \in Names : b = <<x, y>>
    OBVIOUS
  <2>2. Len(<<x, y>>) = 2 /\ Len(<<n>>) = 1
    OBVIOUS
  <2> QED
    BY <2>1, <2>2
<1> DEFINE singles == { <<n>> : n \in {m \in Names : Exists(m)} }
<1>4. There = singles \cup bindings
  BY DEF There
<1>5. \A x \in singles : \E n \in Names : x = <<n>> /\ Exists(n)
  OBVIOUS
<1>6. \A n \in Names : Exists(n) => <<n>> \in singles
  OBVIOUS
<1> HIDE DEF singles
<1>7. There \subseteq Things
  BY <1>4, <1>5 DEF Things, ServerTypes
<1>8. \A n \in Names : <<n>> \in There <=> Exists(n)
  BY <1>1, <1>2, <1>4, <1>5, <1>6
<1>9. \A b \in Exchanges \X Names : b \in There <=> b \in bindings
  BY <1>3, <1>4, <1>5
<1> QED
  BY <1>7, <1>8, <1>9 DEF Found

\* the moments of the calls that go on are kept
LEMMA SeenTypes ==
    ASSUME CallTypes, ServerTypes', Seen
    PROVE  /\ ever' \in [Clients -> SUBSET Things] /\ gone' \in [Clients -> SUBSET Things]
           /\ \A c \in Clients : ever[c] \subseteq ever'[c] /\ gone[c] \subseteq gone'[c]
           /\ \A c \in Running : There' \subseteq ever'[c] /\ Things \ There' \subseteq gone'[c]
<1>1. There' \subseteq Things
  <2>1. Found'
    BY ThereTypes, PTL
  <2> QED
    BY <2>1 DEF Found, Things
<1>2. /\ ever' = [c \in Clients |-> IF c \in Running THEN ever[c] \cup There' ELSE ever[c]]
      /\ gone' = [c \in Clients |-> IF c \in Running THEN gone[c] \cup (Things \ There') ELSE gone[c]]
  BY DEF Seen
<1>3. Running \subseteq Clients
  BY DEF Running
<1> HIDE DEF There, Things
<1> QED
  BY <1>1, <1>2, <1>3 DEF CallTypes

\* what an action of a call is: what it leaves alone, and what it sets of the call
LEMMA OneCallGoes ==
    ASSUME Types, Inv, NEW c \in Clients,
           Call(c) \/ Connect(c) \/ ChannelOpen(c) \/ Ask(c) \/ ChannelClose(c) \/ ConnectionClose(c) \/ Lose(c)
    PROVE  /\ op' = op /\ limit' = limit
           /\ \A d \in Clients \ {c} : phase'[d] = phase[d] /\ step'[d] = step[d] /\ result'[d] = result[d]
                                       /\ why'[d] = why[d] /\ changed'[d] = changed[d]
           /\ Call(c) \/ (Seen /\ c \in Running)
<1>1. op' = op /\ limit' = limit
  BY DEF Call, Connect, ChannelOpen, Ask, ChannelClose, ConnectionClose, Lose, GoesOn, Fails
<1>2. \A d \in Clients \ {c} : phase'[d] = phase[d]
  BY DEF Call, Connect, ChannelOpen, Ask, ChannelClose, ConnectionClose, Lose, GoesOn, Fails, Goes, Inv, Calls
<1>3. \A d \in Clients \ {c} : step'[d] = step[d]
  BY DEF Call, Connect, ChannelOpen, Ask, ChannelClose, ConnectionClose, Lose, GoesOn, Fails, Inv, Calls
<1>4. \A d \in Clients \ {c} : result'[d] = result[d] /\ why'[d] = why[d]
  BY DEF Call, Connect, ChannelOpen, Ask, ChannelClose, ConnectionClose, Lose, GoesOn, Fails, Inv, Calls
<1>5. \A d \in Clients \ {c} : changed'[d] = changed[d]
  BY DEF Call, Connect, ChannelOpen, Ask, ChannelClose, ConnectionClose, Lose, Types, CallTypes
<1>6. Call(c) \/ (Seen /\ c \in Running)
  BY DEF Connect, ChannelOpen, Ask, ChannelClose, ConnectionClose, Lose, Running, At
<1> QED
  BY <1>1, <1>2, <1>3, <1>4, <1>5, <1>6

\* a call that goes on, or that ends, at one of its commands
LEMMA OneCallTypes ==
    ASSUME Types, Inv, NEW c \in Clients,
           Call(c) \/ Connect(c) \/ ChannelOpen(c) \/ Ask(c) \/ ChannelClose(c) \/ ConnectionClose(c) \/ Lose(c),
           ServerTypes'
    PROVE  CallTypes'
<1>0. op' = op /\ op \in [Clients -> Operations]
  BY OneCallGoes DEF Types, CallTypes
<1>1. step' \in [Clients -> Nat] /\ step'[c] \in 1..Len(Commands(op[c]))
  <2>0. step \in [Clients -> Nat] /\ step[c] \in 1..Len(Commands(op[c])) /\ Len(Commands(op[c])) \in Nat
    BY <1>0, CommandsShape DEF Types, CallTypes, Inv, Calls
  <2>1. CASE step' = step
    BY <2>0, <2>1
  <2>2. CASE More(c) /\ step' = [step EXCEPT ![c] = @ + 1]
    BY <2>0, <2>2 DEF More
  <2> QED
    BY <2>1, <2>2
       DEF Call, Connect, ChannelOpen, Ask, ChannelClose, ConnectionClose, Lose, GoesOn, Fails
<1>2. result' \in [Clients -> {"true", "false", "error", None}]
  BY DEF Call, Connect, ChannelOpen, Ask, ChannelClose, ConnectionClose, Lose, GoesOn, Fails, Failed,
         Types, CallTypes
<1>3. why' \in [Clients -> {"refused", "lost", None} \cup Refusals]
  <2>1. CASE why' = why
    BY <2>1 DEF Types, CallTypes
  <2>2. CASE Fails(c, "refused") \/ Fails(c, "lost")
    BY <2>2 DEF Fails, Types, CallTypes
  <2>3. CASE Refusal(Current(c), op[c], Connection(c)) # None
             /\ Fails(c, Refusal(Current(c), op[c], Connection(c)))
    <3>1. Refusal(Current(c), op[c], Connection(c)) \in Refusals
      BY <2>3, RefusalIsKnown
    <3> QED
      BY <2>3, <3>1 DEF Fails, Types, CallTypes
  <2> QED
    BY <2>1, <2>2, <2>3
       DEF Call, Connect, ChannelOpen, Ask, ChannelClose, ConnectionClose, Lose, GoesOn
<1>4. changed' \in [Clients -> BOOLEAN]
  <2>1. CASE changed' = changed
    BY <2>1 DEF Types, CallTypes
  <2>2. CASE changed' = [changed EXCEPT ![c] = @ \/ server' # server]
    BY <2>2 DEF Types, CallTypes
  <2> QED
    BY <2>1, <2>2 DEF Call, Connect, ChannelOpen, Ask, ChannelClose, ConnectionClose, Lose
<1>5. ever' \in [Clients -> SUBSET Things] /\ gone' \in [Clients -> SUBSET Things]
  <2>1. CASE Seen
    BY <2>1, SeenTypes DEF Types
  <2>2. CASE Call(c)
    <3>1. There \subseteq Things
      BY ThereTypes DEF Types, Found
    <3> QED
      BY <2>2, <3>1 DEF Call, Types, CallTypes, Things
  <2> QED
    BY <2>1, <2>2, OneCallGoes
<1>6. \A d \in Clients : step'[d] \in 1..Len(Commands(op'[d]))
  BY <1>0, <1>1, OneCallGoes DEF Types, CallTypes
<1> QED
  BY <1>0, <1>2, <1>3, <1>4, <1>5, <1>6 DEF CallTypes

LEMMA DisconnectTypes ==
    ASSUME Types, NEW connection, Disconnect(connection), limit' = limit
    PROVE  ServerTypes' /\ Limited'
<1>1. ServerTypes'
  BY RemoveTypes DEF Disconnect, Types
<1>2. IsFiniteSet(connections') /\ Cardinality(connections') <= Cardinality(connections)
  BY FS_RemoveElement, FS_Subset DEF Disconnect, Types, Limited
<1>3. Cardinality(connections') \in Nat /\ Cardinality(connections) \in Nat
  BY <1>2, FS_CardinalityType DEF Types, Limited
<1> QED
  BY <1>1, <1>2, <1>3 DEF Types, Limited

LEMMA TypesNext == ASSUME Types, Inv, [Next]_vars PROVE Types'
<1>1. CASE UNCHANGED vars
  BY <1>1 DEF vars, server, moments, Types, ServerTypes, CallTypes, Limited, Things
<1>2. ASSUME NEW c \in Clients,
             Call(c) \/ Connect(c) \/ ChannelOpen(c) \/ Ask(c) \/ ChannelClose(c) \/ ConnectionClose(c) \/ Lose(c)
      PROVE  Types'
  <2>0. op[c] \in Operations /\ limit' = limit
    BY <1>2, OneCallGoes DEF Types, CallTypes
  <2>1. ServerTypes' /\ Limited'
    <3>1. CASE UNCHANGED <<server, connections>>
      BY <2>0, <3>1 DEF Types, ServerTypes, Limited, server
    <3>2. CASE Disconnect(Connection(c))
      BY <2>0, <3>2, DisconnectTypes
    <3>3. CASE /\ connections' = connections \cup {Connection(c)} /\ UNCHANGED server
               /\ Cardinality(connections) < limit
      <4> DEFINE x == Connection(c)
      <4> HIDE DEF x
      <4>1. IsFiniteSet(connections) /\ Cardinality(connections) \in Nat /\ limit \in Nat
        BY FS_CardinalityType DEF Types, Limited
      <4>2. /\ IsFiniteSet(connections \cup {x})
            /\ Cardinality(connections \cup {x}) \in {Cardinality(connections), Cardinality(connections) + 1}
        BY <4>1, FS_AddElement
      <4>3. Limited'
        BY <2>0, <3>3, <4>1, <4>2 DEF Limited, x
      <4> QED
        BY <3>3, <4>3 DEF Types, ServerTypes, server
    <3>4. CASE Obey(Current(c), op[c], Connection(c)) /\ Refusal(Current(c), op[c], Connection(c)) = None
               /\ UNCHANGED connections
      BY <2>0, <3>4, ObeyTypes DEF Types, Limited
    <3> QED
      BY <1>2, <3>1, <3>2, <3>3, <3>4
         DEF Call, Connect, ChannelOpen, Ask, ChannelClose, ConnectionClose, Ended, Lose
  <2> QED
    BY <1>2, <2>1, OneCallTypes DEF Types
<1> QED
  BY <1>1, <1>2 DEF Next

LEMMA TypesInit == ASSUME Init PROVE Types
<1>1. PICK w \in Worlds : exchanges = w.exchanges /\ queues = w.queues /\ bindings = w.bindings
  BY DEF Init
<1>2. ServerTypes
  BY <1>1, CommandsAssumption DEF ServerTypes
<1>3. ASSUME NEW c \in Clients PROVE 1 \in 1..Len(Commands(op[c]))
  <2>1. op[c] \in Operations
    BY DEF Init
  <2>2. Len(Commands(op[c])) \in 1..3
    BY <2>1, CommandsShape
  <2> QED
    BY <2>2
<1>4. CallTypes
  BY <1>3 DEF Init, CallTypes
<1>5. Limited
  BY FS_EmptySet, CommandsAssumption DEF Init, Limited
<1> QED
  BY <1>2, <1>4, <1>5 DEF Types

LEMMA TypesAlways == Spec => [](Types /\ Inv)
<1>1. Init => Types /\ Inv
  BY TypesInit, InvInit
<1>2. Types /\ Inv /\ [Next]_vars => (Types /\ Inv)'
  BY TypesNext, InvNext
<1> QED
  BY <1>1, <1>2, PTL DEF Spec

\* For any number of calls of any operations: every variable keeps its type, a call is at one of
\* its commands, and the server never has more connections than it allows (CommandBase.execute).
THEOREM CommandsTypeOK == Spec => []TypeOK
<1>1. Types /\ Inv => TypeOK
  <2> SUFFICES ASSUME Types, Inv PROVE TypeOK
    OBVIOUS
  <2>1. ASSUME NEW c \in Clients
        PROVE  step[c] \in 1..Len(Commands(op[c])) /\ step[c] \in 1..3
    <3>1. op[c] \in Operations /\ step[c] \in 1..Len(Commands(op[c]))
      BY DEF Types, CallTypes
    <3> DEFINE n == Len(Commands(op[c]))
    <3>2. n \in 1..3 /\ step[c] \in 1..n
      BY <3>1, CommandsShape
    <3> HIDE DEF n
    <3>3. step[c] \in 1..3
      BY <3>2
    <3> QED
      BY <3>1, <3>3
  <2>2. connections \subseteq Clients \X (1..3)
    BY <2>1 DEF Inv, Held
  <2>3. phase \in [Clients -> {"idle", "connecting", "opening", "asking", "answered", "closing", "done"}]
    BY DEF Inv, Calls, Phases
  <2>4. \A c \in Clients : ever[c] \subseteq Things /\ gone[c] \subseteq Things
    BY DEF Types, CallTypes
  <2> QED
    BY <2>1, <2>2, <2>3, <2>4 DEF TypeOK, Types, ServerTypes, CallTypes, Limited
<1> QED
  BY <1>1, TypesAlways, PTL

-----------------------------------------------------------------------------
(* What a call reports.                                                    *)

\* what a command leaves to be seen, when it is obeyed
Effect(c, command) ==
    /\ command.verb \notin {"delete", "bind", "unbind"} => <<command.name>> \in ever[c]
    /\ command.verb = "delete" => <<command.name>> \in gone[c]
    /\ command.verb = "bind" => Binding(op[c]) \in ever[c]
    /\ command.verb = "unbind" => Binding(op[c]) \in gone[c]

IsObeyed(c, k) ==
    \/ k < step[c]
    \/ k = step[c] /\ (phase[c] \in {"answered", "closing"} \/ (phase[c] = "done" /\ result[c] = "true"))

Effects(c) == \A k \in 1..Len(Commands(op[c])) : IsObeyed(c, k) => Effect(c, Commands(op[c])[k])

\* a call changes something by its last command alone
Changes(c) ==
    /\ changed[c] => Current(c).verb # "look" /\ phase[c] \in {"answered", "closing", "done"}
    /\ phase[c] = "idle" => step[c] = 1

Reports(c) ==
    phase[c] = "done" =>
        /\ result[c] \in {"true", "false", "error"}
        /\ result[c] = "true" => step[c] = Len(Commands(op[c]))
        /\ result[c] = "false" =>
              Current(c).verb = "look" /\ (why[c] = "not_found" => <<Current(c).name>> \in gone[c])
        /\ result[c] = "error" =>
              /\ Current(c).verb # "look" /\ (changed[c] => why[c] = "lost")
              /\ why[c] = "not_found" /\ Current(c).verb \in {"bind", "unbind"} =>
                    /\ op[c].other # None
                    /\ <<op[c].name>> \in gone[c] \/ <<op[c].other>> \in gone[c]

\* a call that goes on has seen what there is
Sees(c) == c \in Running => There \subseteq ever[c]

Knows(c) == Sees(c) /\ Effects(c) /\ Changes(c) /\ Reports(c)

-----------------------------------------------------------------------------
LEMMA CommandOfCall ==
    ASSUME Types, NEW c \in Clients
    PROVE  LET n == Len(Commands(op[c])) IN
           /\ op[c] \in Operations /\ n \in 1..3 /\ step[c] \in 1..n /\ step[c] \in 1..3
           /\ Current(c).name \in Names
           /\ step[c] < n => Current(c).verb = "look"
           /\ Current(c).verb # "look" => step[c] = n /\ Current(c).verb = op[c].call /\ Current(c).name = op[c].name
           /\ Current(c).verb # "look" => Current(c) = Command(op[c].call, op[c].name)
<1>1. op[c] \in Operations /\ step[c] \in 1..Len(Commands(op[c]))
  BY DEF Types, CallTypes
<1> DEFINE n == Len(Commands(op[c]))
           k == step[c]
<1>2. /\ n \in 1..3
      /\ Commands(op[c])[k].name \in Names
      /\ k # n => Commands(op[c])[k].verb = "look"
      /\ Commands(op[c])[n] = Command(IF op[c].call = "exists" THEN "look" ELSE op[c].call, op[c].name)
  BY <1>1, CommandsShape
<1>3. k \in 1..n
  BY <1>1
<1> HIDE DEF n, k
<1>4. Current(c) = Commands(op[c])[k] /\ k \in 1..3
  BY <1>2, <1>3 DEF Current, k
<1>5. CASE k = n
  <2>1. k \in 1..3 /\ ~(k < n)
    BY <1>2, <1>5
  <2>2. /\ Current(c).verb = IF op[c].call = "exists" THEN "look" ELSE op[c].call
        /\ Current(c).name = op[c].name
        /\ Current(c) = Command(IF op[c].call = "exists" THEN "look" ELSE op[c].call, op[c].name)
    BY <1>2, <1>4, <1>5 DEF Command
  <2> QED
    BY <1>1, <1>2, <1>3, <1>4, <1>5, <2>1, <2>2 DEF n, k
<1>6. CASE k # n
  BY <1>1, <1>2, <1>3, <1>4, <1>6 DEF n, k
<1> QED
  BY <1>5, <1>6

\* what a call knew it still knows
LEMMA EffectsKept ==
    ASSUME NEW c \in Clients, op' = op, ever[c] \subseteq ever'[c], gone[c] \subseteq gone'[c], Effects(c),
           \A k \in 1..Len(Commands(op[c])) : IsObeyed(c, k)' => IsObeyed(c, k)
    PROVE  Effects(c)'
<1>1. \A k \in 1..Len(Commands(op[c])) : Effect(c, Commands(op[c])[k]) => Effect(c, Commands(op[c])[k])'
  <2> SUFFICES ASSUME NEW k \in 1..Len(Commands(op[c])), Effect(c, Commands(op[c])[k])
               PROVE  Effect(c, Commands(op[c])[k])'
    OBVIOUS
  <2>1. Binding(op[c])' = Binding(op[c]) /\ (Commands(op[c])[k])' = Commands(op[c])[k]
    BY DEF Binding, Commands, Checks, Command
  <2> QED
    BY <2>1 DEF Effect
<1>2. (Commands(op[c]))' = Commands(op[c])
  BY DEF Commands, Checks, Command
<1> QED
  BY <1>1, <1>2 DEF Effects

\* a call that does not move
LEMMA OthersKnow ==
    ASSUME NEW d \in Clients, Knows(d), op' = op,
           phase'[d] = phase[d], step'[d] = step[d], result'[d] = result[d], why'[d] = why[d],
           changed'[d] = changed[d], ever[d] \subseteq ever'[d], gone[d] \subseteq gone'[d],
           d \in Running => There' \subseteq ever'[d]
    PROVE  Knows(d)'
<1>1. Sees(d)'
  BY DEF Sees, Running
<1>2. \A k : IsObeyed(d, k)' => IsObeyed(d, k)
  BY DEF IsObeyed
<1>3. Effects(d)'
  BY <1>2, EffectsKept DEF Knows
<1>4. Current(d)' = Current(d)
  BY DEF Current, Commands, Checks, Command
<1>5. Len(Commands(op[d]))' = Len(Commands(op[d]))
  BY DEF Commands, Checks, Command
<1>6. Changes(d)'
  BY <1>4 DEF Knows, Changes
<1>7. Reports(d)'
  BY <1>4, <1>5 DEF Knows, Reports
<1> QED
  BY <1>1, <1>3, <1>6, <1>7 DEF Knows

\* a command that is obeyed has its effect
LEMMA ObeyedEffect ==
    ASSUME Types, ServerTypes', NEW c \in Clients, Sees(c), c \in Running, Seen, op' = op, step' = step,
           Obey(Current(c), op[c], Connection(c)), Refusal(Current(c), op[c], Connection(c)) = None
    PROVE  Effect(c, Current(c))'
<1>a. PICK n, verb : n = Current(c).name /\ verb = Current(c).verb
  OBVIOUS
<1>b. (Current(c).name)' = n /\ (Current(c).verb)' = verb
  BY <1>a DEF Current, Commands, Checks, Command
<1>c. Binding(op[c])' = Binding(op[c])
  BY DEF Binding
<1>0. op[c] \in Operations /\ n \in Names /\ step[c] \in 1..3 /\ None \notin Refusals
  BY <1>a, CommandOfCall, CommandsAssumption
<1>1. There \subseteq ever[c] /\ ever[c] \subseteq ever'[c] /\ There' \subseteq ever'[c]
      /\ Things \ There' \subseteq gone'[c]
  BY SeenTypes DEF Types, Sees
<1>2. \A m \in Names : <<m>> \in There <=> Exists(m)
  BY ThereTypes DEF Types, Found
<1>F. Found'
  BY ThereTypes, PTL
<1>3. /\ \A m \in Names : <<m>> \in There' <=> Exists(m)'
      /\ \A b \in Exchanges \X Names : b \in There' <=> b \in bindings'
  BY <1>F DEF Found
<1>4. <<n>> \in Things
  BY <1>0 DEF Things
<1>5. CASE verb \notin {"declare", "delete", "bind", "unbind"}
  <2>1. Exists(n)
    BY <1>0, <1>a, <1>5 DEF Refusal, Refusals
  <2>2. <<n>> \in ever'[c]
    BY <1>0, <1>1, <1>2, <2>1
  <2> QED
    BY <1>b, <1>5, <2>2 DEF Effect
<1>6. CASE verb = "declare"
  <2>0. n = op[c].name
    BY <1>a, <1>6, CommandOfCall
  <2>1. CASE n \in Exchanges
    <3>1. exchanges'[n] = op[c].storage_type /\ n \notin Queues /\ op[c].storage_type # None
      BY <1>0, <1>a, <1>6, <2>0, <2>1, CommandsAssumption DEF Obey, Declare, Types, ServerTypes
    <3> QED
      BY <1>0, <1>1, <1>3, <1>b, <1>6, <3>1 DEF Exists, Effect
  <2>2. CASE n \in Queues
    <3> DEFINE owner == IF op[c].private THEN Connection(c) ELSE None
    <3>1. owner \in (Clients \X (1..3)) \cup {None}
      BY <1>0 DEF Connection
    <3>2. NewQueue(op[c], owner) # None
      BY <1>0, <3>1, NoneIsNoQueue
    <3> HIDE DEF owner
    <3>3. n \notin Exchanges
      BY <2>2, CommandsAssumption
    <3>4. queues' = [queues EXCEPT ![n] = IF queues[n] # None THEN queues[n] ELSE NewQueue(op[c], owner)]
      BY <1>a, <1>6, <2>0, <3>3 DEF Obey, Declare, owner
    <3>5. queues'[n] # None
      BY <2>2, <3>2, <3>4 DEF Types, ServerTypes
    <3> QED
      BY <1>0, <1>1, <1>3, <1>b, <1>6, <2>2, <3>5 DEF Exists, Effect
  <2> QED
    BY <1>0, <2>1, <2>2 DEF Names
<1>7. CASE verb = "delete"
  <2>1. Remove({n}, {})
    BY <1>a, <1>7 DEF Obey
  <2>2. ~Exists(n)'
    BY <1>0, <2>1 DEF Remove, Exists, Names
  <2>3. <<n>> \in gone'[c]
    BY <1>0, <1>1, <1>3, <1>4, <2>2 DEF Things
  <2> QED
    BY <1>b, <1>7, <2>3 DEF Effect
<1>8. CASE verb \in {"bind", "unbind"}
  <2>0. PICK b : b = Binding(op[c])
    OBVIOUS
  <2>1. op[c].other # None
    BY <1>0, <1>a, <1>8 DEF Refusal, Refusals
  <2>2. b \in Exchanges \X Names /\ b \in Things
    BY <1>0, <2>0, <2>1, BindingIsPair DEF Things
  <2>4. verb = "bind" => b \in bindings'
    BY <1>a, <2>0 DEF Obey
  <2>5. verb = "unbind" => b \notin bindings'
    BY <1>a, <2>0 DEF Obey, Remove
  <2>6. verb = "bind" => b \in ever'[c]
    BY <1>1, <1>3, <2>2, <2>4
  <2>7. verb = "unbind" => b \in gone'[c]
    BY <1>1, <1>3, <2>2, <2>5 DEF Things
  <2> QED
    BY <1>8, <1>b, <1>c, <2>0, <2>6, <2>7 DEF Effect
<1> QED
  BY <1>5, <1>6, <1>7, <1>8

\* a command that is refused for what does not exist
LEMMA RefusedForAbsence ==
    ASSUME Types, ServerTypes', NEW c \in Clients, c \in Running, Seen, UNCHANGED server,
           Refusal(Current(c), op[c], Connection(c)) = "not_found"
    PROVE  /\ Current(c).verb = "look" => <<Current(c).name>> \in gone'[c]
           /\ Current(c).verb \in {"bind", "unbind"} =>
                /\ op[c].other # None
                /\ <<op[c].name>> \in gone'[c] \/ <<op[c].other>> \in gone'[c]
<1> DEFINE n == Current(c).name
           verb == Current(c).verb
<1>0. op[c] \in Operations /\ n \in Names
  BY CommandOfCall
<1>1. Things \ There' \subseteq gone'[c]
  BY SeenTypes DEF Types
<1>F. Found'
  BY ThereTypes, PTL
<1>2. \A m \in Names : <<m>> \in There' <=> Exists(m)'
  BY <1>F DEF Found
<1>3. \A m \in Names : ~Exists(m) => <<m>> \in gone'[c]
  <2> SUFFICES ASSUME NEW m \in Names, ~Exists(m) PROVE <<m>> \in gone'[c]
    OBVIOUS
  <2>1. ~Exists(m)' /\ <<m>> \in Things
    BY DEF Exists, server, Things
  <2> QED
    BY <1>1, <1>2, <2>1 DEF Things
<1>4. verb = "look" => ~Exists(n)
  BY CommandsAssumption DEF Refusal, Refusals
<1>5. ASSUME verb \in {"bind", "unbind"}
      PROVE  op[c].other # None /\ n = op[c].name /\ op[c].other \in Names /\ (~Exists(n) \/ ~Exists(op[c].other))
  <2>1. op[c].other # None /\ (~Exists(n) \/ ~Exists(op[c].other))
    BY <1>5, CommandsAssumption DEF Refusal, Refusals
  <2>2. n = op[c].name
    BY <1>5, CommandOfCall
  <2>3. op[c].other \in Names
    BY <1>0, <2>1, CommandsAssumption DEF Names
  <2> QED
    BY <2>1, <2>2, <2>3
<1> QED
  BY <1>0, <1>3, <1>4, <1>5

\* a call that fails reports no success, and no more than it saw
LEMMA FailureKnows ==
    ASSUME Types, Inv, NEW c \in Clients, Knows(c), phase[c] # "done", phase[c] # "idle", NEW reason, Fails(c, reason),
           ever[c] \subseteq ever'[c], gone[c] \subseteq gone'[c], changed'[c] = changed[c],
           changed[c] => reason = "lost",
           reason = "not_found" =>
               /\ Current(c).verb = "look" => <<Current(c).name>> \in gone'[c]
               /\ Current(c).verb \in {"bind", "unbind"} =>
                    op[c].other # None /\ (<<op[c].name>> \in gone'[c] \/ <<op[c].other>> \in gone'[c])
    PROVE  Knows(c)'
<1>1. phase'[c] = "done" /\ result'[c] = Failed(c) /\ why'[c] = reason /\ op' = op /\ step' = step
  BY DEF Fails, Goes, Inv, Calls
<1>2. Current(c)' = Current(c)
  BY <1>1 DEF Current, Commands, Checks, Command
<1>3. Sees(c)'
  BY <1>1 DEF Sees, Running
<1>4. Effects(c)'
  <2>1. result'[c] # "true"
    BY <1>1 DEF Failed
  <2>2. \A k : IsObeyed(c, k)' => IsObeyed(c, k)
    BY <1>1, <2>1 DEF IsObeyed
  <2> QED
    BY <1>1, <2>2, EffectsKept DEF Knows
<1>5. Changes(c)'
  BY <1>1, <1>2 DEF Knows, Changes
<1>6. Reports(c)'
  BY <1>1, <1>2 DEF Reports, Failed, Knows, Changes
<1> QED
  BY <1>3, <1>4, <1>5, <1>6 DEF Knows

\* a step of the call itself
LEMMA CallerKnows ==
    ASSUME Types, Inv, ServerTypes', NEW c \in Clients, Knows(c),
           Call(c) \/ Connect(c) \/ ChannelOpen(c) \/ Ask(c) \/ ChannelClose(c) \/ ConnectionClose(c) \/ Lose(c)
    PROVE  Knows(c)'
<1>0. op' = op
  BY OneCallGoes
<1>1. CASE Call(c)
  <2>1. phase'[c] = "connecting" /\ step[c] = 1 /\ step' = step /\ changed'[c] = changed[c] /\ ~changed[c]
    BY <1>1 DEF Call, At, Goes, Inv, Calls, Knows, Changes
  <2>2. ever'[c] = There /\ There' = There
    BY <1>1 DEF Call, Types, CallTypes, There, Exists, server
  <2>3. \A k \in 1..Len(Commands(op'[c])) : ~IsObeyed(c, k)'
    BY <2>1 DEF IsObeyed
  <2> QED
    BY <2>1, <2>2, <2>3 DEF Knows, Sees, Effects, Changes, Reports
<1>2. CASE Seen /\ c \in Running
  <2>0. ever[c] \subseteq ever'[c] /\ gone[c] \subseteq gone'[c] /\ There' \subseteq ever'[c]
    BY <1>2, SeenTypes DEF Types
  <2>a. Sees(c)'
    BY <2>0 DEF Sees
  <2>1. ASSUME step' = step, changed' = changed, NEW p \in {"opening", "asking", "closing"},
               phase'[c] = p, p = "closing" => phase[c] = "answered",
               phase[c] \in {"connecting", "opening"} \/ p = "closing"
        PROVE  Knows(c)'
    <3>1. \A k : IsObeyed(c, k)' => IsObeyed(c, k)
      BY <2>1 DEF IsObeyed
    <3>2. Effects(c)'
      BY <1>0, <2>0, <3>1, EffectsKept DEF Knows
    <3>3. Changes(c)'
      <4>1. Current(c)' = Current(c)
        BY <1>0, <2>1 DEF Current, Commands, Checks, Command
      <4> QED
        BY <2>1, <4>1 DEF Knows, Changes
    <3>4. Reports(c)'
      BY <2>1 DEF Reports
    <3> QED
      BY <2>a, <3>2, <3>3, <3>4 DEF Knows
  <2>2. CASE Connect(c)
    <3>1. CASE Fails(c, "refused")
      BY <2>0, <2>2, <3>1, FailureKnows DEF Connect, At, Knows, Changes
    <3>2. CASE GoesOn(c, "opening")
      <4>1. step' = step /\ changed' = changed /\ phase'[c] = "opening" /\ phase[c] = "connecting"
        BY <2>2, <3>2 DEF Connect, At, GoesOn, Goes, Inv, Calls
      <4> QED
        BY <2>1, <4>1
    <3> QED
      BY <2>2, <3>1, <3>2 DEF Connect
  <2>3. CASE ChannelOpen(c)
    <3>1. step' = step /\ changed' = changed /\ phase'[c] = "asking" /\ phase[c] = "opening"
      BY <2>3 DEF ChannelOpen, At, GoesOn, Goes, Inv, Calls
    <3> QED
      BY <2>1, <3>1
  <2>4. CASE ChannelClose(c)
    <3>1. step' = step /\ changed' = changed /\ phase'[c] = "closing" /\ phase[c] = "answered"
      BY <2>4 DEF ChannelClose, At, GoesOn, Goes, Inv, Calls
    <3> QED
      BY <2>1, <3>1
  <2>5. CASE Ask(c)
    <3> DEFINE refusal == Refusal(Current(c), op[c], Connection(c))
    <3>0. phase[c] = "asking" /\ ~changed[c]
          /\ changed'[c] = (changed[c] \/ server' # server) /\ changed[c] \in BOOLEAN
      BY <2>5 DEF Ask, At, Knows, Changes, Types, CallTypes
    <3>1. CASE refusal # None /\ UNCHANGED server /\ Fails(c, refusal)
      <4>1. changed'[c] = changed[c]
        BY <3>0, <3>1
      <4>2. refusal = "not_found" =>
               /\ Current(c).verb = "look" => <<Current(c).name>> \in gone'[c]
               /\ Current(c).verb \in {"bind", "unbind"} =>
                    op[c].other # None /\ (<<op[c].name>> \in gone'[c] \/ <<op[c].other>> \in gone'[c])
        BY <1>2, <3>1, RefusedForAbsence
      <4> HIDE DEF refusal
      <4> QED
        BY <2>0, <3>0, <3>1, <4>1, <4>2, FailureKnows
    <3>2. CASE refusal = None /\ Obey(Current(c), op[c], Connection(c)) /\ GoesOn(c, "answered")
      <4>1. step' = step /\ phase'[c] = "answered"
        BY <3>2 DEF GoesOn, Goes, Inv, Calls
      <4>2. Current(c)' = Current(c)
        BY <1>0, <4>1 DEF Current, Commands, Checks, Command
      <4>3. Changes(c)'
        <5>1. Current(c).verb = "look" => server' = server
          BY <3>2 DEF Obey
        <5> QED
          BY <3>0, <4>1, <4>2, <5>1 DEF Changes
      <4>4. Effect(c, Current(c))'
        BY <1>0, <1>2, <3>2, <4>1, ObeyedEffect DEF Knows
      <4>5. Effects(c)'
        <5> SUFFICES ASSUME NEW k \in 1..Len(Commands(op'[c])), IsObeyed(c, k)'
                     PROVE  Effect(c, Commands(op[c])[k])'
          BY DEF Effects
        <5>1. CASE k = step'[c]
          BY <4>4, <5>1 DEF Current
        <5>2. CASE k # step'[c]
          <6>1. IsObeyed(c, k) /\ k \in 1..Len(Commands(op[c]))
            BY <1>0, <4>1, <5>2 DEF IsObeyed
          <6>2. Effect(c, Commands(op[c])[k])
            BY <6>1 DEF Knows, Effects
          <6>3. Binding(op[c])' = Binding(op[c]) /\ (Commands(op[c])[k])' = Commands(op[c])[k]
            BY <1>0 DEF Binding, Commands, Checks, Command
          <6> QED
            BY <2>0, <6>2, <6>3 DEF Effect
        <5> QED
          BY <5>1, <5>2
      <4>6. Reports(c)'
        BY <4>1 DEF Reports
      <4> QED
        BY <2>a, <4>3, <4>5, <4>6 DEF Knows
    <3> QED
      BY <2>5, <3>1, <3>2 DEF Ask
  <2>6. CASE ConnectionClose(c)
    <3>0. phase[c] = "closing" /\ changed' = changed /\ step[c] \in Nat
      BY <2>6 DEF ConnectionClose, At, Inv, Calls
    <3>1. CASE More(c) /\ step' = [step EXCEPT ![c] = @ + 1] /\ Goes(c, "connecting")
      <4>1. step'[c] = step[c] + 1 /\ phase'[c] = "connecting"
        BY <3>1 DEF Goes, Inv, Calls
      <4>2. \A k \in 1..Len(Commands(op[c])) : IsObeyed(c, k)' => IsObeyed(c, k)
        BY <3>0, <4>1 DEF IsObeyed
      <4>3. ~changed[c]
        BY <3>1, CommandOfCall DEF More, Knows, Changes
      <4> QED
        BY <1>0, <2>0, <2>a, <3>0, <4>1, <4>2, <4>3, EffectsKept DEF Knows, Changes, Reports
    <3>2. CASE ~More(c) /\ Goes(c, "done") /\ UNCHANGED step /\ result' = [result EXCEPT ![c] = "true"]
      <4>1. phase'[c] = "done" /\ step' = step /\ result'[c] = "true"
        BY <3>2 DEF Goes, Inv, Calls
      <4>2. \A k \in 1..Len(Commands(op[c])) : IsObeyed(c, k)' => IsObeyed(c, k)
        BY <3>0, <4>1 DEF IsObeyed
      <4>3. Current(c)' = Current(c) /\ (Len(Commands(op[c])))' = Len(Commands(op[c]))
        BY <1>0, <4>1 DEF Current, Commands, Checks, Command
      <4>4. step[c] = Len(Commands(op[c]))
        <5> DEFINE n == Len(Commands(op[c]))
        <5>1. n \in 1..3 /\ step[c] \in 1..n /\ ~(step[c] < n)
          BY <3>2, CommandOfCall DEF More
        <5> HIDE DEF n
        <5>2. step[c] = n
          BY <5>1
        <5> QED
          BY <5>2 DEF n
      <4>5. Changes(c)' /\ Reports(c)'
        BY <3>0, <4>1, <4>3, <4>4 DEF Knows, Changes, Reports
      <4> QED
        BY <1>0, <2>0, <2>a, <4>2, <4>5, EffectsKept DEF Knows
    <3> QED
      BY <2>6, <3>1, <3>2 DEF ConnectionClose
  <2>7. CASE Lose(c)
    BY <2>0, <2>7, FailureKnows DEF Lose, Knows
  <2>8. ~Call(c)
    BY <1>2 DEF Call, At, Running
  <2> QED
    BY <2>2, <2>3, <2>4, <2>5, <2>6, <2>7, <2>8
<1> QED
  BY <1>1, <1>2, OneCallGoes

LEMMA KnowsNext ==
    ASSUME Types, Inv, Types', \A c \in Clients : Knows(c), [Next]_vars
    PROVE  (\A c \in Clients : Knows(c))'
<1>1. CASE UNCHANGED vars
  <2> SUFFICES ASSUME NEW d \in Clients PROVE Knows(d)'
    OBVIOUS
  <2>1. There' = There
    BY <1>1 DEF vars, server, There, Exists
  <2> QED
    BY <1>1, <2>1, OthersKnow DEF vars, moments, Knows, Sees
<1>2. ASSUME NEW c \in Clients,
             Call(c) \/ Connect(c) \/ ChannelOpen(c) \/ Ask(c) \/ ChannelClose(c) \/ ConnectionClose(c) \/ Lose(c)
      PROVE  \A d \in Clients : Knows(d)'
  <2>1. Knows(c)'
    BY <1>2, CallerKnows DEF Types
  <2>2. ASSUME NEW d \in Clients \ {c} PROVE Knows(d)'
    <3>1. /\ op' = op /\ phase'[d] = phase[d] /\ step'[d] = step[d] /\ result'[d] = result[d]
          /\ why'[d] = why[d] /\ changed'[d] = changed[d]
      BY <1>2, OneCallGoes
    <3>2. ever[d] \subseteq ever'[d] /\ gone[d] \subseteq gone'[d] /\ (d \in Running => There' \subseteq ever'[d])
      <4>1. CASE Seen
        BY <4>1, SeenTypes DEF Types
      <4>2. CASE Call(c)
        <5>1. There' = There /\ ever'[d] = ever[d] /\ gone'[d] = gone[d]
          BY <4>2 DEF Call, server, There, Exists, Types, CallTypes
        <5> QED
          BY <5>1 DEF Knows, Sees
      <4> QED
        BY <1>2, <4>1, <4>2, OneCallGoes
    <3> QED
      BY <3>1, <3>2, OthersKnow
  <2> QED
    BY <2>1, <2>2
<1> QED
  BY <1>1, <1>2 DEF Next

LEMMA KnowsInit == ASSUME Init, Types PROVE \A c \in Clients : Knows(c)
<1> SUFFICES ASSUME NEW c \in Clients PROVE Knows(c)
  OBVIOUS
<1>1. phase[c] = "idle" /\ step[c] = 1 /\ changed[c] = FALSE
  BY DEF Init
<1>2. \A k \in 1..Len(Commands(op[c])) : ~IsObeyed(c, k)
  BY <1>1 DEF IsObeyed
<1> QED
  BY <1>1, <1>2 DEF Knows, Sees, Running, Effects, Changes, Reports

\* the commands that came before the last had their effect: what was looked at was there
LEMMA LookedAt ==
    ASSUME Types, NEW c \in Clients, Effects(c), step[c] = Len(Commands(op[c]))
    PROVE  /\ op[c].call \in {"bind", "unbind"} => Ends(op[c]) \subseteq ever[c]
           /\ op[c].call = "delete" /\ op[c].name \in Exchanges => <<op[c].name>> \in ever[c]
<1> DEFINE o == op[c]
           cs == Commands(o)
           n == Len(cs)
<1>1. /\ n \in 1..3
      /\ \A k \in 1..n : k # n => cs[k].verb = "look"
      /\ o.call \in {"bind", "unbind"} =>
            /\ n > 1 /\ cs[1].name = o.name
            /\ o.other # None => n = 3 /\ cs[2].name = o.other
      /\ o.call = "delete" /\ o.name \in Exchanges => n = 2 /\ cs[1].name = o.name
  <2>1. o \in Operations
    BY DEF Types, CallTypes
  <2> QED
    BY <2>1, CommandsShape
<1>2. step[c] = n /\ (\A k \in 1..n : IsObeyed(c, k) => Effect(c, cs[k]))
  BY DEF Effects
<1> HIDE DEF cs, n
<1>3. \A k \in 1..n : k # n => <<cs[k].name>> \in ever[c]
  <2> SUFFICES ASSUME NEW k \in 1..n, k # n PROVE <<cs[k].name>> \in ever[c]
    OBVIOUS
  <2>1. k < n
    BY <1>1
  <2>2. Effect(c, cs[k])
    BY <1>2, <2>1 DEF IsObeyed
  <2> QED
    BY <1>1, <2>2 DEF Effect
<1>4. ASSUME o.call \in {"bind", "unbind"} PROVE <<o.name>> \in ever[c] /\ (o.other # None => <<o.other>> \in ever[c])
  <2>1. 1 \in 1..n /\ 1 # n /\ cs[1].name = o.name
    BY <1>1, <1>4
  <2>2. o.other # None => 2 \in 1..n /\ 2 # n /\ cs[2].name = o.other
    BY <1>1, <1>4
  <2> QED
    BY <1>3, <2>1, <2>2
<1>5. o.call = "delete" /\ o.name \in Exchanges => <<o.name>> \in ever[c]
  <2> SUFFICES ASSUME o.call = "delete", o.name \in Exchanges PROVE <<o.name>> \in ever[c]
    OBVIOUS
  <2>1. 1 \in 1..n /\ 1 # n /\ cs[1].name = o.name
    BY <1>1
  <2> QED
    BY <1>3, <2>1
<1>6. o.call \in {"bind", "unbind"} => Ends(o) \subseteq ever[c]
  BY <1>4 DEF Ends
<1> QED
  BY <1>5, <1>6

LEMMA KnowsAnswersTrue == ASSUME Types, \A c \in Clients : Knows(c) PROVE AnswersTrue
<1> SUFFICES ASSUME NEW c \in Clients, phase[c] = "done"
             PROVE  LET o == op[c]
                        undone == o.call \in {"delete", "unbind"}
                        thing  == IF o.call \in {"bind", "unbind"} THEN Binding(o) ELSE <<o.name>>
                    IN /\ result[c] = "true" =>
                            /\ thing \in IF undone THEN gone[c] ELSE ever[c]
                            /\ o.call = "unbind" \/ ~undone \/ o.name \in Queues \/ thing \in ever[c]
                       /\ result[c] = "false" =>
                            ~changed[c] /\ (why[c] = "not_found" => Ends(o) \cap gone[c] # {})
                       /\ (result[c] = "error" /\ changed[c]) => why[c] = "lost"
                       /\ result[c] = "error" /\ why[c] = "not_found" /\ o.call \in {"bind", "unbind"} =>
                            Ends(o) \subseteq ever[c] /\ Ends(o) \cap gone[c] # {}
  BY DEF AnswersTrue, At
<1> DEFINE o == op[c]
<1>0. o \in Operations /\ o.name \in Names /\ None \notin Names /\ Effects(c) /\ Changes(c) /\ Reports(c)
  BY CommandsAssumption DEF Types, CallTypes, Knows
<1>1. CASE result[c] = "true"
  <2>1. step[c] = Len(Commands(o))
    BY <1>0, <1>1 DEF Reports
  <2>2. Effect(c, Current(c))
    <3>1. step[c] \in 1..Len(Commands(o))
      BY CommandOfCall
    <3> QED
      BY <1>0, <1>1, <3>1 DEF Effects, IsObeyed, Current
  <2>3. Current(c).verb = (IF o.call = "exists" THEN "look" ELSE o.call) /\ Current(c).name = o.name
    <3>1. Commands(o)[Len(Commands(o))] = Command(IF o.call = "exists" THEN "look" ELSE o.call, o.name)
      BY <1>0, CommandsShape
    <3> QED
      BY <2>1, <3>1 DEF Current, Command
  <2>4. o.call = "delete" /\ o.name \in Exchanges => <<o.name>> \in ever[c]
    BY <1>0, <2>1, LookedAt
  <2> QED
    BY <1>0, <1>1, <2>2, <2>3, <2>4 DEF Effect, Names
<1>2. CASE result[c] = "false"
  <2>1. Current(c).verb = "look" /\ ~changed[c] /\ (why[c] = "not_found" => <<Current(c).name>> \in gone[c])
    BY <1>0, <1>2 DEF Reports, Changes
  <2>2. Current(c).name \in {o.name, o.other} \ {None}
    <3>1. \A k \in 1..Len(Commands(o)) : Commands(o)[k].name \in {o.name, o.other} \ {None}
      BY <1>0, CommandsShape
    <3>2. step[c] \in 1..Len(Commands(o))
      BY CommandOfCall
    <3> QED
      BY <3>1, <3>2 DEF Current
  <2>3. <<Current(c).name>> \in Ends(o)
    BY <2>2 DEF Ends
  <2> QED
    BY <1>2, <2>1, <2>3
<1>3. CASE result[c] = "error"
  <2>1. changed[c] => why[c] = "lost"
    BY <1>0, <1>3 DEF Reports
  <2>2. ASSUME why[c] = "not_found", o.call \in {"bind", "unbind"}
        PROVE  Ends(o) \subseteq ever[c] /\ Ends(o) \cap gone[c] # {}
    <3>1. Current(c).verb # "look"
      BY <1>0, <1>3 DEF Reports
    <3>2. step[c] = Len(Commands(o)) /\ Current(c).verb = o.call
      BY <3>1, CommandOfCall
    <3>3. o.other # None /\ (<<o.name>> \in gone[c] \/ <<o.other>> \in gone[c])
      BY <1>0, <1>3, <2>2, <3>2 DEF Reports
    <3>4. Ends(o) \subseteq ever[c]
      BY <1>0, <2>2, <3>2, LookedAt
    <3>5. <<o.name>> \in Ends(o) /\ <<o.other>> \in Ends(o)
      BY <1>0, <3>3 DEF Ends
    <3> QED
      BY <3>3, <3>4, <3>5
  <2> QED
    BY <1>3, <2>1, <2>2
<1> QED
  BY <1>0, <1>1, <1>2, <1>3 DEF Reports

\* For any number of calls of any operations, whatever other clients do between two commands of a
\* call: a success had its effect, an answer "false" changed nothing, an error changed nothing
\* unless the connection was lost, and a bind or unbind that fails for what does not exist had
\* found it (Queue and Exchange, commands.ts).
THEOREM CommandsAnswersTrue == Spec => []AnswersTrue
<1> DEFINE All == Types /\ Inv /\ (\A c \in Clients : Knows(c))
<1>1. Init => All
  BY TypesInit, InvInit, KnowsInit
<1>2. All /\ [Next]_vars => All'
  <2> SUFFICES ASSUME All, [Next]_vars PROVE All'
    OBVIOUS
  <2>1. Types' /\ Inv'
    BY TypesNext, InvNext
  <2> QED
    BY <2>1, KnowsNext
<1>3. All => AnswersTrue
  BY KnowsAnswersTrue
<1> HIDE DEF All
<1> QED
  BY <1>1, <1>2, <1>3, PTL DEF Spec

-----------------------------------------------------------------------------
(* The keys of the options of a queue.                                     *)

\* the queues that the server holds at first have no options, and the calls that give options give
\* the same ones: else what a queue has may be what another call gave it
OneSetOfOptions ==
    /\ \A w \in Worlds, q \in Queues : w.queues[q] # None => w.queues[q].keys = {}
    /\ \A o, p \in Operations : o.options # {} /\ p.options # {} => o.options = p.options

\* the keys of a queue are those that a call sent
KeysOf(q) == queues[q].keys = {} \/ \E o \in Operations : o.options # {} /\ queues[q].keys = Keys(o)

KeysSent == \A q \in Queues : queues[q] # None => KeysOf(q)

\* a key is sent as it is documented when it has no more than two words, and no key that is sent is
\* that of an option of more words (key.replace("_", "-"))
LEMMA KeysAsSent ==
    ASSUME NEW S, NEW w \in Seq(S), NEW v \in Seq(S), w # <<>>, v # <<>>
    PROVE  /\ Len(w) <= 2 => Documented(w) = Sent(w)
           /\ Len(w) > 2 => Documented(w) # Sent(v)
<1> DEFINE T == Seq(S)
           d == Documented(w)
<1>1. Len(w) \in Nat /\ Len(w) # 0 /\ DOMAIN w = 1..Len(w)
  BY EmptySeq, LenProperties
<1>2. \A i \in 1..Len(w) : w[i] \in S /\ <<w[i]>> \in T
  BY ElementOfSeq, <1>1
<1>3. d = [i \in 1..Len(w) |-> <<w[i]>>] /\ d \in Seq(T)
  BY <1>1, <1>2 DEF Documented
<1>4. Len(d) = Len(w) /\ \A i \in 1..Len(w) : d[i] = <<w[i]>>
  BY <1>1, <1>2, <1>3
<1> HIDE DEF d, T
<1>5. ASSUME Len(w) = 1 PROVE d = Sent(w)
  <2>1. Sent(w) = <<w>>
    BY <1>5 DEF Sent
  <2>2. w = <<w[1]>>
    BY <1>5, <1>1
  <2>3. <<w>> \in Seq(T) /\ Len(<<w>>) = 1 /\ <<w>>[1] = w
    BY DEF T
  <2> DEFINE s == <<w>>
  <2>4. s \in Seq(T) /\ Len(s) = 1 /\ s[1] = d[1]
    BY <1>4, <1>5, <2>2, <2>3
  <2> HIDE DEF s
  <2>5. Len(s) = Len(d) /\ \A i \in 1..Len(s) : s[i] = d[i]
    BY <1>4, <1>5, <2>4
  <2>6. s = d
    BY <1>3, <2>4, <2>5, SeqEqual
  <2> QED
    BY <2>1, <2>6 DEF s
<1>6. ASSUME Len(w) = 2 PROVE d = Sent(w)
  <2>1. Sent(w) = << <<Head(w)>>, Tail(w) >>
    BY <1>6 DEF Sent
  <2>0. /\ Tail(w) \in Seq(S) /\ Len(Tail(w)) = Len(w) - 1
        /\ \A i \in 1..Len(Tail(w)) : Tail(w)[i] = w[i+1]
    BY HeadTailProperties
  <2>2. Head(w) = w[1] /\ Tail(w) \in Seq(S) /\ Len(Tail(w)) = 1 /\ Tail(w)[1] = w[2]
    <3> DEFINE t == Tail(w)
    <3>1. Len(t) = Len(w) - 1 /\ \A i \in 1..Len(t) : t[i] = w[i+1]
      BY <2>0
    <3> HIDE DEF t
    <3>2. Len(t) = 1
      BY <1>6, <3>1
    <3>3. t[1] = w[2]
      <4>1. 1 \in 1..Len(t) /\ 1 + 1 = 2
        BY <3>2
      <4>2. t[1] = w[1 + 1]
        BY <3>1, <4>1
      <4> QED
        BY <4>1, <4>2
    <3>4. Head(w) = w[1]
      BY <1>6
    <3> QED
      BY <2>0, <3>2, <3>3, <3>4 DEF t
  <2>3. Tail(w) = <<w[2]>>
    <3> DEFINE t == Tail(w)
    <3>1. t \in Seq(S) /\ Len(t) = 1 /\ t[1] = w[2]
      BY <2>2
    <3> HIDE DEF t
    <3>2. t = <<t[1]>>
      BY <3>1
    <3> QED
      BY <3>1, <3>2 DEF t
  <2> DEFINE s == << <<w[1]>>, <<w[2]>> >>
  <2>4. s \in Seq(T) /\ Len(s) = 2 /\ s[1] = <<w[1]>> /\ s[2] = <<w[2]>>
    BY <1>2, <1>6 DEF T
  <2>5. Sent(w) = s
    BY <2>1, <2>2, <2>3
  <2> HIDE DEF s
  <2>6. Len(s) = Len(d) /\ \A i \in 1..Len(s) : s[i] = d[i]
    BY <1>4, <1>6, <2>4
  <2>7. s = d
    BY <1>3, <2>4, <2>6, SeqEqual
  <2> QED
    BY <2>5, <2>7
<1>7. Len(Sent(v)) \in 1..2
  <2>1. Len(<<v>>) = 1 /\ Len(<< <<Head(v)>>, Tail(v) >>) = 2
    OBVIOUS
  <2> QED
    BY <2>1 DEF Sent
<1>8. ASSUME Len(w) > 2 PROVE d # Sent(v)
  BY <1>1, <1>4, <1>7, <1>8
<1>9. Len(w) <= 2 => Len(w) = 1 \/ Len(w) = 2
  BY <1>1
<1> QED
  BY <1>5, <1>6, <1>8, <1>9 DEF d

\* the words that the options are named by
KeyWords == {"active", "age", "bytes", "cluster", "consumer", "dead", "delivery", "exchange",
             "expires", "group", "in", "initial", "key", "leader", "length", "letter", "limit",
             "locator", "master", "max", "memory", "message", "mode", "overflow", "priority",
             "queue", "quorum", "routing", "segment", "single", "size", "strategy", "stream",
             "ttl", "type", "version"}

LEMMA Words1 ==
    ASSUME NEW S, NEW a \in S
    PROVE  <<a>> \in Seq(S)
OBVIOUS

LEMMA Words2 ==
    ASSUME NEW S, NEW a \in S, NEW b \in S
    PROVE  <<a, b>> \in Seq(S)
OBVIOUS

LEMMA Words3 ==
    ASSUME NEW S, NEW a \in S, NEW b \in S, NEW c \in S
    PROVE  <<a, b, c>> \in Seq(S)
OBVIOUS

LEMMA Words4 ==
    ASSUME NEW S, NEW a \in S, NEW b \in S, NEW c \in S, NEW d \in S
    PROVE  <<a, b, c, d>> \in Seq(S)
OBVIOUS

LEMMA Words5 ==
    ASSUME NEW S, NEW a \in S, NEW b \in S, NEW c \in S, NEW d \in S, NEW e \in S
    PROVE  <<a, b, c, d, e>> \in Seq(S)
OBVIOUS

LEMMA WordsOfKeys ==
    ASSUME NEW x \in DOMAIN ArgumentKeys
    PROVE  ArgumentKeys[x] \in Seq(KeyWords) /\ ArgumentKeys[x] # <<>>
<1>1. x \in {"dead_letter_exchange", "dead_letter_routing_key", "dead_letter_strategy",
             "delivery_limit", "expires", "initial_cluster_size", "max_age",
             "max_in_memory_bytes", "max_in_memory_length", "max_length", "max_length_bytes",
             "max_priority", "message_ttl", "overflow", "queue_leader_locator",
             "queue_master_locator", "queue_mode", "queue_type", "queue_version",
             "quorum_initial_group_size", "single_active_consumer",
             "stream_max_segment_size_bytes"}
  BY DEF ArgumentKeys
<1>2. /\ "active" \in KeyWords /\ "age" \in KeyWords /\ "bytes" \in KeyWords
      /\ "cluster" \in KeyWords /\ "consumer" \in KeyWords /\ "dead" \in KeyWords
      /\ "delivery" \in KeyWords /\ "exchange" \in KeyWords /\ "expires" \in KeyWords
      /\ "group" \in KeyWords /\ "in" \in KeyWords /\ "initial" \in KeyWords
      /\ "key" \in KeyWords /\ "leader" \in KeyWords /\ "length" \in KeyWords
      /\ "letter" \in KeyWords /\ "limit" \in KeyWords /\ "locator" \in KeyWords
      /\ "master" \in KeyWords /\ "max" \in KeyWords /\ "memory" \in KeyWords
      /\ "message" \in KeyWords /\ "mode" \in KeyWords /\ "overflow" \in KeyWords
      /\ "priority" \in KeyWords /\ "queue" \in KeyWords /\ "quorum" \in KeyWords
      /\ "routing" \in KeyWords /\ "segment" \in KeyWords /\ "single" \in KeyWords
      /\ "size" \in KeyWords /\ "strategy" \in KeyWords /\ "stream" \in KeyWords
      /\ "ttl" \in KeyWords /\ "type" \in KeyWords /\ "version" \in KeyWords
  BY DEF KeyWords
<1>3. CASE x \in {"expires", "overflow"}
  <2>1. ArgumentKeys[x] \in {<<"expires">>, <<"overflow">>}
    BY <1>3 DEF ArgumentKeys
  <2>a. /\ <<"expires">> \in Seq(KeyWords)
        /\ <<"overflow">> \in Seq(KeyWords)
    BY <1>2, Words1, Zenon
  <2> DEFINE t == ArgumentKeys[x]
  <2> HIDE DEF t
  <2>2. t \in Seq(KeyWords)
    BY <2>1, <2>a, Zenon DEF t
  <2>3. t # <<>>
    BY <2>1 DEF t
  <2> QED
    BY <2>2, <2>3 DEF t
<1>4. CASE x \in {"delivery_limit", "max_age", "max_length", "max_priority", "message_ttl",
               "queue_mode", "queue_type", "queue_version"}
  <2>1. ArgumentKeys[x] \in {<<"delivery", "limit">>, <<"max", "age">>, <<"max", "length">>,
                            <<"max", "priority">>, <<"message", "ttl">>, <<"queue", "mode">>,
                            <<"queue", "type">>, <<"queue", "version">>}
    BY <1>4 DEF ArgumentKeys
  <2>a. /\ <<"delivery", "limit">> \in Seq(KeyWords)
        /\ <<"max", "age">> \in Seq(KeyWords)
        /\ <<"max", "length">> \in Seq(KeyWords)
        /\ <<"max", "priority">> \in Seq(KeyWords)
        /\ <<"message", "ttl">> \in Seq(KeyWords)
        /\ <<"queue", "mode">> \in Seq(KeyWords)
        /\ <<"queue", "type">> \in Seq(KeyWords)
        /\ <<"queue", "version">> \in Seq(KeyWords)
    BY <1>2, Words2, Zenon
  <2> DEFINE t == ArgumentKeys[x]
  <2> HIDE DEF t
  <2>2. t \in Seq(KeyWords)
    BY <2>1, <2>a, Zenon DEF t
  <2>3. t # <<>>
    BY <2>1 DEF t
  <2> QED
    BY <2>2, <2>3 DEF t
<1>5. CASE x \in {"dead_letter_exchange", "dead_letter_strategy", "initial_cluster_size",
               "max_length_bytes", "queue_leader_locator", "queue_master_locator",
               "single_active_consumer"}
  <2>1. ArgumentKeys[x] \in {<<"dead", "letter", "exchange">>, <<"dead", "letter", "strategy">>,
                            <<"initial", "cluster", "size">>, <<"max", "length", "bytes">>,
                            <<"queue", "leader", "locator">>, <<"queue", "master", "locator">>,
                            <<"single", "active", "consumer">>}
    BY <1>5 DEF ArgumentKeys
  <2>a. /\ <<"dead", "letter", "exchange">> \in Seq(KeyWords)
        /\ <<"dead", "letter", "strategy">> \in Seq(KeyWords)
        /\ <<"initial", "cluster", "size">> \in Seq(KeyWords)
        /\ <<"max", "length", "bytes">> \in Seq(KeyWords)
        /\ <<"queue", "leader", "locator">> \in Seq(KeyWords)
        /\ <<"queue", "master", "locator">> \in Seq(KeyWords)
        /\ <<"single", "active", "consumer">> \in Seq(KeyWords)
    BY <1>2, Words3, Zenon
  <2> DEFINE t == ArgumentKeys[x]
  <2> HIDE DEF t
  <2>2. t \in Seq(KeyWords)
    BY <2>1, <2>a, Zenon DEF t
  <2>3. t # <<>>
    BY <2>1 DEF t
  <2> QED
    BY <2>2, <2>3 DEF t
<1>6. CASE x \in {"dead_letter_routing_key", "max_in_memory_bytes", "max_in_memory_length",
               "quorum_initial_group_size"}
  <2>1. ArgumentKeys[x] \in {<<"dead", "letter", "routing", "key">>,
                            <<"max", "in", "memory", "bytes">>,
                            <<"max", "in", "memory", "length">>,
                            <<"quorum", "initial", "group", "size">>}
    BY <1>6 DEF ArgumentKeys
  <2>a. /\ <<"dead", "letter", "routing", "key">> \in Seq(KeyWords)
        /\ <<"max", "in", "memory", "bytes">> \in Seq(KeyWords)
        /\ <<"max", "in", "memory", "length">> \in Seq(KeyWords)
        /\ <<"quorum", "initial", "group", "size">> \in Seq(KeyWords)
    BY <1>2, Words4, Zenon
  <2> DEFINE t == ArgumentKeys[x]
  <2> HIDE DEF t
  <2>2. t \in Seq(KeyWords)
    BY <2>1, <2>a, Zenon DEF t
  <2>3. t # <<>>
    BY <2>1 DEF t
  <2> QED
    BY <2>2, <2>3 DEF t
<1>7. CASE x \in {"stream_max_segment_size_bytes"}
  <2>1. ArgumentKeys[x] \in {<<"stream", "max", "segment", "size", "bytes">>}
    BY <1>7 DEF ArgumentKeys
  <2>a. /\ <<"stream", "max", "segment", "size", "bytes">> \in Seq(KeyWords)
    BY <1>2, Words5, Zenon
  <2> DEFINE t == ArgumentKeys[x]
  <2> HIDE DEF t
  <2>2. t \in Seq(KeyWords)
    BY <2>1, <2>a, Zenon DEF t
  <2>3. t # <<>>
    BY <2>1 DEF t
  <2> QED
    BY <2>2, <2>3 DEF t
<1> QED
  BY <1>1, <1>3, <1>4, <1>5, <1>6, <1>7

LEMMA KeysNext == ASSUME Types, KeysSent, [Next]_vars PROVE KeysSent'
<1>1. CASE UNCHANGED queues
  BY <1>1 DEF KeysSent, KeysOf
<1>2. CASE \E names, unbound : Remove(names, unbound)
  <2>1. \A q \in Queues : queues'[q] # None => queues'[q] = queues[q] /\ queues[q] # None
    BY <1>2 DEF Remove
  <2> QED
    BY <2>1 DEF KeysSent, KeysOf
<1>3. CASE \E c \in Clients : Ask(c)
  <2>1. PICK c \in Clients : Ask(c)
    BY <1>3
  <2>2. op[c] \in Operations
    BY DEF Types, CallTypes
  <2> DEFINE n == Current(c).name
             owner == IF op[c].private THEN Connection(c) ELSE None
  <2>3. CASE queues' = [queues EXCEPT ![op[c].name] =
                          IF queues[op[c].name] # None THEN queues[op[c].name] ELSE NewQueue(op[c], owner)]
    <3> HIDE DEF owner
    <3> SUFFICES ASSUME NEW q \in Queues, queues'[q] # None PROVE KeysOf(q)'
      BY DEF KeysSent
    <3>1. queues'[q] = queues[q] \/ queues'[q] = NewQueue(op[c], owner)
      BY <2>3 DEF Types, ServerTypes
    <3>2. CASE queues'[q] = queues[q]
      BY <3>2 DEF KeysSent, KeysOf
    <3>3. CASE queues'[q] = NewQueue(op[c], owner)
      <4>1. queues'[q].keys = Keys(op[c])
        BY <3>3 DEF NewQueue
      <4>2. op[c].options = {} => Keys(op[c]) = {}
        BY DEF Keys
      <4> QED
        BY <2>2, <4>1, <4>2 DEF KeysOf
    <3> QED
      BY <3>1, <3>2, <3>3
  <2>4. CASE queues' = [queues EXCEPT ![n].messages = 0] /\ Exists(n)
    <3> SUFFICES ASSUME NEW q \in Queues, queues'[q] # None PROVE KeysOf(q)'
      BY DEF KeysSent
    <3>1. queues[q] # None /\ queues'[q].keys = queues[q].keys
      <4>1. CASE q = n
        <5>1. queues[q] # None /\ IsQueue(queues[q])
          BY <2>4, <4>1 DEF Exists, Types, ServerTypes
        <5> QED
          BY <2>4, <4>1, <5>1 DEF Types, ServerTypes, IsQueue
      <4>2. CASE q # n
        BY <2>4, <4>2 DEF Types, ServerTypes
      <4> QED
        BY <4>1, <4>2
    <3> QED
      BY <3>1 DEF KeysSent, KeysOf
  <2>5. \/ UNCHANGED queues \/ \E names, unbound : Remove(names, unbound)
        \/ queues' = [queues EXCEPT ![op[c].name] =
                        IF queues[op[c].name] # None THEN queues[op[c].name] ELSE NewQueue(op[c], owner)]
        \/ queues' = [queues EXCEPT ![n].messages = 0] /\ Exists(n)
    <3>1. CASE UNCHANGED server
      BY <3>1 DEF server
    <3>2. CASE Refusal(Current(c), op[c], Connection(c)) = None /\ Obey(Current(c), op[c], Connection(c))
      <4>1. Current(c).verb = "purge" => Exists(n)
        BY <3>2, CommandsAssumption DEF Refusal, Refusals
      <4> QED
        BY <3>2, <4>1 DEF Obey, Declare, server
    <3> QED
      BY <2>1, <3>1, <3>2 DEF Ask
  <2> QED
    BY <1>1, <1>2, <2>3, <2>4, <2>5
<1>4. ASSUME NEW c \in Clients, Call(c) \/ Connect(c) \/ ChannelOpen(c) \/ ChannelClose(c)
      PROVE  UNCHANGED queues
  BY <1>4 DEF Call, Connect, ChannelOpen, ChannelClose, server
<1>5. ASSUME NEW c \in Clients, ConnectionClose(c) \/ Lose(c)
      PROVE  \E names, unbound : Remove(names, unbound)
  BY <1>5 DEF ConnectionClose, Ended, Lose, Disconnect
<1>6. CASE UNCHANGED vars
  BY <1>6, <1>1 DEF vars, server
<1> QED
  BY <1>1, <1>2, <1>3, <1>4, <1>5, <1>6 DEF Next

\* Where the calls that give options give the same ones: the options of a queue that are known to
\* the server are those whose names have one word or two (QueueDeclareArgumentsAll, commands.ts).
THEOREM CommandsKeysKnown == ASSUME OneSetOfOptions PROVE Spec => []KeysKnown
<1>1. Init => KeysSent
  <2> SUFFICES ASSUME Init PROVE KeysSent
    OBVIOUS
  <2>1. PICK w \in Worlds : queues = w.queues
    BY DEF Init
  <2> QED
    BY <2>1 DEF KeysSent, KeysOf, OneSetOfOptions
<1>2. Types /\ KeysSent => KeysKnown
  <2> SUFFICES ASSUME Types, KeysSent, NEW q \in Queues, NEW c \in Clients, NEW x \in op[c].options,
                      queues[q] # None, queues[q].keys # {}
               PROVE  (Documented(ArgumentKeys[x]) \in queues[q].keys) = (Len(ArgumentKeys[x]) <= 2)
    BY DEF KeysKnown
  <2>1. op[c] \in Operations
    BY DEF Types, CallTypes
  <2>2. PICK o \in Operations : o.options # {} /\ queues[q].keys = Keys(o)
    BY DEF KeysSent, KeysOf
  <2>3. o.options = op[c].options
    BY <2>1, <2>2 DEF OneSetOfOptions
  <2>4. \A y \in o.options : ArgumentKeys[y] \in Seq(KeyWords) /\ ArgumentKeys[y] # <<>>
    BY <2>2, OptionsKnown, WordsOfKeys
  <2> DEFINE w == ArgumentKeys[x]
  <2>5. w \in Seq(KeyWords) /\ w # <<>> /\ Sent(w) \in Keys(o)
    BY <2>3, <2>4 DEF Keys
  <2>6. Len(w) <= 2 => Documented(w) \in Keys(o)
    BY <2>5, KeysAsSent
  <2>7. ASSUME Len(w) > 2, Documented(w) \in Keys(o) PROVE FALSE
    <3>1. PICK y \in o.options : Documented(w) = Sent(ArgumentKeys[y])
      BY <2>7 DEF Keys
    <3> DEFINE v == ArgumentKeys[y]
    <3>2. v \in Seq(KeyWords) /\ v # <<>> /\ Documented(w) = Sent(v)
      BY <2>4, <3>1
    <3> HIDE DEF v, w
    <3> QED
      BY <2>5, <2>7, <3>2, KeysAsSent
  <2>8. Len(w) \in Nat
    BY <2>5, LenProperties
  <2> HIDE DEF w
  <2>9. (Documented(w) \in Keys(o)) = (Len(w) <= 2)
    BY <2>6, <2>7, <2>8
  <2> QED
    BY <2>2, <2>9 DEF w
<1>3. Types /\ KeysSent /\ [Next]_vars => KeysSent'
  BY KeysNext
<1> QED
  BY <1>1, <1>2, <1>3, TypesAlways, PTL DEF Spec
=============================================================================
