------------------------------ MODULE Commands ------------------------------
(***************************************************************************)
(* Queue and Exchange of src/lib/commands.ts: calls that each run one or   *)
(* more commands, every command over a connection and a channel of its own *)
(* (CommandBase.execute).  What one command found may be changed by others *)
(* before the next.  The server keeps exchanges, queues and bindings; it   *)
(* refuses a command by closing the channel, and it may refuse or lose a   *)
(* connection.                                                             *)
(***************************************************************************)
EXTENDS Sequences, Integers, FiniteSets

CONSTANTS
    Clients,        \* the calls that are made, each on its own
    Queues, Exchanges,
    Operations,     \* what a call may be: call, name, other, private, storage_type, options
    Worlds,         \* what the server holds at first: exchanges, queues, bindings
    Limits,         \* how many connections the server may allow
    None

Names == Queues \cup Exchanges

Refusals == {"not_found", "locked", "precondition"}

Storage == {"durable", "temporary", "auto-deleted"}

IsQueue(r) ==
    r = [storage_type |-> r.storage_type, owner |-> r.owner, messages |-> r.messages, keys |-> r.keys]

ASSUME CommandsAssumption ==
    /\ Queues \cap Exchanges = {} /\ None \notin Names
    /\ \A o \in Operations :
          /\ o.name \in Names /\ o.other \in (IF o.name \in Queues THEN Exchanges ELSE Names) \cup {None}
          /\ o.storage_type \in Storage
    /\ None \notin Storage
    /\ Limits \subseteq Nat
    \* the private queues of a world belong to none of the calls
    /\ None \notin Clients \X Nat /\ None \notin Refusals
    /\ \A w \in Worlds :
          /\ w.exchanges \in [Exchanges -> Storage \cup {None}] /\ w.bindings \subseteq Exchanges \X Names
          /\ w.queues = [q \in Queues |-> w.queues[q]]
          /\ \A q \in Queues : w.queues[q] # None =>
                /\ IsQueue(w.queues[q]) /\ w.queues[q].owner \notin Clients \X Nat
                /\ w.queues[q].storage_type \in Storage /\ w.queues[q].messages \in Nat

VARIABLES
    limit,
    exchanges,      \* the storage type of each exchange, or None
    queues,         \* each queue: storage_type, owner (of a private one), messages, keys; or None
    bindings,       \* pairs of a source and a destination
    connections,    \* the connections that are open, each named for the command it was made for
    lossy,          \* a connection may still be lost
    op, step, phase,   \* of each call: what it is, which command it is at, how far
    result, why,    \* how it ended, and what the last command failed for
    ever, gone,     \* what was there, and what was not, at some moment of the call
    changed         \* the call changed something

server == <<exchanges, queues, bindings>>
moments == <<ever, gone>>
vars == <<limit, server, connections, lossy, op, step, phase, result, why, moments, changed>>

-----------------------------------------------------------------------------
(* What the program sends.                                                 *)

\* the options of a queue, and the words of the key that the server knows each by
ArgumentKeys ==
    [dead_letter_exchange    |-> <<"dead", "letter", "exchange">>,
     dead_letter_routing_key |-> <<"dead", "letter", "routing", "key">>,
     dead_letter_strategy    |-> <<"dead", "letter", "strategy">>,
     delivery_limit          |-> <<"delivery", "limit">>,
     expires                 |-> <<"expires">>,
     initial_cluster_size    |-> <<"initial", "cluster", "size">>,
     max_age                 |-> <<"max", "age">>,
     max_in_memory_bytes     |-> <<"max", "in", "memory", "bytes">>,
     max_in_memory_length    |-> <<"max", "in", "memory", "length">>,
     max_length              |-> <<"max", "length">>,
     max_length_bytes        |-> <<"max", "length", "bytes">>,
     max_priority            |-> <<"max", "priority">>,
     message_ttl             |-> <<"message", "ttl">>,
     overflow                |-> <<"overflow">>,
     queue_leader_locator    |-> <<"queue", "leader", "locator">>,
     queue_master_locator    |-> <<"queue", "master", "locator">>,
     queue_mode              |-> <<"queue", "mode">>,
     queue_type              |-> <<"queue", "type">>,
     queue_version           |-> <<"queue", "version">>,
     quorum_initial_group_size     |-> <<"quorum", "initial", "group", "size">>,
     single_active_consumer        |-> <<"single", "active", "consumer">>,
     stream_max_segment_size_bytes |-> <<"stream", "max", "segment", "size", "bytes">>]

\* mutant: no dash at all
SentAsNamed(words) == << words >>

\* key.replace("_", "-") puts a dash after the first word and leaves the others together
Sent(words) == IF Len(words) < 2 THEN <<words>> ELSE << <<Head(words)>>, Tail(words) >>

Keys(o) == { Sent(ArgumentKeys[option]) : option \in o.options }

NewQueue(o, owner) == [storage_type |-> o.storage_type, owner |-> owner, messages |-> 0, keys |-> Keys(o)]

ASSUME OptionsKnown == \A o \in Operations : o.options \subseteq DOMAIN ArgumentKeys

ASSUME NoneIsNoQueue ==
    \A o \in Operations, owner \in (Clients \X (1..3)) \cup {None} : NewQueue(o, owner) # None

\* the commands of a call; a look is a passive declaration whose failure means "does not exist"
Command(verb, name) == [verb |-> verb, name |-> name]

\* mutant: the other end is not looked for
ChecksOne(o) == << Command("look", o.name) >>

\* check_bind_unbind
Checks(o) ==
    << Command("look", o.name) >> \o (IF o.other # None THEN << Command("look", o.other) >> ELSE <<>>)

Commands(o) ==
    IF o.call = "exists" THEN << Command("look", o.name) >>
    ELSE IF o.call \in {"bind", "unbind"} THEN Checks(o) \o << Command(o.call, o.name) >>
    ELSE IF o.call = "delete" /\ o.name \in Exchanges
         THEN << Command("look", o.name), Command("delete", o.name) >>
         ELSE << Command(o.call, o.name) >>

Binding(o) == IF o.name \in Queues THEN <<o.other, o.name>> ELSE <<o.name, o.other>>

-----------------------------------------------------------------------------
(* What the server does.                                                   *)

Exists(n) == IF n \in Queues THEN queues[n] # None ELSE exchanges[n] # None

There == { <<n>> : n \in {m \in Names : Exists(m)} } \cup bindings
Things == { <<n>> : n \in Names } \cup (Exchanges \X Names)

Locked(n, connection) ==
    n \in Queues /\ queues[n] # None /\ queues[n].owner \notin {None, connection}

Differs(o) ==
    IF o.name \in Queues
    THEN queues[o.name] # None /\ ( queues[o.name].storage_type # o.storage_type
                                    \/ (queues[o.name].owner # None) # o.private )
    ELSE exchanges[o.name] # None /\ exchanges[o.name] # o.storage_type

InUse(n) == IF n \in Queues THEN queues[n].messages # 0 ELSE \E b \in bindings : b[1] = n

\* why the server refuses a command, if it does
Refusal(command, o, connection) ==
    LET n == command.name IN
    IF command.verb = "declare"
    THEN IF Locked(n, connection) THEN "locked" ELSE IF Differs(o) THEN "precondition" ELSE None
    ELSE IF command.verb = "delete"
    THEN IF Locked(n, connection) THEN "locked" ELSE IF Exists(n) /\ InUse(n) THEN "precondition" ELSE None
    ELSE IF command.verb \in {"bind", "unbind"} /\ o.other = None
    THEN "precondition"    \* the default exchange
    ELSE IF ~Exists(n) \/ (command.verb \in {"bind", "unbind"} /\ ~Exists(o.other))
    THEN "not_found"
    ELSE IF Locked(n, connection) THEN "locked" ELSE None

\* what has gone takes its bindings with it, and the last binding an exchange that is deleted with it
Remove(names, unbound) ==
    LET left == { b \in bindings \ unbound : b[1] \notin names /\ b[2] \notin names }
        lost == { b[1] : b \in bindings \ left } \ { b[1] : b \in left }
    IN /\ bindings' = left
       /\ exchanges' = [e \in Exchanges |->
             IF e \in names \/ (e \in lost /\ exchanges[e] = "auto-deleted") THEN None ELSE exchanges[e]]
       /\ queues' = [q \in Queues |-> IF q \in names THEN None ELSE queues[q]]

Declare(o, connection) ==
    /\ UNCHANGED bindings
    /\ IF o.name \in Exchanges
       THEN exchanges' = [exchanges EXCEPT ![o.name] = o.storage_type] /\ UNCHANGED queues
       ELSE /\ UNCHANGED exchanges
            /\ queues' = [queues EXCEPT ![o.name] =
                  IF @ # None THEN @ ELSE NewQueue(o, IF o.private THEN connection ELSE None)]

Obey(command, o, connection) ==
    \/ command.verb = "declare" /\ Declare(o, connection)
    \/ command.verb = "delete"  /\ Remove({command.name}, {})
    \/ command.verb = "unbind"  /\ Remove({}, {Binding(o)})
    \/ command.verb = "bind"    /\ bindings' = bindings \cup {Binding(o)} /\ UNCHANGED <<exchanges, queues>>
    \/ /\ command.verb = "purge"
       /\ queues' = [queues EXCEPT ![command.name].messages = 0] /\ UNCHANGED <<exchanges, bindings>>
    \/ command.verb \in {"look", "stat"} /\ UNCHANGED server

\* private queues are deleted with their connection
Disconnect(connection) ==
    /\ connections' = connections \ {connection}
    /\ Remove({ q \in Queues : queues[q] # None /\ queues[q].owner = connection }, {})

-----------------------------------------------------------------------------
(* A call.                                                                 *)

Running == { c \in Clients : phase[c] \notin {"idle", "done"} }

\* what is there, and what is not, is seen by the calls that go on
Seen ==
    /\ ever' = [c \in Clients |-> IF c \in Running THEN ever[c] \cup There' ELSE ever[c]]
    /\ gone' = [c \in Clients |-> IF c \in Running THEN gone[c] \cup (Things \ There') ELSE gone[c]]

Init ==
    /\ limit \in Limits
    /\ \E w \in Worlds : exchanges = w.exchanges /\ queues = w.queues /\ bindings = w.bindings
    /\ connections = {} /\ lossy = TRUE
    /\ op \in [Clients -> Operations]
    /\ step = [c \in Clients |-> 1] /\ phase = [c \in Clients |-> "idle"]
    /\ result = [c \in Clients |-> None] /\ why = [c \in Clients |-> None]
    /\ ever = [c \in Clients |-> {}] /\ gone = [c \in Clients |-> {}]
    /\ changed = [c \in Clients |-> FALSE]

Current(c)    == Commands(op[c])[step[c]]
Connection(c) == <<c, step[c]>>
At(c, p)      == phase[c] = p
Goes(c, p)    == phase' = [phase EXCEPT ![c] = p]

Call(c) ==
    /\ At(c, "idle") /\ Goes(c, "connecting")
    /\ ever' = [ever EXCEPT ![c] = There] /\ gone' = [gone EXCEPT ![c] = Things \ There]
    /\ UNCHANGED <<limit, server, connections, lossy, op, step, result, why, changed>>

\* exists() takes every failure for an absence; the others throw it
Failed(c) == IF Current(c).verb = "look" THEN "false" ELSE "error"

\* execute throws where it stands
Fails(c, reason) ==
    /\ Goes(c, "done")
    /\ result' = [result EXCEPT ![c] = Failed(c)]
    /\ why' = [why EXCEPT ![c] = reason]
    /\ UNCHANGED <<op, step>>

GoesOn(c, p) == Goes(c, p) /\ UNCHANGED <<op, step, result, why>>

Connect(c) ==
    /\ At(c, "connecting")
    /\ IF Cardinality(connections) < limit
       THEN connections' = connections \cup {Connection(c)} /\ GoesOn(c, "opening")
       ELSE Fails(c, "refused") /\ UNCHANGED connections
    /\ UNCHANGED <<limit, server, lossy, changed>> /\ Seen

ChannelOpen(c) ==
    /\ At(c, "opening") /\ GoesOn(c, "asking")
    /\ UNCHANGED <<limit, server, connections, lossy, changed>> /\ Seen

\* the command reaches the server, whose answer is on its way
Ask(c) ==
    /\ At(c, "asking")
    /\ LET refusal == Refusal(Current(c), op[c], Connection(c))
       IN /\ IF refusal = None THEN Obey(Current(c), op[c], Connection(c)) /\ GoesOn(c, "answered")
             ELSE UNCHANGED server /\ Fails(c, refusal)
          /\ changed' = [changed EXCEPT ![c] = @ \/ server' # server]
    /\ UNCHANGED <<limit, connections, lossy>> /\ Seen

ChannelClose(c) ==
    /\ At(c, "answered") /\ GoesOn(c, "closing")
    /\ UNCHANGED <<limit, server, connections, lossy, changed>> /\ Seen

\* mutant: the connection stays open for the next command
DisconnectLast(c) ==
    IF step[c] = Len(Commands(op[c])) THEN Disconnect(Connection(c)) ELSE UNCHANGED <<connections, server>>

Ended(c) == Disconnect(Connection(c))

\* mutant: one command too many
MoreByOne(c) == step[c] <= Len(Commands(op[c]))

More(c) == step[c] < Len(Commands(op[c]))

\* the command has its result when its connection is closed
ConnectionClose(c) ==
    /\ At(c, "closing") /\ Ended(c)
    /\ IF More(c)
       THEN step' = [step EXCEPT ![c] = @ + 1] /\ Goes(c, "connecting") /\ UNCHANGED result
       ELSE /\ Goes(c, "done") /\ UNCHANGED step
            /\ result' = [result EXCEPT ![c] = "true"]
    /\ UNCHANGED <<limit, lossy, op, why, changed>> /\ Seen

\* the connection of a call is lost: what waits for it is rejected
Lose(c) ==
    /\ lossy /\ phase[c] \in {"opening", "asking", "answered", "closing"}
    /\ lossy' = FALSE
    /\ Disconnect(Connection(c)) /\ Fails(c, "lost")
    /\ UNCHANGED <<limit, changed>> /\ Seen

Next == \E c \in Clients :
    Call(c) \/ Connect(c) \/ ChannelOpen(c) \/ Ask(c) \/ ChannelClose(c) \/ ConnectionClose(c) \/ Lose(c)

Spec == Init /\ [][Next]_vars

-----------------------------------------------------------------------------
(* Properties.                                                             *)

\* every variable has its type; a call is at one of its commands
TypeOK ==
    /\ exchanges \in [Exchanges -> Storage \cup {None}]
    /\ \A q \in Queues : queues[q] # None =>
          queues[q].storage_type \in Storage /\ queues[q].messages \in Nat
    /\ bindings \subseteq Exchanges \X Names
    /\ connections \subseteq Clients \X (1..3) /\ Cardinality(connections) <= limit
    /\ \A c \in Clients : step[c] \in 1..Len(Commands(op[c]))
    /\ phase \in [Clients -> {"idle", "connecting", "opening", "asking", "answered", "closing", "done"}]
    /\ result \in [Clients -> {"true", "false", "error", None}]
    /\ why \in [Clients -> {"refused", "lost", None} \cup Refusals]
    /\ \A c \in Clients : ever[c] \subseteq Things /\ gone[c] \subseteq Things
    /\ changed \in [Clients -> BOOLEAN]

Ends(o) == { <<n>> : n \in {o.name, o.other} \ {None} }

\* what a call reports was so at some moment of the call, whatever others did meanwhile: a success
\* has had its effect; an answer "false" means that something did not exist, or that a command
\* failed otherwise, and that nothing was changed; an error means that nothing was changed, unless
\* the connection was lost; and a bind or unbind fails for what does not exist only when it was
\* there and went away between two commands
AnswersTrue ==
    \A c \in Clients : At(c, "done") =>
        LET o == op[c]
            undone == o.call \in {"delete", "unbind"}
            thing  == IF o.call \in {"bind", "unbind"} THEN Binding(o) ELSE <<o.name>>
        IN /\ result[c] = "true" =>
                /\ thing \in IF undone THEN gone[c] ELSE ever[c]
                /\ o.call = "unbind" \/ ~undone \/ o.name \in Queues \/ thing \in ever[c]
           /\ result[c] = "false" =>
                ~changed[c] /\ (why[c] = "not_found" => Ends(o) \cap gone[c] # {})
           /\ (result[c] = "error" /\ changed[c]) => why[c] = "lost"
           /\ result[c] = "error" /\ why[c] = "not_found" /\ o.call \in {"bind", "unbind"} =>
                Ends(o) \subseteq ever[c] /\ Ends(o) \cap gone[c] # {}

\* what a call leaves behind: the connection of a command that the server refused stays open, no
\* other does; so a private queue is gone when the call that declared it has ended
NothingElseLeft ==
    /\ \A c \in Clients, k \in 1..3 : <<c, k>> \in connections =>
          /\ k = step[c]
          /\ At(c, "done") => result[c] # "true" /\ why[c] \in Refusals
    /\ \A q \in Queues, c \in Clients, k \in 1..3 :
          queues[q] # None /\ queues[q].owner = <<c, k>> => c \in Running

Documented(words) == [i \in DOMAIN words |-> <<words[i]>>]

\* an option of one word or two is sent under the key that its comment names, one of more words
\* is not: its key keeps the further underscores, and means nothing to the server
KeysKnown ==
    \A q \in Queues, c \in Clients :
        At(c, "done") /\ result[c] = "true" /\ op[c].call = "declare" /\ op[c].name = q
                      /\ queues[q] # None /\ queues[q].keys # {} =>
            \A x \in op[c].options :
                (Documented(ArgumentKeys[x]) \in queues[q].keys) = (Len(ArgumentKeys[x]) <= 2)
=============================================================================
