----------------------------- MODULE MCCommands -----------------------------
(* Two calls on a queue and two exchanges, in a server that is empty, that *)
(* is in use, or that holds what others own; it allows one connection or   *)
(* two.                                                                    *)
EXTENDS Commands, TLC

CONSTANTS c1, c2, q, e, f

Operation(call, name, other, storage_type, private) ==
    [call |-> call, name |-> name, other |-> other, storage_type |-> storage_type,
     private |-> private, options |-> {}]

MCOperations ==
    { Operation(call, name, None, "durable", FALSE) :
         call \in {"exists", "delete", "declare"}, name \in {q, e} } \cup
    { Operation("declare", q, None, "durable", TRUE), Operation("declare", e, None, "auto-deleted", FALSE),
      Operation("delete", f, None, "durable", FALSE),
      Operation("stat", q, None, "durable", FALSE), Operation("purge", q, None, "durable", FALSE),
      Operation("bind", q, e, "durable", FALSE), Operation("unbind", q, e, "durable", FALSE),
      Operation("bind", e, f, "durable", FALSE), Operation("unbind", e, f, "durable", FALSE),
      Operation("bind", q, None, "durable", FALSE),
      [Operation("declare", q, None, "durable", FALSE) EXCEPT !.options =
           {"expires", "max_length", "dead_letter_exchange"}] }

Queue(owner, messages) ==
    [storage_type |-> "durable", owner |-> owner, messages |-> messages, keys |-> {}]
World(ex, qu, bi) == [exchanges |-> e :> ex[1] @@ f :> ex[2], queues |-> q :> qu, bindings |-> bi]

MCWorlds ==
    { World(<<None, None>>, None, {}),
      World(<<"durable", None>>, Queue(None, 1), {<<e, q>>}),
      World(<<"durable", "auto-deleted">>, Queue(None, 0), {<<f, e>>}),
      World(<<"auto-deleted", "durable">>, Queue(<<None, 1>>, 0), {<<e, f>>}) }

Symmetric == Permutations(Clients)
=============================================================================
