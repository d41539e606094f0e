------------------------------ MODULE Protocol ------------------------------
(***************************************************************************)
(* The protocol as src/proto describes it, class by class (connection.ts,  *)
(* channel.ts, exchange.ts, queue.ts, basic.ts, tx.ts, confirm.ts) and the *)
(* domains of its fields (domain.ts): what the generator reads.  Labels,   *)
(* rules and documentation are left out.                                   *)
(***************************************************************************)
EXTENDS TLC

\* a field has a name and a domain; it may be reserved and may carry asserts of its own
Field(name, domain) == [name |-> name, domain |-> domain, reserved |-> FALSE, assert |-> {}]
Reserved(domain)    == [Field("reserved", domain) EXCEPT !.reserved = TRUE]
Asserted(field, check) == [field EXCEPT !.assert = @ \cup {check}]
Domain(type, assert) == [type |-> type, assert |-> assert]
Method(class, index, fields) == [class |-> class, index |-> index, fields |-> fields]

\* the domains that a field can name, with the asserts they put on its value
FieldDomains ==
  [ class_id |-> Domain("short", {}), consumer_tag |-> Domain("shortstr", {}),
    delivery_tag |-> Domain("longlong", {}),
    exchange_name |-> Domain("shortstr", {"length", "regexp"}),
    method_id |-> Domain("short", {}), no_ack |-> Domain("bit", {}),
    no_local |-> Domain("bit", {}), no_wait |-> Domain("bit", {}),
    path |-> Domain("shortstr", {"notnull", "length"}),
    peer_properties |-> Domain("table", {}),
    queue_name |-> Domain("shortstr", {"length", "regexp"}) ]

BasicTypes ==
  [ redelivered |-> Domain("bit", {}), message_count |-> Domain("long", {}),
    reply_code |-> Domain("short", {"notnull"}),
    reply_text |-> Domain("shortstr", {"notnull"}), bit |-> Domain("bit", {}),
    octet |-> Domain("octet", {}), short |-> Domain("short", {}), long |-> Domain("long", {}),
    longlong |-> Domain("longlong", {}), shortstr |-> Domain("shortstr", {}),
    longstr |-> Domain("longstr", {}), timestamp |-> Domain("timestamp", {}),
    table |-> Domain("table", {}) ]

DOMAINS == FieldDomains @@ BasicTypes

ConnectionHandshake ==
  [ connection_start |-> Method(10, 10, <<Field("version_major", "octet"),
        Field("version_minor", "octet"), Field("server_properties", "peer_properties"),
        Asserted(Field("mechanisms", "longstr"), "notnull"),
        Asserted(Field("locales", "longstr"), "notnull")>>),
    connection_start_ok |-> Method(10, 11, <<Field("client_properties", "peer_properties"),
        Asserted(Field("mechanism", "shortstr"), "notnull"),
        Asserted(Field("response", "longstr"), "notnull"),
        Asserted(Field("locale", "shortstr"), "notnull")>>),
    connection_secure |-> Method(10, 20, <<Field("challenge", "longstr")>>),
    connection_secure_ok |-> Method(10, 21, <<Asserted(Field("response", "longstr"),
        "notnull")>>) ]

ConnectionTuning ==
  [ connection_tune |-> Method(10, 30, <<Field("channel_max", "short"),
        Field("frame_max", "long"), Field("heartbeat", "short")>>),
    connection_tune_ok |-> Method(10, 31, <<Asserted(Asserted(Field("channel_max", "short"),
        "notnull"), "le"), Field("frame_max", "long"), Field("heartbeat", "short")>>),
    connection_open |-> Method(10, 40, <<Field("virtual_host", "path"), Reserved("shortstr"),
        Reserved("bit")>>),
    connection_open_ok |-> Method(10, 41, <<Reserved("shortstr")>>) ]

ConnectionEnd ==
  [ connection_close |-> Method(10, 50, <<Field("reply_code", "reply_code"),
        Field("reply_text", "reply_text"), Field("class_id", "class_id"),
        Field("method_id", "method_id")>>),
    connection_close_ok |-> Method(10, 51, <<>>),
    connection_blocked |-> Method(10, 60, <<Field("reason", "shortstr")>>),
    connection_unblocked |-> Method(10, 61, <<>>),
    connection_update_secret |-> Method(10, 70, <<Field("new_secret", "longstr"),
        Field("reason", "shortstr")>>),
    connection_update_secret_ok |-> Method(10, 71, <<>>) ]

ChannelMethods ==
  [ channel_open |-> Method(20, 10, <<Reserved("shortstr")>>),
    channel_open_ok |-> Method(20, 11, <<Reserved("longstr")>>),
    channel_flow |-> Method(20, 20, <<Field("active", "bit")>>),
    channel_flow_ok |-> Method(20, 21, <<Field("active", "bit")>>) ]

ChannelEnd ==
  [ channel_close |-> Method(20, 40, <<Field("reply_code", "reply_code"),
        Field("reply_text", "reply_text"), Field("class_id", "class_id"),
        Field("method_id", "method_id")>>),
    channel_close_ok |-> Method(20, 41, <<>>) ]

ExchangeMethods ==
  [ exchange_declare |-> Method(40, 10, <<Reserved("short"),
        Asserted(Field("exchange", "exchange_name"), "notnull"), Field("type", "shortstr"),
        Field("passive", "bit"), Field("durable", "bit"), Field("auto_delete", "bit"),
        Field("internal", "bit"), Field("no_wait", "no_wait"), Field("arguments", "table")>>),
    exchange_declare_ok |-> Method(40, 11, <<>>),
    exchange_delete |-> Method(40, 20, <<Reserved("short"),
        Asserted(Field("exchange", "exchange_name"), "notnull"), Field("if_unused", "bit"),
        Field("no_wait", "no_wait")>>),
    exchange_delete_ok |-> Method(40, 21, <<>>) ]

ExchangeBindings ==
  [ exchange_bind |-> Method(40, 30, <<Reserved("short"),
        Field("destination", "exchange_name"), Field("source", "exchange_name"),
        Field("routing_key", "shortstr"), Field("no_wait", "no_wait"),
        Field("arguments", "table")>>),
    exchange_bind_ok |-> Method(40, 31, <<>>),
    exchange_unbind |-> Method(40, 40, <<Reserved("short"),
        Field("destination", "exchange_name"), Field("source", "exchange_name"),
        Field("routing_key", "shortstr"), Field("no_wait", "no_wait"),
        Field("arguments", "table")>>),
    exchange_unbind_ok |-> Method(40, 51, <<>>) ]

QueueDeclaration ==
  [ queue_declare |-> Method(50, 10, <<Reserved("short"), Field("queue", "queue_name"),
        Field("passive", "bit"), Field("durable", "bit"), Field("exclusive", "bit"),
        Field("auto_delete", "bit"), Field("no_wait", "no_wait"),
        Field("arguments", "table")>>),
    queue_declare_ok |-> Method(50, 11, <<Asserted(Field("queue", "queue_name"), "notnull"),
        Field("message_count", "message_count"), Field("consumer_count", "long")>>) ]

QueueBindings ==
  [ queue_bind |-> Method(50, 20, <<Reserved("short"), Field("queue", "queue_name"),
        Field("exchange", "exchange_name"), Field("routing_key", "shortstr"),
        Field("no_wait", "no_wait"), Field("arguments", "table")>>),
    queue_bind_ok |-> Method(50, 21, <<>>),
    queue_unbind |-> Method(50, 50, <<Reserved("short"), Field("queue", "queue_name"),
        Field("exchange", "exchange_name"), Field("routing_key", "shortstr"),
        Field("arguments", "table")>>),
    queue_unbind_ok |-> Method(50, 51, <<>>) ]

QueueMethods ==
  [ queue_purge |-> Method(50, 30, <<Reserved("short"), Field("queue", "queue_name"),
        Field("no_wait", "no_wait")>>),
    queue_purge_ok |-> Method(50, 31, <<Field("message_count", "message_count")>>),
    queue_delete |-> Method(50, 40, <<Reserved("short"), Field("queue", "queue_name"),
        Field("if_unused", "bit"), Field("if_empty", "bit"), Field("no_wait", "no_wait")>>),
    queue_delete_ok |-> Method(50, 41, <<Field("message_count", "message_count")>>) ]

BasicConsumer ==
  [ basic_qos |-> Method(60, 10, <<Field("prefetch_size", "long"),
        Field("prefetch_count", "short"), Field("global", "bit")>>),
    basic_qos_ok |-> Method(60, 11, <<>>),
    basic_consume |-> Method(60, 20, <<Reserved("short"), Field("queue", "queue_name"),
        Field("consumer_tag", "consumer_tag"), Field("no_local", "no_local"),
        Field("no_ack", "no_ack"), Field("exclusive", "bit"), Field("no_wait", "no_wait"),
        Field("arguments", "table")>>),
    basic_consume_ok |-> Method(60, 21, <<Field("consumer_tag", "consumer_tag")>>) ]

BasicPublication ==
  [ basic_cancel |-> Method(60, 30, <<Field("consumer_tag", "consumer_tag"),
        Field("no_wait", "no_wait")>>),
    basic_cancel_ok |-> Method(60, 31, <<Field("consumer_tag", "consumer_tag")>>),
    basic_publish |-> Method(60, 40, <<Reserved("short"), Field("exchange", "exchange_name"),
        Field("routing_key", "shortstr"), Field("mandatory", "bit"),
        Field("immediate", "bit")>>),
    basic_return |-> Method(60, 50, <<Field("reply_code", "reply_code"),
        Field("reply_text", "reply_text"), Field("exchange", "exchange_name"),
        Field("routing_key", "shortstr")>>) ]

BasicDelivery ==
  [ basic_deliver |-> Method(60, 60, <<Field("consumer_tag", "consumer_tag"),
        Field("delivery_tag", "delivery_tag"), Field("redelivered", "redelivered"),
        Field("exchange", "exchange_name"), Field("routing_key", "shortstr")>>),
    basic_get |-> Method(60, 70, <<Reserved("short"), Field("queue", "queue_name"),
        Field("no_ack", "no_ack")>>),
    basic_get_ok |-> Method(60, 71, <<Field("delivery_tag", "delivery_tag"),
        Field("redelivered", "redelivered"), Field("exchange", "exchange_name"),
        Field("routing_key", "shortstr"), Field("message_count", "message_count")>>),
    basic_get_empty |-> Method(60, 72, <<Reserved("shortstr")>>) ]

BasicAck ==
  [ basic_ack |-> Method(60, 80, <<Field("delivery_tag", "delivery_tag"),
        Field("multiple", "bit")>>),
    basic_reject |-> Method(60, 90, <<Field("delivery_tag", "delivery_tag"),
        Field("requeue", "bit")>>) ]

BasicRecovery ==
  [ basic_recover_async |-> Method(60, 100, <<Field("requeue", "bit")>>),
    basic_recover |-> Method(60, 110, <<Field("requeue", "bit")>>),
    basic_recover_ok |-> Method(60, 111, <<>>),
    basic_nack |-> Method(60, 120, <<Field("delivery_tag", "delivery_tag"),
        Field("multiple", "bit"), Field("requeue", "bit")>>) ]

TxMethods ==
  [ tx_select |-> Method(90, 10, <<>>),
    tx_select_ok |-> Method(90, 11, <<>>),
    tx_commit |-> Method(90, 20, <<>>),
    tx_commit_ok |-> Method(90, 21, <<>>),
    tx_rollback |-> Method(90, 30, <<>>),
    tx_rollback_ok |-> Method(90, 31, <<>>) ]

ConfirmMethods ==
  [ confirm_select |-> Method(85, 10, <<Field("nowait", "no_wait")>>),
    confirm_select_ok |-> Method(85, 11, <<>>) ]

\* the properties that a header frame carries
BasicProperties ==
  <<Field("content_type", "shortstr"), Field("content_encoding", "shortstr"),
    Field("headers", "table"), Field("delivery_mode", "octet"), Field("priority", "octet"),
    Field("correlation_id", "shortstr"), Field("reply_to", "shortstr"),
    Field("expiration", "shortstr"), Field("message_id", "shortstr"),
    Field("timestamp", "timestamp"), Field("type", "shortstr"), Field("user_id", "shortstr"),
    Field("app_id", "shortstr"), Field("reserved", "shortstr")>>

Methods == ConnectionHandshake @@ ConnectionTuning @@ ConnectionEnd @@ ChannelMethods
           @@ ChannelEnd @@ ExchangeMethods @@ ExchangeBindings @@ QueueDeclaration
           @@ QueueBindings @@ QueueMethods @@ BasicConsumer @@ BasicPublication
           @@ BasicDelivery @@ BasicAck @@ BasicRecovery @@ TxMethods @@ ConfirmMethods
=============================================================================
