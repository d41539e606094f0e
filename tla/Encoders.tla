------------------------------ MODULE Encoders ------------------------------
(***************************************************************************)
(* The table API of api.ts (lines 2004-2657): what every method writes,    *)
(* the number of bytes its writer is made with, the fields whose length    *)
(* adds to it and, for a writer that grows, the tables that add the        *)
(* smallest frame to it unless they are empty.                             *)
(***************************************************************************)
EXTENDS Ops

ConnectionEncoders ==
  [ connection_start |-> Dynamic(655370, 26, <<"mechanisms", "locales">>,
        <<"server_properties">>, <<uint8("version_major"), uint8("version_minor"),
        table("server_properties"), notnull(longstr("mechanisms")),
        notnull(longstr("locales"))>>),
    connection_start_ok |-> Dynamic(655371, 22, <<"mechanism", "response", "locale">>,
        <<"client_properties">>, <<table("client_properties"),
        notnull(shortstr("mechanism")), notnull(longstr("response")),
        notnull(shortstr("locale"))>>),
    connection_secure |-> Static(655380, 16, <<"challenge">>, <<longstr("challenge")>>),
    connection_secure_ok |-> Static(655381, 16, <<"response">>,
        <<notnull(longstr("response"))>>),
    connection_tune |-> Static(655390, 20, <<>>, <<uint16("channel_max"),
        uint32("frame_max"), uint16("heartbeat")>>),
    connection_tune_ok |-> Static(655391, 20, <<>>, <<notnull(uint16("channel_max")),
        uint32("frame_max"), uint16("heartbeat")>>),
    connection_open |-> Static(655400, 15, <<"virtual_host">>,
        <<length(notnull(shortstr("virtual_host"))), skip(1), skip(1)>>),
    connection_open_ok |-> Static(655401, 13, <<>>, <<skip(1)>>),
    connection_close |-> Static(655410, 19, <<"reply_text">>,
        <<notnull(uint16("reply_code")), notnull(shortstr("reply_text")),
        uint32("method_id")>>),
    connection_close_ok |-> Void(655411),
    connection_blocked |-> Static(655420, 13, <<"reason">>, <<shortstr("reason")>>),
    connection_unblocked |-> Void(655421),
    connection_update_secret |-> Static(655430, 17, <<"new_secret", "reason">>,
        <<longstr("new_secret"), shortstr("reason")>>),
    connection_update_secret_ok |-> Void(655431) ]

ChannelEncoders ==
  [ channel_open |-> Static(1310730, 13, <<>>, <<skip(1)>>),
    channel_open_ok |-> Static(1310731, 16, <<>>, <<skip(4)>>),
    channel_flow |-> Static(1310740, 13, <<>>, <<boolean("active")>>),
    channel_flow_ok |-> Static(1310741, 13, <<>>, <<boolean("active")>>),
    channel_close |-> Static(1310760, 19, <<"reply_text">>, <<notnull(uint16("reply_code")),
        notnull(shortstr("reply_text")), uint32("method_id")>>),
    channel_close_ok |-> Void(1310761) ]

ExchangeEncoders ==
  [ exchange_declare |-> Dynamic(2621450, 21, <<"exchange", "type">>, <<"arguments">>,
        <<skip(2), regexp(length(notnull(shortstr("exchange")))), shortstr("type"),
        flags(<<"passive", "durable", "auto_delete", "internal", "no_wait">>),
        table("arguments")>>),
    exchange_declare_ok |-> Void(2621451),
    exchange_delete |-> Static(2621460, 16, <<"exchange">>, <<skip(2),
        regexp(length(notnull(shortstr("exchange")))), flags(<<"if_unused", "no_wait">>)>>),
    exchange_delete_ok |-> Void(2621461),
    exchange_bind |-> Dynamic(2621470, 22, <<"destination", "source", "routing_key">>,
        <<"arguments">>, <<skip(2), regexp(length(shortstr("destination"))),
        regexp(length(shortstr("source"))), shortstr("routing_key"), boolean("no_wait"),
        table("arguments")>>),
    exchange_bind_ok |-> Void(2621471),
    exchange_unbind |-> Dynamic(2621480, 22, <<"destination", "source", "routing_key">>,
        <<"arguments">>, <<skip(2), regexp(length(shortstr("destination"))),
        regexp(length(shortstr("source"))), shortstr("routing_key"), boolean("no_wait"),
        table("arguments")>>),
    exchange_unbind_ok |-> Void(2621491) ]

QueueEncoders ==
  [ queue_declare |-> Dynamic(3276810, 20, <<"queue">>, <<"arguments">>, <<skip(2),
        regexp(length(shortstr("queue"))),
        flags(<<"passive", "durable", "exclusive", "auto_delete", "no_wait">>),
        table("arguments")>>),
    queue_declare_ok |-> Static(3276811, 21, <<"queue">>,
        <<regexp(length(notnull(shortstr("queue")))), uint32("message_count"),
        uint32("consumer_count")>>),
    queue_bind |-> Dynamic(3276820, 22, <<"queue", "exchange", "routing_key">>,
        <<"arguments">>, <<skip(2), regexp(length(shortstr("queue"))),
        regexp(length(shortstr("exchange"))), shortstr("routing_key"), boolean("no_wait"),
        table("arguments")>>),
    queue_bind_ok |-> Void(3276821),
    queue_unbind |-> Dynamic(3276850, 21, <<"queue", "exchange", "routing_key">>,
        <<"arguments">>, <<skip(2), regexp(length(shortstr("queue"))),
        regexp(length(shortstr("exchange"))), shortstr("routing_key"), table("arguments")>>),
    queue_unbind_ok |-> Void(3276851),
    queue_purge |-> Static(3276830, 16, <<"queue">>, <<skip(2),
        regexp(length(shortstr("queue"))), boolean("no_wait")>>),
    queue_purge_ok |-> Static(3276831, 16, <<>>, <<uint32("message_count")>>),
    queue_delete |-> Static(3276840, 16, <<"queue">>, <<skip(2),
        regexp(length(shortstr("queue"))), flags(<<"if_unused", "if_empty", "no_wait">>)>>),
    queue_delete_ok |-> Static(3276841, 16, <<>>, <<uint32("message_count")>>) ]

BasicEncoders ==
  [ basic_qos |-> Static(3932170, 19, <<>>, <<uint32("prefetch_size"),
        uint16("prefetch_count"), boolean("global")>>),
    basic_qos_ok |-> Void(3932171),
    basic_consume |-> Dynamic(3932180, 21, <<"queue", "consumer_tag">>, <<"arguments">>,
        <<skip(2), regexp(length(shortstr("queue"))), shortstr("consumer_tag"),
        flags(<<"no_local", "no_ack", "exclusive", "no_wait">>), table("arguments")>>),
    basic_consume_ok |-> Static(3932181, 13, <<"consumer_tag">>, <<shortstr("consumer_tag")>>),
    basic_cancel |-> Static(3932190, 14, <<"consumer_tag">>, <<shortstr("consumer_tag"),
        boolean("no_wait")>>),
    basic_cancel_ok |-> Static(3932191, 13, <<"consumer_tag">>, <<shortstr("consumer_tag")>>),
    basic_publish |-> Static(3932200, 17, <<"exchange", "routing_key">>, <<skip(2),
        regexp(length(shortstr("exchange"))), shortstr("routing_key"),
        flags(<<"mandatory", "immediate">>)>>),
    basic_return |-> Static(3932210, 17, <<"reply_text", "exchange", "routing_key">>,
        <<notnull(uint16("reply_code")), notnull(shortstr("reply_text")),
        regexp(length(shortstr("exchange"))), shortstr("routing_key")>>),
    basic_deliver |-> Static(3932220, 24, <<"consumer_tag", "exchange", "routing_key">>,
        <<shortstr("consumer_tag"), uint64("delivery_tag"), boolean("redelivered"),
        regexp(length(shortstr("exchange"))), shortstr("routing_key")>>) ]

BasicAnswerEncoders ==
  [ basic_get |-> Static(3932230, 16, <<"queue">>, <<skip(2),
        regexp(length(shortstr("queue"))), boolean("no_ack")>>),
    basic_get_ok |-> Static(3932231, 27, <<"exchange", "routing_key">>,
        <<uint64("delivery_tag"), boolean("redelivered"),
        regexp(length(shortstr("exchange"))), shortstr("routing_key"),
        uint32("message_count")>>),
    basic_get_empty |-> Static(3932232, 13, <<>>, <<skip(1)>>),
    basic_ack |-> Static(3932240, 21, <<>>, <<uint64("delivery_tag"), boolean("multiple")>>),
    basic_reject |-> Static(3932250, 21, <<>>, <<uint64("delivery_tag"), boolean("requeue")>>),
    basic_recover_async |-> Static(3932260, 13, <<>>, <<boolean("requeue")>>),
    basic_recover |-> Static(3932270, 13, <<>>, <<boolean("requeue")>>),
    basic_recover_ok |-> Void(3932271),
    basic_nack |-> Static(3932280, 21, <<>>, <<uint64("delivery_tag"),
        flags(<<"multiple", "requeue">>)>>) ]

TxEncoders ==
  [ tx_select |-> Void(5898250),
    tx_select_ok |-> Void(5898251),
    tx_commit |-> Void(5898260),
    tx_commit_ok |-> Void(5898261),
    tx_rollback |-> Void(5898270),
    tx_rollback_ok |-> Void(5898271),
    confirm_select |-> Static(5570570, 13, <<>>, <<boolean("nowait")>>),
    confirm_select_ok |-> Void(5570571) ]

\* publish_header: the properties that the caller gave, in the order of their masks
PublishHeader ==
  Header(60, <<opt(32768, shortstr("content_type")),
      opt(16384, shortstr("content_encoding")), opt(8192, table("headers")),
      opt(4096, uint8("delivery_mode")), opt(2048, uint8("priority")),
      opt(1024, shortstr("correlation_id")), opt(512, shortstr("reply_to")),
      opt(256, shortstr("expiration")), opt(128, shortstr("message_id")),
      opt(64, timestamp("timestamp")), opt(32, shortstr("type")),
      opt(16, shortstr("user_id")), opt(8, shortstr("app_id"))>>)

Encoders == ConnectionEncoders @@ ChannelEncoders @@ ExchangeEncoders @@ QueueEncoders
            @@ BasicEncoders @@ BasicAnswerEncoders @@ TxEncoders
            @@ [publish_header |-> PublishHeader]
=============================================================================
