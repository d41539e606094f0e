------------------------------ MODULE Decoders ------------------------------
(***************************************************************************)
(* The table DECODERS of api.ts (lines 1518-2003): what is read from a     *)
(* method frame after its id, or from a header frame after its body size,  *)
(* and the table METHODS that names the ids.                               *)
(***************************************************************************)
EXTENDS Ops

ConnectionDecoders ==
  [ connection_start |-> Decoder(655370, <<uint8("version_major"), uint8("version_minor"),
        table("server_properties"), notnull(longstr("mechanisms")),
        notnull(longstr("locales"))>>),
    connection_start_ok |-> Decoder(655371, <<table("client_properties"),
        notnull(shortstr("mechanism")), notnull(longstr("response")),
        notnull(shortstr("locale"))>>),
    connection_secure |-> Decoder(655380, <<longstr("challenge")>>),
    connection_secure_ok |-> Decoder(655381, <<notnull(longstr("response"))>>),
    connection_tune |-> Decoder(655390, <<uint16("channel_max"), uint32("frame_max"),
        uint16("heartbeat")>>),
    connection_tune_ok |-> Decoder(655391, <<notnull(uint16("channel_max")),
        uint32("frame_max"), uint16("heartbeat")>>),
    connection_open |-> Decoder(655400, <<length(notnull(shortstr("virtual_host"))), skip(1),
        skip(1)>>),
    connection_open_ok |-> Decoder(655401, <<skip(1)>>),
    connection_close |-> Decoder(655410, <<notnull(uint16("reply_code")),
        notnull(shortstr("reply_text")), uint32("method_id")>>),
    connection_close_ok |-> Decoder(655411, <<>>),
    connection_blocked |-> Decoder(655420, <<shortstr("reason")>>),
    connection_unblocked |-> Decoder(655421, <<>>),
    connection_update_secret |-> Decoder(655430, <<longstr("new_secret"),
        shortstr("reason")>>),
    connection_update_secret_ok |-> Decoder(655431, <<>>) ]

ChannelDecoders ==
  [ channel_open |-> Decoder(1310730, <<skip(1)>>),
    channel_open_ok |-> Decoder(1310731, <<skip(4)>>),
    channel_flow |-> Decoder(1310740, <<boolean("active")>>),
    channel_flow_ok |-> Decoder(1310741, <<boolean("active")>>),
    channel_close |-> Decoder(1310760, <<notnull(uint16("reply_code")),
        notnull(shortstr("reply_text")), uint32("method_id")>>),
    channel_close_ok |-> Decoder(1310761, <<>>) ]

ExchangeDecoders ==
  [ exchange_declare |-> Decoder(2621450, <<skip(2),
        regexp(length(notnull(shortstr("exchange")))), shortstr("type"),
        flags(<<"passive", "durable", "auto_delete", "internal", "no_wait">>),
        table("arguments")>>),
    exchange_declare_ok |-> Decoder(2621451, <<>>),
    exchange_delete |-> Decoder(2621460, <<skip(2),
        regexp(length(notnull(shortstr("exchange")))), flags(<<"if_unused", "no_wait">>)>>),
    exchange_delete_ok |-> Decoder(2621461, <<>>),
    exchange_bind |-> Decoder(2621470, <<skip(2), regexp(length(shortstr("destination"))),
        regexp(length(shortstr("source"))), shortstr("routing_key"), boolean("no_wait"),
        table("arguments")>>),
    exchange_bind_ok |-> Decoder(2621471, <<>>),
    exchange_unbind |-> Decoder(2621480, <<skip(2), regexp(length(shortstr("destination"))),
        regexp(length(shortstr("source"))), shortstr("routing_key"), boolean("no_wait"),
        table("arguments")>>),
    exchange_unbind_ok |-> Decoder(2621491, <<>>) ]

QueueDecoders ==
  [ queue_declare |-> Decoder(3276810, <<skip(2), regexp(length(shortstr("queue"))),
        flags(<<"passive", "durable", "exclusive", "auto_delete", "no_wait">>),
        table("arguments")>>),
    queue_declare_ok |-> Decoder(3276811, <<regexp(length(notnull(shortstr("queue")))),
        uint32("message_count"), uint32("consumer_count")>>),
    queue_bind |-> Decoder(3276820, <<skip(2), regexp(length(shortstr("queue"))),
        regexp(length(shortstr("exchange"))), shortstr("routing_key"), boolean("no_wait"),
        table("arguments")>>),
    queue_bind_ok |-> Decoder(3276821, <<>>),
    queue_unbind |-> Decoder(3276850, <<skip(2), regexp(length(shortstr("queue"))),
        regexp(length(shortstr("exchange"))), shortstr("routing_key"), table("arguments")>>),
    queue_unbind_ok |-> Decoder(3276851, <<>>),
    queue_purge |-> Decoder(3276830, <<skip(2), regexp(length(shortstr("queue"))),
        boolean("no_wait")>>),
    queue_purge_ok |-> Decoder(3276831, <<uint32("message_count")>>),
    queue_delete |-> Decoder(3276840, <<skip(2), regexp(length(shortstr("queue"))),
        flags(<<"if_unused", "if_empty", "no_wait">>)>>),
    queue_delete_ok |-> Decoder(3276841, <<uint32("message_count")>>) ]

BasicDecoders ==
  [ basic_qos |-> Decoder(3932170, <<uint32("prefetch_size"), uint16("prefetch_count"),
        boolean("global")>>),
    basic_qos_ok |-> Decoder(3932171, <<>>),
    basic_consume |-> Decoder(3932180, <<skip(2), regexp(length(shortstr("queue"))),
        shortstr("consumer_tag"), flags(<<"no_local", "no_ack", "exclusive", "no_wait">>),
        table("arguments")>>),
    basic_consume_ok |-> Decoder(3932181, <<shortstr("consumer_tag")>>),
    basic_cancel |-> Decoder(3932190, <<shortstr("consumer_tag"), boolean("no_wait")>>),
    basic_cancel_ok |-> Decoder(3932191, <<shortstr("consumer_tag")>>),
    basic_publish |-> Decoder(3932200, <<skip(2), regexp(length(shortstr("exchange"))),
        shortstr("routing_key"), flags(<<"mandatory", "immediate">>)>>),
    basic_return |-> Decoder(3932210, <<notnull(uint16("reply_code")),
        notnull(shortstr("reply_text")), regexp(length(shortstr("exchange"))),
        shortstr("routing_key")>>),
    basic_deliver |-> Decoder(3932220, <<shortstr("consumer_tag"), uint64("delivery_tag"),
        boolean("redelivered"), regexp(length(shortstr("exchange"))),
        shortstr("routing_key")>>),
    basic_get |-> Decoder(3932230, <<skip(2), regexp(length(shortstr("queue"))),
        boolean("no_ack")>>),
    basic_get_ok |-> Decoder(3932231, <<uint64("delivery_tag"), boolean("redelivered"),
        regexp(length(shortstr("exchange"))), shortstr("routing_key"),
        uint32("message_count")>>),
    basic_get_empty |-> Decoder(3932232, <<skip(1)>>),
    basic_ack |-> Decoder(3932240, <<uint64("delivery_tag"), boolean("multiple")>>),
    basic_reject |-> Decoder(3932250, <<uint64("delivery_tag"), boolean("requeue")>>),
    basic_recover_async |-> Decoder(3932260, <<boolean("requeue")>>),
    basic_recover |-> Decoder(3932270, <<boolean("requeue")>>),
    basic_recover_ok |-> Decoder(3932271, <<>>),
    basic_nack |-> Decoder(3932280, <<uint64("delivery_tag"),
        flags(<<"multiple", "requeue">>)>>) ]

TxDecoders ==
  [ tx_select |-> Decoder(5898250, <<>>),
    tx_select_ok |-> Decoder(5898251, <<>>),
    tx_commit |-> Decoder(5898260, <<>>),
    tx_commit_ok |-> Decoder(5898261, <<>>),
    tx_rollback |-> Decoder(5898270, <<>>),
    tx_rollback_ok |-> Decoder(5898271, <<>>),
    confirm_select |-> Decoder(5570570, <<boolean("nowait")>>),
    confirm_select_ok |-> Decoder(5570571, <<>>) ]

\* the properties of a header frame: each is there when its bit of the flag is set
BasicPropertiesDecoder ==
  Decoder(60, <<opt(32768, shortstr("content_type")),
      opt(16384, shortstr("content_encoding")), opt(8192, table("headers")),
      opt(4096, uint8("delivery_mode")), opt(2048, uint8("priority")),
      opt(1024, shortstr("correlation_id")), opt(512, shortstr("reply_to")),
      opt(256, shortstr("expiration")), opt(128, shortstr("message_id")),
      opt(64, timestamp("timestamp")), opt(32, shortstr("type")),
      opt(16, shortstr("user_id")), opt(8, shortstr("app_id"))>>)

Decoders == ConnectionDecoders @@ ChannelDecoders @@ ExchangeDecoders @@ QueueDecoders
            @@ BasicDecoders @@ TxDecoders @@ [publish_header |-> BasicPropertiesDecoder]

\* the ids of the methods and of the header
METHODS ==
  [ connection_start |-> 655370, connection_start_ok |-> 655371, connection_secure |-> 655380,
    connection_secure_ok |-> 655381, connection_tune |-> 655390,
    connection_tune_ok |-> 655391, connection_open |-> 655400, connection_open_ok |-> 655401,
    connection_close |-> 655410, connection_close_ok |-> 655411,
    connection_blocked |-> 655420, connection_unblocked |-> 655421,
    connection_update_secret |-> 655430, connection_update_secret_ok |-> 655431,
    channel_open |-> 1310730, channel_open_ok |-> 1310731, channel_flow |-> 1310740,
    channel_flow_ok |-> 1310741, channel_close |-> 1310760, channel_close_ok |-> 1310761,
    exchange_declare |-> 2621450, exchange_declare_ok |-> 2621451,
    exchange_delete |-> 2621460, exchange_delete_ok |-> 2621461, exchange_bind |-> 2621470,
    exchange_bind_ok |-> 2621471, exchange_unbind |-> 2621480, exchange_unbind_ok |-> 2621491,
    queue_declare |-> 3276810, queue_declare_ok |-> 3276811, queue_bind |-> 3276820,
    queue_bind_ok |-> 3276821, queue_unbind |-> 3276850, queue_unbind_ok |-> 3276851,
    queue_purge |-> 3276830, queue_purge_ok |-> 3276831, queue_delete |-> 3276840,
    queue_delete_ok |-> 3276841, basic_properties |-> 60, basic_qos |-> 3932170,
    basic_qos_ok |-> 3932171, basic_consume |-> 3932180, basic_consume_ok |-> 3932181,
    basic_cancel |-> 3932190, basic_cancel_ok |-> 3932191, basic_publish |-> 3932200,
    basic_return |-> 3932210, basic_deliver |-> 3932220, basic_get |-> 3932230,
    basic_get_ok |-> 3932231, basic_get_empty |-> 3932232, basic_ack |-> 3932240,
    basic_reject |-> 3932250, basic_recover_async |-> 3932260, basic_recover |-> 3932270,
    basic_recover_ok |-> 3932271, basic_nack |-> 3932280, tx_select |-> 5898250,
    tx_select_ok |-> 5898251, tx_commit |-> 5898260, tx_commit_ok |-> 5898261,
    tx_rollback |-> 5898270, tx_rollback_ok |-> 5898271, confirm_select |-> 5570570,
    confirm_select_ok |-> 5570571 ]
=============================================================================
