----------------------------- MODULE Generator -----------------------------
(***************************************************************************)
(* The generator bin/parse_xml.ts: from the description of a method or of  *)
(* the properties to its encoder and decoder.  Text, types and comments of *)
(* the generated files are left out; what remains is the calls, their      *)
(* asserts, the sizes (CodecItem.compile_initial_size) and the ids.        *)
(***************************************************************************)
EXTENDS Ops, Protocol, SequencesExt

TYPE_TO_BUFFER_RW ==
  [ short |-> "uint16", shortstr |-> "shortstr", longlong |-> "uint64", table |-> "table",
    long |-> "uint32", octet |-> "uint8", longstr |-> "longstr", timestamp |-> "timestamp" ]

TYPE_INITIAL_SZ ==
  [ short |-> 2, shortstr |-> 1, longlong |-> 8, table |-> 4, long |-> 4, octet |-> 1,
    longstr |-> 4, timestamp |-> 8 ]

\* CodecItem: the calls so far, the static size, the fields of dynamic size, the bits that wait
NewCodec == [ops |-> <<>>, size |-> 8, lens |-> <<>>, tabs |-> <<>>, bits |-> <<>>]

Push(codec, op, size) == [codec EXCEPT !.ops = Append(@, op), !.size = @ + size]

\* mutant: a single bit is packed as a flag as well
FlushBitsPacked(codec) ==
  IF codec.bits = <<>> THEN codec
  ELSE Push([codec EXCEPT !.bits = <<>>],
            flags([i \in DOMAIN codec.bits |-> codec.bits[i].name]), 1)

\* flush_bits: one bit takes a byte of its own, more share the byte of a flag
FlushBits(codec) ==
  LET flushed == [codec EXCEPT !.bits = <<>>]
      field   == codec.bits[1]
  IN IF codec.bits = <<>> THEN codec
     ELSE IF Len(codec.bits) > 1
          THEN Push(flushed, flags([i \in DOMAIN codec.bits |-> codec.bits[i].name]), 1)
          ELSE Push(flushed, IF field.reserved THEN skip(1) ELSE boolean(field.name), 1)

\* a field that is no bit; le is the one assert that is not generated
PushField(codec, field, domain) ==
  LET size    == TYPE_INITIAL_SZ[domain.type]
      checks  == (field.assert \cup domain.assert) \ {"le"}
      op      == [Op(TYPE_TO_BUFFER_RW[domain.type], field.name) EXCEPT !.checks = checks]
      pushed  == Push(codec, op, size)
  IN CASE field.reserved                           -> Push(codec, skip(size), size)
       [] domain.type \in {"shortstr", "longstr"}  -> [pushed EXCEPT !.lens = Append(@, field.name)]
       [] domain.type = "table"                    -> [pushed EXCEPT !.tabs = Append(@, field.name)]
       [] OTHER                                    -> pushed

\* class_id and method_id are one long that goes by the name of the second
GenerateField(codec, field) ==
  LET domain == DOMAINS[IF field.name = "method_id" THEN "long" ELSE field.domain]
  IN CASE field.name = "class_id" -> codec
       [] domain.type = "bit"     -> [codec EXCEPT !.bits = Append(@, field)]
       [] OTHER                   -> PushField(FlushBits(codec), field, domain)

MethodId(method) == method.class * 65536 + method.index

\* the encoder and the decoder of a method; compile_initial_size(4) adds the id of the method
GenerateEncoder(method) ==
  LET codec == FlushBits(FoldLeft(GenerateField, NewCodec, method.fields))
  IN IF method.fields = <<>> THEN Void(MethodId(method))
     ELSE Encoder(MethodId(method), codec.tabs # <<>>, codec.size + 4,
                  codec.lens, codec.tabs, codec.ops)

GenerateDecoder(method) == Decoder(MethodId(method), GenerateEncoder(method).ops)

\* the properties of a class: the first has the highest of the sixteen bits of the flag
Property(i) ==
  LET field == BasicProperties[i]
  IN opt(2 ^ (16 - i), Op(TYPE_TO_BUFFER_RW[DOMAINS[field.domain].type], field.name))

GenerateHeader ==
  LET kept == {i \in DOMAIN BasicProperties : BasicProperties[i].name # "reserved"}
  IN Header(60, [i \in kept |-> Property(i)])

Generate(name) == IF name = "publish_header" THEN GenerateHeader ELSE GenerateEncoder(Methods[name])
=============================================================================
