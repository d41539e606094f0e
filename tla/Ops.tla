-------------------------------- MODULE Ops --------------------------------
(***************************************************************************)
(* The calls that the generated encoders and decoders of api.ts are made   *)
(* of, named after the methods of BufferWriter and BufferReader in         *)
(* codec.ts, and the rows of their tables.                                 *)
(***************************************************************************)
EXTENDS Naturals, Sequences, TLC

\* one call: what it moves, for which field, the ASSERTS around it, the bytes a skip passes,
\* the bits of a flag and, for a property, its mask
Op(kind, field) ==
  [kind |-> kind, field |-> field, checks |-> {}, size |-> 0, names |-> <<>>, mask |-> 0]

skip(size)       == [Op("skip", "") EXCEPT !.size = size]
uint8(field)     == Op("uint8", field)
uint16(field)    == Op("uint16", field)
uint32(field)    == Op("uint32", field)
uint64(field)    == Op("uint64", field)
boolean(field)   == Op("boolean", field)
shortstr(field)  == Op("shortstr", field)
longstr(field)   == Op("longstr", field)
timestamp(field) == Op("timestamp", field)
table(field)     == Op("table", field)
flags(names)     == [Op("flags", "flag") EXCEPT !.names = names]

\* ASSERTS of codec.ts, and a property that is there only when the caller gave it
notnull(op)   == [op EXCEPT !.checks = @ \cup {"notnull"}]
length(op)    == [op EXCEPT !.checks = @ \cup {"length"}]
regexp(op)    == [op EXCEPT !.checks = @ \cup {"regexp"}]
opt(mask, op) == [op EXCEPT !.mask = mask]

\* an encoder: the bytes its writer is made with are size, the lengths of the fields lens and
\* the smallest frame for every table of tabs that is not empty
Encoder(id, dynamic, size, lens, tabs, ops) ==
  [id |-> id, dynamic |-> dynamic, size |-> size, lens |-> lens, tabs |-> tabs, ops |-> ops]
Static(id, size, lens, ops)        == Encoder(id, FALSE, size, lens, <<>>, ops)
Dynamic(id, size, lens, tabs, ops) == Encoder(id, TRUE, size, lens, tabs, ops)

\* writeVoid: a method without fields takes EMPTY_FRAME_METHOD_SIZE bytes
Void(id) == Static(id, 12, <<>>, <<>>)

\* publish_header: a writer of frame_min_size bytes
Header(id, ops) == Dynamic(id, 4096, <<>>, <<>>, ops)

Decoder(id, ops) == [id |-> id, ops |-> ops]
=============================================================================
