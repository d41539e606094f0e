-------------------------------- MODULE Wire --------------------------------
(***************************************************************************)
(* One frame on its way: an encoder of api.ts fills a BufferWriter         *)
(* (codec.ts 256-618), the socket carries the bytes, a decoder reads them  *)
(* back through a BufferReader (36-252).                                   *)
(*                                                                         *)
(* The bytes are cells: a function from the offset of a number or a text   *)
(* to its size and its value, so that a reader that is out of step finds   *)
(* nothing.  A number is <<sign, high, low>> in base 65536, with a fourth  *)
(* element when it has a fraction; a text is <<bytes, characters, whether  *)
(* it is a name for RE_XQ_NAME, whether it is a key for RE_FieldName>>.    *)
(* The items of a table are the tokens between the token of the table and  *)
(* its end.                                                                *)
(***************************************************************************)
EXTENDS Integers, Encoders, Decoders, Generator

CONSTANTS Texts,         \* the texts that a field may be given
          Numbers,       \* the numbers
          Dates,         \* the seconds of a date; the sign of an invalid one is 2
          Tables,        \* a sequence of tables, each the sequence of its tokens
          ServerTables   \* those that a server may send as well

VARIABLES phase,    \* "idle", "writing", "sent", "reading", "read", or how it ended early
          call,     \* the method and who calls it
          todo,     \* the calls and items that the writer or the reader has yet to do
          writer,   \* the BufferWriter: cells, offset, capacity, dynamic, open tables
          given,    \* the tokens that were written
          reader,   \* the BufferReader: offset and the ends of the open tables
          taken     \* the tokens that were read
vars == <<phase, call, todo, writer, given, reader, taken>>

Num(n) == <<0, n \div 65536, n % 65536>>
Zero   == Num(0)
Empty  == <<0, 0, 1, 0>>
Usual  == <<3, 3, 1, 1>>
Value(a) == a[2] * 65536 + a[3]

Token(op, key, a)  == [op |-> op, key |-> key, a |-> a]
Item(kind, key, a) == Token(Op(kind, ""), key, a)
End                == Item("end", <<>>, <<>>)

-----------------------------------------------------------------------------
(* What the methods of the buffers put where.                              *)

Width ==
  [ uint8 |-> 1, int8 |-> 1, boolean |-> 1, uint16 |-> 2, int16 |-> 2, uint32 |-> 4,
    int32 |-> 4, float |-> 4, uint64 |-> 8, int64 |-> 8, double |-> 8, timestamp |-> 8 ]
LengthWidth == [shortstr |-> 1, longstr |-> 4, binary |-> 4]

Limit == [ uint8 |-> <<0, 256>>, uint16 |-> <<1, 0>>, uint32 |-> <<65536, 0>>,
           int8 |-> <<0, 128>>, int16 |-> <<0, 32768>>, int32 |-> <<32768, 0>> ]

Below(a, limit) == a[2] < limit[1] \/ (a[2] = limit[1] /\ a[3] < limit[2])
Whole(a)        == Len(a) = 3

\* what a method can store: Buffer throws for the rest
Fits(kind, a) ==
  CASE kind \in {"uint8", "uint16", "uint32"} -> Whole(a) /\ a[1] = 0 /\ Below(a, Limit[kind])
    [] kind \in {"int8", "int16", "int32"} ->
         Whole(a) /\ (Below(a, Limit[kind]) \/ (a[1] = 1 /\ <<a[2], a[3]>> = Limit[kind]))
    [] kind \in {"uint64", "timestamp"} -> Whole(a) /\ a[1] = 0
    [] kind = "int64"    -> Whole(a)
    [] kind = "decimal"  -> Whole(a) /\ a[1] = 0 /\ Below(a, Limit["uint32"])
    [] kind = "float"    -> Below(a, <<256, 0>>)
    [] kind = "shortstr" -> a[1] < 256
    [] OTHER             -> TRUE

\* a text is its length and its bytes, a decimal without a fraction a zero and a long
Parts(kind, a) ==
  CASE kind \in DOMAIN Width       -> <<<<Width[kind], a>>>>
    [] kind \in DOMAIN LengthWidth -> <<<<LengthWidth[kind], Num(a[1])>>, <<a[1], a>>>>
    [] kind = "decimal"            -> <<<<1, Zero>>, <<4, a>>>>
    [] OTHER                       -> <<>>

BUFFER_INC == 1024

\* mutant: the buffer grows by the increment alone
GrownByIncrement(w, size) ==
  IF w.dynamic /\ w.offset + size > w.cap THEN w.cap + BUFFER_INC ELSE w.cap

\* safewritedynamic makes room for the bytes it is told of; safewritestatic trusts the caller
Grown(w, size) ==
  IF w.dynamic /\ w.offset + size > w.cap THEN w.cap + size + BUFFER_INC ELSE w.cap

\* mutant: every part counts for one byte
PutPartOneByte(w, part) ==
  [w EXCEPT !.offset = @ + 1, !.cells = (w.offset :> part) @@ @]

PutPart(w, part) ==
  [w EXCEPT !.offset = @ + part[1],
            !.cells = IF part[1] = 0 THEN @ ELSE (w.offset :> part) @@ @]

Put(w, parts) ==
  LET size == FoldLeft(LAMBDA sum, part : sum + part[1], 0, parts)
  IN FoldLeft(PutPart, [w EXCEPT !.cap = Grown(w, size)], parts)

\* table() and array() step over the length and make no room for it
Open(w) == [w EXCEPT !.open = Append(@, w.offset), !.offset = @ + 4]

\* the cell of a number, or of the length of a text
At(offset, size) ==
  IF offset \in DOMAIN writer.cells /\ writer.cells[offset][1] = size
  THEN writer.cells[offset][2] ELSE <<>>

Nothing == [ok |-> FALSE, a |-> <<>>, next |-> 0]
Got(a, next) == [ok |-> TRUE, a |-> a, next |-> next]

GetNumber(kind, offset) ==
  LET a == At(offset, Width[kind])
  IN IF a = <<>> \/ ~ Fits(kind, a) THEN Nothing ELSE Got(a, offset + Width[kind])

GetText(kind, offset) ==
  LET len   == At(offset, LengthWidth[kind])
      start == offset + LengthWidth[kind]
  IN CASE len = <<>> -> Nothing
       [] len = Zero -> Got(Empty, start)
       [] OTHER      -> IF At(start, Value(len)) = <<>> THEN Nothing
                        ELSE Got(At(start, Value(len)), start + Value(len))

Get(kind, offset) ==
  CASE kind = "boolean"            -> LET got == GetNumber("uint8", offset)
                                      IN IF got.ok /\ got.a # Zero THEN [got EXCEPT !.a = Num(1)] ELSE got
    [] kind \in DOMAIN Width       -> GetNumber(kind, offset)
    [] kind \in DOMAIN LengthWidth -> GetText(kind, offset)
    [] kind = "decimal"            -> GetNumber("uint32", offset + 1)
    [] OTHER                       -> Got(<<>>, offset)

-----------------------------------------------------------------------------
(* The chars of the items of a table.                                      *)

CHAR_METHODS ==
  116 :> "boolean" @@ 98 :> "int8" @@ 66 :> "uint8" @@ 115 :> "int16" @@ 117 :> "uint16"
  @@ 73 :> "int32" @@ 105 :> "uint32" @@ 76 :> "int64" @@ 108 :> "int64" @@ 102 :> "float"
  @@ 100 :> "double" @@ 68 :> "decimal" @@ 83 :> "longstr" @@ 84 :> "timestamp"
  @@ 86 :> "void" @@ 120 :> "binary" @@ 70 :> "table" @@ 65 :> "array"

\* the JavaScript type that a method reads
Reads(method) ==
  CASE method \in {"longstr", "binary", "boolean", "timestamp", "table", "array"} -> method
    [] method = "int64" -> "bigint"
    [] method = "void"  -> "undefined"
    [] OTHER            -> "number"

\* tableitem: the smallest type that holds a whole number, a double for the rest
NumberChar(a) ==
  CASE ~ Whole(a)                                             -> 100
    [] a[1] = 1 /\ Fits("int8", a)                            -> 98
    [] a[1] = 1 /\ ~ Fits("int8", a) /\ Fits("int16", a)      -> 115
    [] a[1] = 1 /\ ~ Fits("int16", a) /\ Fits("int32", a)     -> 73
    [] a[1] = 0 /\ Fits("uint8", a)                           -> 66
    [] a[1] = 0 /\ ~ Fits("uint8", a) /\ Fits("uint16", a)    -> 117
    [] a[1] = 0 /\ ~ Fits("uint16", a) /\ Fits("uint32", a)   -> 105
    [] OTHER                                                  -> 100

ItemChar(token) ==
  CASE token.op.kind = "number"    -> NumberChar(token.a)
    [] token.op.kind = "bigint"    -> 76
    [] token.op.kind = "boolean"   -> 116
    [] token.op.kind = "longstr"   -> 83
    [] token.op.kind = "binary"    -> 120
    [] token.op.kind = "timestamp" -> 84
    [] token.op.kind = "array"     -> 65
    [] token.op.kind = "table"     -> 70
    [] OTHER                       -> 86

\* a server may choose any char whose type holds the value
Chars(token) ==
  IF call.origin = "client" THEN {ItemChar(token)}
  ELSE {c \in DOMAIN CHAR_METHODS : /\ Reads(CHAR_METHODS[c]) = token.op.kind
                                    /\ Fits(CHAR_METHODS[c], token.a)}

-----------------------------------------------------------------------------
(* The encoder.                                                            *)

\* ASSERTS
Asserts(check, kind, a) ==
  CASE check = "length"  -> a[2] <= 127
    [] check = "regexp"  -> a[3] = 1
    [] check = "notnull" -> IF kind \in DOMAIN LengthWidth THEN a[1] > 0 ELSE a # Zero

\* mutant: an empty text is not checked
PassesGiven(op, a) == a # Empty => \A check \in op.checks : Asserts(check, op.kind, a)

Passes(op, a) == \A check \in op.checks : Asserts(check, op.kind, a)

\* methodstart and headerstart; a writer that grows is told its length at the end
Header7(type, channel, size) == 0 :> <<1, Num(type)>> @@ 1 :> <<2, Num(channel)>> @@ 3 :> <<4, size>>

NewWriter(m, cap) ==
  LET row     == Encoders[m]
      channel == IF m \in DOMAIN ConnectionEncoders THEN 0 ELSE 1
      size    == IF row.dynamic THEN Zero ELSE Num(cap - 8)
  IN [ dynamic |-> row.dynamic, cap |-> cap, open |-> <<>>,
       offset  |-> IF m = "publish_header" THEN 21 ELSE 11,
       cells   |-> IF m = "publish_header"
                   THEN Header7(2, channel, size) @@ 7 :> <<2, Num(row.id)>> @@ 9 :> <<2, Zero>>
                        @@ 11 :> <<8, Num(5)>> @@ 19 :> <<2, Zero>>
                   ELSE Header7(1, channel, size) @@ 7 :> <<4, Num(row.id)>> ]

\* the size of the buffer: the lengths of the texts and FRAME_CONST.frame_min_size for a table
Capacity(m, tokens) ==
  LET grows(token) == CASE token.op.field \in Range(Encoders[m].lens) -> token.a[1]
                        [] token.op.field \in Range(Encoders[m].tabs) ->
                             IF Tables[token.a[1]] = <<>> THEN 0 ELSE 4096
                        [] OTHER -> 0
  IN FoldLeft(LAMBDA sum, token : sum + grows(token), Encoders[m].size, tokens)

\* what a call may be given: usual values, but for one field any value
ValuesOf(op) ==
  CASE op.kind = "skip"                -> {<<>>}
    [] op.kind = "boolean"             -> {Zero, Num(1)}
    [] op.kind = "flags"               -> [DOMAIN op.names -> {0, 1}]
    [] op.kind = "table"               -> {<<i>> : i \in DOMAIN Tables}
    [] op.kind = "timestamp"           -> Dates
    [] op.kind \in DOMAIN LengthWidth  -> Texts
    [] OTHER                           -> Numbers

UsualOf(op) ==
  CASE op.kind = "skip"                -> <<>>
    [] op.kind = "flags"               -> [i \in DOMAIN op.names |-> 0]
    [] op.kind = "table"               -> <<1>>
    [] op.kind \in DOMAIN LengthWidth  -> Usual
    [] OTHER                           -> Num(1)

\* a caller may leave out properties: all of them, all but one, or give one or all
Presents(m) ==
  LET all == DOMAIN Encoders[m].ops
  IN IF m # "publish_header" THEN {all}
     ELSE {{}, all} \cup {{i} : i \in all} \cup {all \ {i} : i \in all}

Begin(m, origin, present, odd, value) ==
  LET ops    == Encoders[m].ops
      tokenOf == [i \in present |-> Token(ops[i], <<>>, IF i = odd THEN value ELSE UsualOf(ops[i]))]
      tokens == [n \in 1..Cardinality(present) |->
                   tokenOf[CHOOSE i \in present : Cardinality({j \in present : j <= i}) = n]]
  IN /\ phase = "idle"
     /\ origin = "server" => value \in ServerTables
     /\ call' = [method |-> m, origin |-> origin]
     /\ phase' = IF m = "publish_header" /\ tokens = <<>> THEN "dropped" ELSE "writing"
     /\ todo' = tokens
     /\ writer' = NewWriter(m, Capacity(m, tokens))
     /\ UNCHANGED <<given, reader, taken>>

Refuse == phase' = "refused" /\ UNCHANGED <<call, todo, writer, given, reader, taken>>

\* mutant: the first bit is the second of the flag
FlagOfShifted(bits) == FoldLeft(LAMBDA sum, i : sum + bits[i] * 2 ^ i, 0, [i \in DOMAIN bits |-> i])

\* the value of a flag and the place of a property in the flag of the header
FlagOf(bits) == FoldLeft(LAMBDA sum, i : sum + bits[i] * 2 ^ (i - 1), 0, [i \in DOMAIN bits |-> i])

Masked(w, mask) ==
  IF mask = 0 THEN w ELSE [w EXCEPT !.cells[19] = <<2, Num(Value(@[2]) + mask)>>]

PutOp(w, op, a) ==
  CASE op.kind = "skip"  -> Put(w, <<<<op.size, Zero>>>>)
    [] op.kind = "flags" -> Put(w, Parts("uint8", Num(FlagOf(a))))
    [] OTHER             -> Put(w, Parts(op.kind, a))

Written(token) == given' = Append(given, token)

\* a field of the method: its asserts, then its bytes
WriteField ==
  LET token == Head(todo)
      op    == token.op
  IN /\ phase = "writing" /\ todo # <<>> /\ writer.open = <<>>
     /\ IF ~ Passes(op, token.a) \/ ~ Fits(op.kind, token.a) THEN Refuse
        ELSE /\ IF op.kind = "table"
                THEN /\ todo' = Tables[token.a[1]] \o <<End>> \o Tail(todo)
                     /\ writer' = Masked(Open(writer), op.mask)
                     /\ Written(Token(op, <<>>, <<>>))
                ELSE /\ todo' = Tail(todo)
                     /\ writer' = Masked(PutOp(writer, op, token.a), op.mask)
                     /\ Written(token)
             /\ UNCHANGED <<phase, call, reader, taken>>

\* an item: its key if it is in a table, its char, its value
Refused(token) ==
  \/ token.key # <<>> /\ token.key[4] = 0
  \/ token.op.kind = "undefined"

WriteItem ==
  LET token == Head(todo)
      keyed == IF token.key = <<>> THEN writer ELSE Put(writer, Parts("shortstr", token.key))
  IN /\ phase = "writing" /\ todo # <<>> /\ writer.open # <<>> /\ token.op.kind # "end"
     /\ IF Refused(token) THEN Refuse
        ELSE \E c \in Chars(token) :
               LET chared == Put(keyed, Parts("uint8", Num(c)))
               IN IF ~ Fits(CHAR_METHODS[c], token.a) THEN Refuse
                  ELSE /\ writer' = IF token.op.kind \in {"table", "array"} THEN Open(chared)
                                    ELSE Put(chared, Parts(CHAR_METHODS[c], token.a))
                       /\ todo' = Tail(todo)
                       /\ Written(token)
                       /\ UNCHANGED <<phase, call, reader, taken>>

\* the length of a table goes where it was left out, if the buffer reaches that far
OutOfBuffer == Last(writer.open) + 4 > writer.cap

WriteEnd ==
  /\ phase = "writing" /\ todo # <<>> /\ Head(todo).op.kind = "end"
  /\ IF OutOfBuffer THEN Refuse
     ELSE /\ LET at == Last(writer.open)
             IN writer' = [writer EXCEPT !.open = Front(@),
                             !.cells = at :> <<4, Num(writer.offset - (at + 4))>> @@ @]
          /\ todo' = Tail(todo)
          /\ Written(End)
          /\ UNCHANGED <<phase, call, reader, taken>>

\* frameend and setframelength, then writeSocket
WriteFrameEnd ==
  /\ phase = "writing" /\ todo = <<>>
  /\ phase' = "sent"
  /\ LET ended == Put(writer, Parts("uint8", Num(206)))
     IN writer' = IF writer.dynamic THEN [ended EXCEPT !.cells[3] = <<4, Num(ended.offset - 8)>>]
                  ELSE ended
  /\ UNCHANGED <<call, todo, given, reader, taken>>

-----------------------------------------------------------------------------
(* The decoder.                                                            *)

\* the calls of the decoder that the id, or the flag of the header, selects
StartReading ==
  LET header == At(0, 1) = Num(2)
      id     == IF header THEN At(7, 2) ELSE At(7, 4)
      ops    == (CHOOSE row \in Range(Decoders) : Num(row.id) = id).ops
      flag   == Value(At(19, 2))
      there  == SelectSeq(ops, LAMBDA op : ~ header \/ (flag \div op.mask) % 2 = 1)
  IN /\ phase = "sent"
     /\ phase' = "reading"
     /\ todo' = [i \in DOMAIN there |-> Token(there[i], <<>>, <<>>)]
     /\ reader' = [offset |-> IF header THEN 21 ELSE 11, ends |-> <<>>]
     /\ UNCHANGED <<call, writer, given, taken>>

Unreadable == phase' = "unreadable" /\ UNCHANGED <<call, writer, given, reader, taken>>

Took(tokens, next, ends) ==
  /\ taken' = taken \o tokens
  /\ reader' = [offset |-> next, ends |-> ends]
  /\ UNCHANGED <<phase, call, writer, given>>

\* table and array: empty, or open until the offset where they end
TakeTable(token, offset) ==
  LET len == At(offset, 4)
      end == offset + 4 + Value(len)
  IN CASE len = <<>> -> Unreadable
       [] len = Zero -> Took(<<token, End>>, offset + 4, reader.ends)
       [] OTHER -> IF end > writer.offset THEN Unreadable
                   ELSE Took(<<token>>, offset + 4,
                             Append(reader.ends, [at |-> end, kind |-> token.op.kind]))

BitsOf(op, a) == [i \in DOMAIN op.names |-> (Value(a) \div 2 ^ (i - 1)) % 2]

\* a field of the method; a timestamp is a bigint times a number, which throws
ReadField ==
  LET op  == Head(todo).op
      got == CASE op.kind = "skip"  -> Got(<<>>, reader.offset + op.size)
               [] op.kind = "flags" -> Get("uint8", reader.offset)
               [] OTHER             -> Get(op.kind, reader.offset)
      a   == IF op.kind = "flags" THEN BitsOf(op, got.a) ELSE got.a
  IN /\ phase = "reading" /\ todo # <<>> /\ reader.ends = <<>>
     /\ todo' = Tail(todo)
     /\ CASE op.kind = "table" -> TakeTable(Token(op, <<>>, <<>>), reader.offset)
          [] op.kind = "timestamp" \/ ~ got.ok -> Unreadable
          [] OTHER -> IF Passes(op, a) THEN Took(<<Token(op, <<>>, a)>>, got.next, <<>>)
                      ELSE Unreadable

\* tableitems: a key, a char, the value
ReadItem ==
  LET in     == Last(reader.ends)
      key    == IF in.kind = "table" THEN GetText("shortstr", reader.offset)
                ELSE Got(<<>>, reader.offset)
      char   == GetNumber("uint8", key.next)
      method == CHAR_METHODS[Value(char.a)]
      got    == Get(method, char.next)
      known  == key.ok /\ char.ok /\ Value(char.a) \in DOMAIN CHAR_METHODS
  IN /\ phase = "reading" /\ reader.ends # <<>> /\ reader.offset < in.at
     /\ UNCHANGED todo
     /\ CASE ~ known -> Unreadable
          [] method \in {"table", "array"} -> TakeTable(Item(method, key.a, <<>>), char.next)
          [] method = "timestamp" -> Unreadable
          [] OTHER -> IF got.ok /\ (in.kind = "table" => key.a[4] = 1)
                      THEN Took(<<Item(Reads(method), key.a, got.a)>>, got.next, reader.ends)
                      ELSE Unreadable

ReadEnd ==
  /\ phase = "reading" /\ reader.ends # <<>> /\ reader.offset >= Last(reader.ends).at
  /\ UNCHANGED todo
  /\ IF reader.offset = Last(reader.ends).at THEN Took(<<End>>, reader.offset, Front(reader.ends))
     ELSE Unreadable

ReadAll ==
  /\ phase = "reading" /\ todo = <<>> /\ reader.ends = <<>>
  /\ phase' = "read"
  /\ UNCHANGED <<call, todo, writer, given, reader, taken>>

-----------------------------------------------------------------------------
Init ==
  /\ phase = "idle"
  /\ call = [method |-> "", origin |-> ""]
  /\ todo = <<>> /\ given = <<>> /\ taken = <<>>
  /\ writer = [dynamic |-> FALSE, cap |-> 0, open |-> <<>>, offset |-> 0, cells |-> <<>>]
  /\ reader = [offset |-> 0, ends |-> <<>>]

\* the tables of a server come in the greeting and in the headers of a delivery
ServerMethods == {"connection_start", "publish_header"}

Call ==
  \E m \in DOMAIN Encoders, origin \in {"client", "server"} :
    \E present \in Presents(m) :
      \/ origin = "client" /\ Begin(m, origin, present, 0, <<>>)
      \/ \E odd \in present :
           /\ origin = "server" => m \in ServerMethods /\ Encoders[m].ops[odd].kind = "table"
           /\ \E value \in ValuesOf(Encoders[m].ops[odd]) : Begin(m, origin, present, odd, value)

Next == \/ Call \/ WriteField \/ WriteItem \/ WriteEnd \/ WriteFrameEnd
        \/ StartReading \/ ReadField \/ ReadItem \/ ReadEnd \/ ReadAll

Spec == Init /\ [][Next]_vars

-----------------------------------------------------------------------------
(* Properties.                                                             *)

\* every variable has its type, and no cell lies beyond what was written
TypeOK ==
  /\ phase \in { "idle", "writing", "dropped", "refused", "sent", "reading", "read", "unreadable" }
  /\ call.method \in DOMAIN Encoders \cup {""}
  /\ \A o \in DOMAIN writer.cells : o + writer.cells[o][1] <= writer.offset
  /\ \A i \in DOMAIN writer.open : writer.open[i] \in 0..writer.offset
  /\ reader.offset \in 0..writer.offset

\* no byte is written past the buffer; a frame that reaches the socket has no hole and no
\* overlap and announces its length, and a buffer of a fixed size is full to the last byte: the
\* sizes of api.ts are exact and safewritedynamic always makes room enough
FrameWhole ==
  LET cells   == writer.cells
      next(o) == o + cells[o][1]
  IN /\ \A o \in DOMAIN cells : next(o) <= writer.cap
     /\ phase = "sent" =>
          /\ \A o \in DOMAIN cells : next(o) = writer.offset \/ next(o) \in DOMAIN cells
          /\ \A o \in DOMAIN cells, p \in DOMAIN cells : o < p => next(o) <= p
          /\ Value(cells[3][2]) = writer.offset - 8
          /\ writer.dynamic \/ writer.offset = writer.cap

\* null comes back as undefined, the rest as it was given
AsRead(token) == IF token.op.kind = "null" THEN Item("undefined", token.key, <<>>) ELSE token

IsDate(token) == token.op.kind = "timestamp"

\* what a decoder reads is what the encoder was given, to the last byte of the frame; only a
\* date cannot be read
RoundTrip ==
  /\ \A i \in DOMAIN taken : i \in DOMAIN given /\ taken[i] = AsRead(given[i])
  /\ phase = "read" => Len(taken) = Len(given) /\ reader.offset = writer.offset - 1
  /\ phase = "unreadable" => IsDate(given[Len(taken) + 1])

\* the checks that the protocol states for a field of the call: its own and its domain's
ProtocolChecks(m, op) ==
  IF m = "publish_header" THEN {}
  ELSE UNION {f.assert \cup DOMAINS[f.domain].assert :
                f \in {g \in Range(Methods[m].fields) : g.name = op.field}} \ {"le"}

\* what the protocol cannot carry: a short text over 255 bytes, a value that fails the checks
\* of its field, a date before 1970 or none at all, a key that is no key, no value at all
Illegal(token) ==
  \/ token.op.kind = "shortstr" /\ token.a[1] > 255
  \/ \E check \in ProtocolChecks(call.method, token.op) : ~ Asserts(check, token.op.kind, token.a)
  \/ token.op.kind \in DOMAIN Limit /\ (token.a[1] = 1 \/ ~ Below(token.a, Limit[token.op.kind]))
  \/ IsDate(token) /\ token.a[1] # 0
  \/ token.op.kind = "uint64" /\ token.a[1] # 0
  \/ token.op.kind = "undefined"
  \/ token.key # <<>> /\ token.key[4] = 0

\* a call is refused for a value that the protocol cannot carry, with one exception: the length
\* of an empty table that ends at the end of the buffer; what is sent has no such value
RefusedForCause ==
  /\ phase = "refused" => Illegal(Head(todo)) \/ (Head(todo) = End /\ OutOfBuffer)
  /\ phase = "sent" => \A i \in DOMAIN given : ~ Illegal(given[i])

\* the row of the method that is called, in both tables, is what the generator makes of the
\* protocol, under the id that METHODS gives it
GeneratedTables ==
  phase \in {"writing", "dropped"} /\ given = <<>> =>
    LET m == call.method
    IN /\ Generate(m) = Encoders[m]
       /\ Decoder(Generate(m).id, Generate(m).ops) = Decoders[m]
       /\ METHODS[IF m = "publish_header" THEN "basic_properties" ELSE m] = Encoders[m].id
=============================================================================
