------------------------------- MODULE MCWire -------------------------------
(* Texts, numbers and tables at the boundaries of the checks and of the buffers. *)
EXTENDS Wire

Text(bytes, chars) == <<bytes, chars, 1, 1>>
MCTexts == { Empty, Usual, Text(127, 127), Text(128, 128), Text(255, 255), Text(256, 256),
             <<200, 100, 0, 0>>, <<300, 100, 0, 0>>, <<5000, 5000, 1, 0>> }

Neg(n) == <<1, n \div 65536, n % 65536>>
MCNumbers == { Zero, Num(255), Num(256), Num(65535), Num(65536), <<0, 65535, 65535>>,
               <<0, 65536, 0>>, Neg(1) }
MCDates == { Zero, Num(100000), Neg(1), <<2, 0, 0>> }

Key      == <<3, 3, 1, 1>>
LongKey  == <<128, 128, 1, 1>>
BadKey   == <<4, 4, 0, 0>>
Of(kind, a) == Item(kind, Key, a)
In(kind, a) == Item(kind, <<>>, a)

\* whole numbers at the thresholds of tableitem, and one with a fraction
Thresholds ==
  << In("number", Zero), In("number", Num(255)), In("number", Num(256)), In("number", Num(65535)),
     In("number", Num(65536)), In("number", <<0, 65535, 65535>>), In("number", <<0, 65536, 0>>),
     In("number", Neg(128)), In("number", Neg(129)), In("number", Neg(32768)),
     In("number", Neg(32769)), In("number", <<1, 32768, 0>>), In("number", <<1, 32768, 1>>),
     In("number", <<0, 0, 1, 5>>) >>

\* a text that leaves room for the char of an empty table but not for its length, or just does
Corner(bytes) == << Of("longstr", Text(bytes, bytes)), Of("table", <<>>), End >>

MCTables ==
  << <<>>,
     << Of("number", Num(7)), Of("longstr", Usual), Of("boolean", Num(1)), Of("boolean", Zero) >>,
     << Of("table", <<>>), Of("null", <<>>), End, Of("table", <<>>), End,
        Of("array", <<>>), In("array", <<>>), End, In("table", <<>>), Of("bigint", Num(9)), End, End >>,
     << Of("array", <<>>) >> \o Thresholds \o << End >>,
     << Item("number", BadKey, Zero) >>,
     << Of("number", Zero), Of("undefined", <<>>) >>,
     << Of("number", Zero), Of("timestamp", Num(100000)), Of("number", Zero) >>,
     << Of("timestamp", <<2, 0, 0>>) >>,
     << Of("binary", Empty), Of("binary", Usual), Of("longstr", Empty), Of("bigint", Neg(1)) >>,
     << Of("longstr", Text(4100, 4100)), Item("longstr", LongKey, Text(2000, 2000)), Of("null", <<>>) >>,
     Corner(4079), Corner(4080), Corner(4083), Corner(4084),
     << Of("number", Num(5)), Of("number", Neg(5)) >>,
     << Of("array", <<>>), In("bigint", Num(9)), In("number", <<0, 65535, 65535>>), End, Of("boolean", Num(1)) >> >>
MCServerTables == {<<2>>, <<15>>, <<16>>}
=============================================================================
