--------------------------- MODULE MCDecodeStream ---------------------------
(* Streams of four frames of every mix of an empty frame (8 bytes), the    *)
(* least method frame (12) and one between them, after a first frame that  *)
(* is longer than eight bytes; and streams that are a protocol header.     *)
EXTENDS DecodeStream

MCFrames == 4

MCStreams ==
    {[k \in 0..MCFrames |-> CASE k = 0 -> 0
                            [] k = 1 -> l1
                            [] k = 2 -> l1 + l2
                            [] k = 3 -> l1 + l2 + l3
                            [] OTHER -> l1 + l2 + l3 + l4] :
        l1 \in {8, 9, 20}, l2, l3, l4 \in {8, 9, 12}}

MCHeaders == {s \in MCStreams : s[1] = 8}

MCKindSplits == [s \in MCStreams |->
                    {x \in 0..s[MCFrames] :
                        \E k \in 0..MCFrames : x \in s[k]..(s[k] + EmptyFrameSize - 1)}]

MCAnySplits == [s \in MCStreams |-> 0..s[MCFrames]]
=============================================================================
