---------------------------- MODULE DecodeStream ----------------------------
(***************************************************************************)
(* Cutting the byte stream of the socket into frames: DecodeStream._writev *)
(* Async, _init and _decode (src/lib/channel.ts).                          *)
(*                                                                         *)
(* A stream is given by the offsets at which its frames start.  What is in *)
(* a frame does not matter here, except that only an aligned reader can    *)
(* tell its size.  The socket hands over the bytes in pieces of any size   *)
(* that ends in Splits; the stream keeps the bytes it has not used in      *)
(* `cache' for the next piece.                                             *)
(***************************************************************************)
EXTENDS Integers

CONSTANTS
    Frames,      \* number of frames the peer sends
    Streams,     \* the streams: start[k] is the offset of frame k, counted from 0
    Headers,     \* those of them that are a protocol header and nothing else,
                 \* as a peer sends that does not speak the version
    Splits       \* Splits[start]: the offsets at which a piece may end

EmptyFrameSize == 8     \* EMPTY_FRAME_SIZE: type, channel, size and end marker

ASSUME DecodeStreamAssumption ==
    /\ Frames \in Nat \ {0}
    /\ \A start \in Streams :
          /\ start \in [0..Frames -> Nat]
          /\ start[0] = 0
          /\ \A j, k \in 0..Frames : j < k => start[j] + EmptyFrameSize <= start[k]
          \* The first frame of a peer is connection.start.
          /\ start \notin Headers => start[1] > EmptyFrameSize
    /\ Headers \subseteq Streams
    /\ Splits \in [Streams -> SUBSET Nat]

VARIABLES
    start,      \* the stream; it never changes
    arrived,    \* bytes handed to _writevAsync so far
    cached,     \* length of `cache': the last bytes that arrived
    first,      \* `decode' is still _init
    handed,     \* frames handed to the channels
    status      \* reading; rejected: taken for a protocol header;
                \* misaligned: the next byte is not the start of a frame;
                \* failed: an exception ended the stream

vars == <<start, arrived, cached, first, handed, status>>

Init ==
    /\ start \in Streams
    /\ arrived = 0 /\ cached = 0 /\ handed = 0
    /\ first = TRUE
    /\ status = "reading"

-----------------------------------------------------------------------------
\* Where a reader at the end of `arrived + n' bytes finds the last frame start.
LastStart(n, k) ==
    /\ start[k] <= arrived + n
    /\ k # Frames => start[k + 1] > arrived + n

\* A new piece of n bytes.
Piece(n) == arrived + n \in Splits[start] /\ arrived' = arrived + n /\ UNCHANGED start

\* Mutant: the cache is replaced, not extended.
WriteShortReplaces(n) ==
    /\ status = "reading"
    /\ Piece(n)
    /\ cached + n < EmptyFrameSize
    /\ cached' = n
    /\ UNCHANGED <<first, handed, status>>

\* Mutant: <= instead of <: a whole empty frame is cached as well.
WriteShortOrEmpty(n) ==
    /\ status = "reading"
    /\ Piece(n)
    /\ cached + n <= EmptyFrameSize
    /\ cached' = cached + n
    /\ UNCHANGED <<first, handed, status>>

\* Less than an empty frame, together with the cache: all of it is cached.
WriteShort(n) ==
    /\ status = "reading"
    /\ Piece(n)
    /\ cached + n < EmptyFrameSize
    /\ cached' = cached + n
    /\ UNCHANGED <<first, handed, status>>

\* The first buffer is taken for a protocol header.
HeaderSize(size) == size = EmptyFrameSize

\* _init takes a first buffer of exactly eight bytes for a protocol header.
WriteRejected(n) ==
    /\ status = "reading"
    /\ Piece(n)
    /\ first /\ HeaderSize(cached + n)
    /\ status' = "rejected"
    /\ cached' = 0
    /\ UNCHANGED <<first, handed>>

\* Mutant: seven bytes, a frame header without its end, are not cached.
Kept(unread) == unread < EmptyFrameSize - 1

\* unread < EMPTY_FRAME_SIZE
Cached(unread) == unread < EmptyFrameSize

\* The loop of _decode hands over the complete frames.  It ends at a frame
\* start; less than an empty frame beyond it is cached, but the start of a
\* frame that has eight bytes or more is not: they are dropped.
WriteDecode(n) ==
    /\ status = "reading"
    /\ Piece(n)
    /\ cached + n >= EmptyFrameSize
    /\ ~(first /\ HeaderSize(cached + n))
    /\ first' = FALSE
    /\ \E k \in 0..Frames :
          /\ LastStart(n, k)
          /\ handed' = k
          /\ LET unread == arrived + n - start[k]
             IN  IF Cached(unread)
                 THEN cached' = unread /\ status' = status
                 ELSE cached' = 0 /\ status' = "misaligned"

\* Frame fields are read from the middle of a frame: the reader waits for a
\* frame end that does not come, or finds an illegal value.
WriteGarbage(n) ==
    /\ status = "misaligned"
    /\ Piece(n)
    /\ status' \in {"misaligned", "failed"}
    /\ UNCHANGED <<cached, first, handed>>

Total(s) == IF s \in Headers THEN EmptyFrameSize ELSE s[Frames]

Next == \E n \in 1..(Total(start) - arrived) :
            WriteShort(n) \/ WriteRejected(n) \/ WriteDecode(n) \/ WriteGarbage(n)

Spec == Init /\ [][Next]_vars

-----------------------------------------------------------------------------
(* Pieces that end at most seven bytes beyond the start of a frame: what   *)
(* the decoder copes with.                                                 *)
KindSplits(s) == {x \in Nat : \E k \in 0..Frames : s[k] <= x /\ x < s[k] + EmptyFrameSize}

-----------------------------------------------------------------------------
TypeOK ==
    /\ start \in Streams
    /\ arrived \in 0..Total(start)
    /\ cached \in 0..(EmptyFrameSize - 1)
    /\ first \in BOOLEAN
    /\ handed \in 0..Frames
    /\ status \in {"reading", "rejected", "misaligned", "failed"}

(* Every frame whose last byte arrived was handed over, in order and once, *)
(* and every byte after it is in the cache: the frames are never waiting   *)
(* behind data that is already there, and no byte is lost.                 *)
FramesHandedOver ==
    status = "reading" => LastStart(0, handed) /\ cached = arrived - start[handed]

(* The stream stays aligned: no byte of a frame is dropped, so every       *)
(* message the peer sends can be read as a stream of its parts.            *)
StaysAligned == status \notin {"misaligned", "failed"}

(* Only a peer that answers with a protocol header is taken for one, and   *)
(* such a peer is always found out, in however many pieces it answers.     *)
RejectedIsHeader ==
    /\ status = "rejected" => start \in Headers
    /\ start \in Headers /\ arrived = EmptyFrameSize => status = "rejected"
=============================================================================
