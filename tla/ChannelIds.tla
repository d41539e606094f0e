----------------------------- MODULE ChannelIds -----------------------------
(***************************************************************************)
(* The channel numbers of one Connection (src/lib/channel.ts).             *)
(*                                                                         *)
(* Connection.channels maps a channel number to the channel object that    *)
(* frames of that number are handed to.  channel_open chooses the number   *)
(* of a new object from the keys of the map, which it sorts with           *)
(* Array.prototype.sort(): as STRINGS.  A channel's destroy() deletes its  *)
(* number from the map, whichever object is registered there.              *)
(*                                                                         *)
(* One step is one turn of the event loop (a nextTick callback, or a       *)
(* synchronous destroy).  An open that is refused changes nothing and is   *)
(* not a step.                                                             *)
(***************************************************************************)
EXTENDS Integers, FiniteSets, FiniteSetsExt

CONSTANTS
    ChannelMax,   \* options.channel_max after tuning
    CloseTwice,   \* may a channel object that is destroyed be destroyed again?
    MaxLive       \* bound: live channel objects that share one number

ASSUME ChannelIdsAssumption ==
    /\ ChannelMax \in 0..65535     \* a `short' of the wire format
    /\ CloseTwice \in BOOLEAN
    /\ MaxLive \in Nat \ {0}

VARIABLES
    channels,     \* keys of Connection.channels
    live,         \* live[n]: how many undestroyed channel objects have number n
    spent,        \* numbers of destroyed objects a caller may still hold
    opened, blocked, destroyed,  \* the flags of the Connection
    robbed        \* history: a second destroy took a live channel off the map

vars == <<channels, live, spent, opened, blocked, destroyed, robbed>>

Numbers == 1..ChannelMax

-----------------------------------------------------------------------------
(* Array.prototype.sort() without a comparator compares decimal strings.   *)
(* Padding to five digits makes that a comparison of numbers in which a    *)
(* proper prefix comes first.                                              *)
Padded(n) == IF n < 10 THEN n * 10000
             ELSE IF n < 100 THEN n * 1000
             ELSE IF n < 1000 THEN n * 100
             ELSE IF n < 10000 THEN n * 10
             ELSE n

StringBefore(m, n) == Padded(m) < Padded(n) \/ (Padded(m) = Padded(n) /\ m < n)

\* ids[ids.length - 1] of the sorted keys.
LastId == CHOOSE n \in channels : \A m \in channels \ {n} : StringBefore(m, n)

\* The numbers the downward search `for (i = last_id - 1; i > 0; i--)' may find.
FreeBelow(n) == (1..(n - 1)) \ channels

\* Mutant: >= instead of > in the test for a gap.
NextIdOffByOne ==
    IF channels = {} THEN 1
    ELSE IF LastId >= Cardinality(channels)
         THEN IF FreeBelow(LastId) = {} THEN 1 ELSE Max(FreeBelow(LastId))
         ELSE LastId + 1

\* `let id = 1', and what channel_open makes of it.
NextId ==
    IF channels = {} THEN 1
    ELSE IF LastId > Cardinality(channels)
         THEN IF FreeBelow(LastId) = {} THEN 1 ELSE Max(FreeBelow(LastId))
         ELSE LastId + 1

-----------------------------------------------------------------------------
Init ==
    /\ channels = {}
    /\ live = [n \in Numbers |-> 0]
    /\ spent = {}
    /\ opened = FALSE /\ blocked = FALSE /\ destroyed = FALSE
    /\ robbed = FALSE

\* The last statement of Connection.open: it does not look at `destroyed'.
Opened ==
    /\ ~opened
    /\ opened' = TRUE
    /\ UNCHANGED <<channels, live, spent, blocked, destroyed, robbed>>

\* The connection_blocked and connection_unblocked handlers.
Blocked(b) ==
    /\ ~destroyed
    /\ blocked' = b
    /\ UNCHANGED <<channels, live, spent, opened, destroyed, robbed>>

\* Mutant: the test of `this.destroyed' is missing.
ChannelOpenAnyway ==
    /\ opened /\ ~blocked
    /\ Cardinality(channels) # ChannelMax
    /\ live[NextId] < MaxLive
    /\ channels' = channels \cup {NextId}
    /\ live' = [live EXCEPT ![NextId] = @ + 1]
    /\ UNCHANGED <<spent, opened, blocked, destroyed, robbed>>

\* The nextTick callback of Connection.channel_open, when it does not refuse.
ChannelOpen ==
    /\ opened /\ ~destroyed /\ ~blocked
    /\ Cardinality(channels) # ChannelMax
    /\ live[NextId] < MaxLive
    /\ channels' = channels \cup {NextId}
    /\ live' = [live EXCEPT ![NextId] = @ + 1]
    /\ UNCHANGED <<spent, opened, blocked, destroyed, robbed>>

\* Mutant: the number stays in the map.
DestroyKeepsNumber(n) ==
    /\ live[n] > 0
    /\ live' = [live EXCEPT ![n] = @ - 1]
    /\ spent' = IF CloseTwice THEN spent \cup {n} ELSE spent
    /\ UNCHANGED <<channels, opened, blocked, destroyed, robbed>>

\* ChannelChildAbstract.destroy on a live object of number n.
Destroy(n) ==
    /\ live[n] > 0
    /\ live' = [live EXCEPT ![n] = @ - 1]
    /\ channels' = channels \ {n}
    /\ spent' = IF CloseTwice THEN spent \cup {n} ELSE spent
    /\ UNCHANGED <<opened, blocked, destroyed, robbed>>

\* The same on an object that is already destroyed: there is no guard, so the
\* number is deleted from the map again (close() called twice, or a handler
\* that destroys the channel after its own await).
DestroyAgain(n) ==
    /\ n \in spent
    /\ channels' = channels \ {n}
    /\ robbed' = (robbed \/ n \in channels)
    /\ UNCHANGED <<live, spent, opened, blocked, destroyed>>

\* Mutant: an object is taken off for every number that was ever given.
DestroyConnectionAll ==
    /\ live' = [n \in Numbers |-> live[n] - 1]
    /\ channels' = {}
    /\ spent' = IF CloseTwice THEN spent \cup channels ELSE spent
    /\ destroyed' = TRUE
    /\ UNCHANGED <<opened, blocked, robbed>>

\* Connection.destroy: it destroys the objects it finds in the map.
DestroyConnection ==
    /\ live' = [n \in Numbers |-> IF n \in channels THEN live[n] - 1 ELSE live[n]]
    /\ channels' = {}
    /\ spent' = IF CloseTwice THEN spent \cup channels ELSE spent
    /\ destroyed' = TRUE
    /\ UNCHANGED <<opened, blocked, robbed>>

Next ==
    \/ Opened
    \/ \E b \in BOOLEAN : Blocked(b)
    \/ ChannelOpen
    \/ \E n \in Numbers : Destroy(n) \/ DestroyAgain(n)
    \/ DestroyConnection

Spec == Init /\ [][Next]_vars

-----------------------------------------------------------------------------
TypeOK ==
    /\ channels \subseteq Numbers
    /\ live \in [Numbers -> 0..MaxLive]
    /\ spent \subseteq Numbers
    /\ opened \in BOOLEAN /\ blocked \in BOOLEAN /\ destroyed \in BOOLEAN
    /\ robbed \in BOOLEAN

(* A channel.open frame is never sent for a channel that is open: "The     *)
(* client MUST NOT use this method on an already-opened channel"           *)
(* (src/proto/channel.ts:38).                                              *)
OpensAreNew == \A n \in Numbers : live[n] <= 1

(* Two live channel objects never share a number (channel_open's choice of *)
(* `id', whatever was opened and closed before, in any order), until a     *)
(* second destroy of an old object takes a live one off the map.           *)
Exclusive == robbed \/ OpensAreNew

(* Every live channel object is found under its number, and none is left   *)
(* when the connection is destroyed: the frames the server sends it reach  *)
(* it, and Connection.destroy reaches it too (channels.set in channel_open *)
(* against the channels.delete of destroy).                                *)
LiveIsReachable == robbed \/ \A n \in Numbers : live[n] > 0 => n \in channels /\ ~destroyed

(* The map never holds a number whose objects are all destroyed: no frame  *)
(* is handed to a dead channel, and no number leaks.  This holds even      *)
(* after objects were destroyed twice.                                     *)
RegisteredIsLive == \A n \in channels : live[n] > 0

=============================================================================
