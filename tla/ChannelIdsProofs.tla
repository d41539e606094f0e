-------------------------- MODULE ChannelIdsProofs --------------------------
(***************************************************************************)
(* Channel numbers below ten are handed out correctly: for every           *)
(* channel_max up to 9, until a second destroy robs a live channel of its  *)
(* number, no two live channels share a number and the map holds exactly   *)
(* the live channels.  The hypothesis is needed: TLC refutes OpensAreNew   *)
(* for channel_max 12 where nothing is destroyed twice (ChannelIdsTen.cfg).*)
(***************************************************************************)
EXTENDS ChannelIds, FiniteSetTheorems, TLAPS

(* What is assumed beyond ChannelIdsAssumption. *)
Hypothesis == ChannelMax <= 9

\* `live' is the characteristic function of the map.
Characteristic == live = [n \in Numbers |-> IF n \in channels THEN 1 ELSE 0]

\* The inductive invariant: what is true in any case, and what is true until
\* a live channel is taken off the map.
Inv ==
    /\ TypeOK
    /\ RegisteredIsLive
    /\ ~robbed => Characteristic
    /\ ~robbed => (destroyed => channels = {})

-----------------------------------------------------------------------------
(* A nonempty set of one-digit numbers has a greatest element. *)
LEMMA DigitMax ==
    ASSUME NEW S \in SUBSET (1..9), S # {}
    PROVE  \E x \in S : \A y \in S : y <= x
<1>1. S \subseteq 1..3 => \E x \in S : \A y \in S : y <= x
  <2>1. CASE 3 \in S
    BY <2>1
  <2>2. CASE 3 \notin S /\ 2 \in S
    BY <2>2
  <2>3. CASE 3 \notin S /\ 2 \notin S
    <3> SUFFICES ASSUME S \subseteq 1..3
                 PROVE  \E x \in S : \A y \in S : y <= x
      OBVIOUS
    <3>1. \A y \in S : y = 1
      BY <2>3
    <3>2. PICK x \in S : TRUE
      OBVIOUS
    <3> QED
      BY <3>1, <3>2
  <2> QED
    BY <2>1, <2>2, <2>3
<1>2. S \subseteq 1..6 => \E x \in S : \A y \in S : y <= x
  <2>1. CASE 6 \in S
    BY <2>1
  <2>2. CASE 6 \notin S /\ 5 \in S
    BY <2>2
  <2>3. CASE 6 \notin S /\ 5 \notin S /\ 4 \in S
    BY <2>3
  <2>4. CASE 6 \notin S /\ 5 \notin S /\ 4 \notin S
    BY <1>1, <2>4
  <2> QED
    BY <2>1, <2>2, <2>3, <2>4
<1>3. CASE 9 \in S
  BY <1>3
<1>4. CASE 9 \notin S /\ 8 \in S
  BY <1>4
<1>5. CASE 9 \notin S /\ 8 \notin S /\ 7 \in S
  BY <1>5
<1>6. CASE 9 \notin S /\ 8 \notin S /\ 7 \notin S
  BY <1>2, <1>6
<1> QED
  BY <1>3, <1>4, <1>5, <1>6

(* The last key of the sorted map is its greatest one-digit number. *)
LEMMA LastIdIsMax ==
    ASSUME channels \in SUBSET (1..9), channels # {}
    PROVE  LastId \in channels /\ \A m \in channels : m <= LastId
<1>1. \A n \in 1..9 : Padded(n) = n * 10000
  BY DEF Padded
<1>2. \A m, n \in 1..9 : StringBefore(m, n) <=> m < n
  BY <1>1 DEF StringBefore
<1>3. PICK x \in channels : \A y \in channels : y <= x
  BY DigitMax
<1>4. \A m \in channels \ {x} : StringBefore(m, x)
  BY <1>2, <1>3
<1>5. /\ LastId \in channels
      /\ \A m \in channels \ {LastId} : StringBefore(m, LastId)
  BY <1>4 DEF LastId
<1> QED
  BY <1>2, <1>5

(* The size of an interval that starts at 1. *)
LEMMA IntervalSize ==
    ASSUME NEW n \in Nat
    PROVE  IsFiniteSet(1..n) /\ Cardinality(1..n) = n
<1>1. 1 \in Int /\ n \in Int
  OBVIOUS
<1>2. IsFiniteSet(1..n) /\ Cardinality(1..n) = IF 1 > n THEN 0 ELSE n - 1 + 1
  BY <1>1, FS_Interval, Zenon
<1> QED
  BY <1>2

(* The number channel_open picks is free and within the limit. *)
LEMMA NextIdIsFree ==
    ASSUME ChannelMax <= 9, channels \in SUBSET Numbers,
           Cardinality(channels) # ChannelMax
    PROVE  NextId \in Numbers /\ NextId \notin channels
<1>1. ChannelMax \in Nat /\ Numbers = 1..ChannelMax
  BY ChannelIdsAssumption DEF ChannelIdsAssumption, Numbers
<1>2. IsFiniteSet(channels) /\ Cardinality(channels) <= ChannelMax
  <2>1. IsFiniteSet(Numbers) /\ Cardinality(Numbers) = ChannelMax
    BY <1>1, IntervalSize, Zenon
  <2> QED
    BY <2>1, FS_Subset, Zenon
<1>3. Cardinality(channels) \in Nat
  BY <1>2, FS_CardinalityType, Zenon
<1>4. CASE channels = {}
  <2>1. NextId = 1
    BY <1>4 DEF NextId
  <2>2. Cardinality(channels) = 0
    BY <1>4, FS_EmptySet, Zenon
  <2> QED
    BY <1>1, <1>4, <2>1, <2>2
<1>5. CASE channels # {}
  <2> DEFINE L == LastId
             F == FreeBelow(L)
  <2>1. L \in channels /\ \A m \in channels : m <= L
    BY <1>1, <1>5, LastIdIsMax
  <2>2. L \in 1..ChannelMax
    BY <1>1, <2>1
  <2>3. CASE L > Cardinality(channels)
    <3>1. F # {}
      <4> SUFFICES ASSUME F = {} PROVE FALSE
        OBVIOUS
      <4>1. 1..(L - 1) \subseteq channels
        BY DEF FreeBelow
      <4>2. 1..L \subseteq channels
        BY <2>1, <2>2, <4>1
      <4>3. Cardinality(1..L) = L
        BY <2>2, IntervalSize
      <4>4. Cardinality(1..L) <= Cardinality(channels)
        BY <4>2, <1>2, FS_Subset, Zenon
      <4> QED
        BY <4>3, <4>4, <2>3, <2>2, <1>3
    <3>2. F \in SUBSET (1..9)
      BY <1>1, <2>2 DEF FreeBelow
    <3>3. \E x \in F : \A y \in F : y <= x
      BY <3>1, <3>2, DigitMax, Zenon
    <3>4. Max(F) \in F
      <4>1. \E x \in F : \A y \in F : x >= y
        BY <3>2, <3>3
      <4> QED
        BY <4>1, Zenon DEF Max
    <3>5. NextId = Max(F)
      BY <1>5, <2>3, <3>1 DEF NextId
    <3>6. Max(F) \in 1..(L - 1) /\ Max(F) \notin channels
      BY <3>4 DEF FreeBelow
    <3> QED
      BY <3>5, <3>6, <2>2, <1>1
  <2>4. CASE ~(L > Cardinality(channels))
    <3>1. NextId = L + 1
      BY <1>5, <2>4 DEF NextId
    <3> HIDE DEF L
    <3>2. L + 1 \in 1..ChannelMax
      BY <1>1, <1>2, <1>3, <2>2, <2>4
    <3>3. L + 1 \notin channels
      BY <2>1, <2>2
    <3> QED
      BY <1>1, <3>1, <3>2, <3>3
  <2> QED
    BY <2>3, <2>4
<1> QED
  BY <1>4, <1>5

-----------------------------------------------------------------------------
LEMMA InvInit == ASSUME Init PROVE Inv
<1>1. 0 \in 0..MaxLive
  BY ChannelIdsAssumption DEF ChannelIdsAssumption
<1> QED
  BY <1>1 DEF Init, Inv, TypeOK, RegisteredIsLive, Characteristic

(* Every step keeps the types, and never leaves a dead number in the map.  *)
LEMMA RegisteredNext ==
    ASSUME Hypothesis, TypeOK, RegisteredIsLive, [Next]_vars
    PROVE  TypeOK' /\ RegisteredIsLive'
<1> USE DEF TypeOK, RegisteredIsLive
<1>0. MaxLive \in Nat /\ \A n \in Numbers : live[n] \in 0..MaxLive
  BY ChannelIdsAssumption DEF ChannelIdsAssumption
<1>1. CASE Opened
  BY <1>1 DEF Opened
<1>2. CASE \E b \in BOOLEAN : Blocked(b)
  BY <1>2 DEF Blocked
<1>3. CASE ChannelOpen
  <2>1. NextId \in Numbers /\ live[NextId] < MaxLive
    BY <1>3, NextIdIsFree DEF ChannelOpen, Hypothesis
  <2> HIDE DEF NextId
  <2>2. /\ channels' = channels \cup {NextId}
        /\ live' = [live EXCEPT ![NextId] = live[NextId] + 1]
        /\ UNCHANGED <<spent, opened, blocked, destroyed, robbed>>
    BY <1>3 DEF ChannelOpen
  <2>3. live[NextId] + 1 \in 0..MaxLive /\ live[NextId] + 1 > 0
    BY <1>0, <2>1
  <2> QED
    BY <2>1, <2>2, <2>3
<1>4. CASE \E n \in Numbers : Destroy(n)
  <2>1. PICK n \in Numbers : Destroy(n)
    BY <1>4
  <2>2. /\ live' = [live EXCEPT ![n] = live[n] - 1]
        /\ channels' = channels \ {n}
        /\ spent' \subseteq Numbers
        /\ UNCHANGED <<opened, blocked, destroyed, robbed>>
    BY <2>1 DEF Destroy
  <2>3. live[n] - 1 \in 0..MaxLive
    BY <1>0, <2>1 DEF Destroy
  <2> QED
    BY <2>1, <2>2, <2>3
<1>5. CASE \E n \in Numbers : DestroyAgain(n)
  BY <1>5 DEF DestroyAgain
<1>6. CASE DestroyConnection
  <2>1. \A n \in Numbers :
          (IF n \in channels THEN live[n] - 1 ELSE live[n]) \in 0..MaxLive
    BY <1>0
  <2> QED
    BY <1>6, <2>1 DEF DestroyConnection
<1>7. CASE UNCHANGED vars
  BY <1>7 DEF vars
<1> QED
  BY <1>1, <1>2, <1>3, <1>4, <1>5, <1>6, <1>7 DEF Next

(* A step that robs nobody keeps the map exact. *)
LEMMA ExactNext ==
    ASSUME Hypothesis, TypeOK, ~robbed, Characteristic,
           destroyed => channels = {}, [Next]_vars
    PROVE  robbed' \/ (Characteristic' /\ (destroyed' => channels' = {}))
<1> USE DEF Characteristic
<1>0. channels \subseteq Numbers
  BY DEF TypeOK
<1>1. CASE Opened
  BY <1>1 DEF Opened
<1>2. CASE \E b \in BOOLEAN : Blocked(b)
  BY <1>2 DEF Blocked
<1>3. CASE ChannelOpen
  <2>1. NextId \in Numbers /\ NextId \notin channels
    BY <1>0, <1>3, NextIdIsFree DEF ChannelOpen, Hypothesis
  <2> HIDE DEF NextId
  <2>2. live' = [live EXCEPT ![NextId] = 1]
    BY <1>3, <2>1 DEF ChannelOpen
  <2>3. channels' = channels \cup {NextId} /\ ~destroyed'
    BY <1>3 DEF ChannelOpen
  <2> QED
    BY <1>0, <2>1, <2>2, <2>3
<1>4. CASE \E n \in Numbers : Destroy(n)
  <2>1. PICK n \in Numbers : Destroy(n)
    BY <1>4
  <2>2. live[n] - 1 = 0
    BY <2>1 DEF Destroy
  <2>3. live' = [live EXCEPT ![n] = live[n] - 1]
    BY <2>1, Zenon DEF Destroy
  <2>4. channels' = channels \ {n} /\ destroyed' = destroyed
    BY <2>1 DEF Destroy
  <2> QED
    BY <1>0, <2>1, <2>2, <2>3, <2>4
<1>5. CASE \E n \in Numbers : DestroyAgain(n)
  <2>1. PICK n \in Numbers : DestroyAgain(n)
    BY <1>5
  <2>2. CASE n \in channels
    BY <2>1, <2>2 DEF DestroyAgain
  <2>3. CASE n \notin channels
    BY <2>1, <2>3 DEF DestroyAgain
  <2> QED
    BY <2>2, <2>3
<1>6. CASE DestroyConnection
  <2>1. live' = [n \in Numbers |-> 0] /\ channels' = {}
    BY <1>6 DEF DestroyConnection
  <2> QED
    BY <2>1
<1>7. CASE UNCHANGED vars
  BY <1>7 DEF vars
<1> QED
  BY <1>1, <1>2, <1>3, <1>4, <1>5, <1>6, <1>7 DEF Next

LEMMA InvNext ==
    ASSUME Hypothesis, Inv, [Next]_vars PROVE Inv'
<1>1. TypeOK' /\ RegisteredIsLive'
  BY RegisteredNext DEF Inv
<1>2. robbed => robbed'
  BY DEF Next, vars, Inv, Opened, Blocked, ChannelOpen, Destroy, DestroyAgain,
         DestroyConnection
<1>3. robbed' \/ (Characteristic' /\ (destroyed' => channels' = {}))
  BY <1>2, ExactNext DEF Inv
<1> QED
  BY <1>1, <1>3 DEF Inv

LEMMA InvAlways == ASSUME Hypothesis PROVE Spec => []Inv
<1>1. Init => Inv
  BY InvInit, ChannelIdsAssumption
<1>2. Inv /\ [Next]_vars => Inv'
  BY InvNext, ChannelIdsAssumption, Hypothesis
<1> QED
  BY <1>1, <1>2, PTL DEF Spec

(* The variables stay in their types. *)
THEOREM ChannelIdsTypeOK ==
    ASSUME Hypothesis PROVE Spec => []TypeOK
<1>1. Inv => TypeOK
  BY DEF Inv
<1> QED
  BY <1>1, InvAlways, PTL

(* With channel_max up to 9, channel_open never gives the number of a live *)
(* channel to a new one, until a second destroy of an old object has taken *)
(* a live channel off the map.                                             *)
THEOREM ChannelNumbersExclusive ==
    ASSUME Hypothesis PROVE Spec => []Exclusive
<1>1. Inv => Exclusive
  BY DEF Inv, Exclusive, OpensAreNew, Characteristic
<1> QED
  BY <1>1, InvAlways, PTL

(* Until such a second destroy the map holds every live channel, so that   *)
(* the frames for it are handed to it, and the destroyed connection leaves *)
(* none alive.                                                             *)
THEOREM MapHoldsLiveChannels ==
    ASSUME Hypothesis
    PROVE  Spec => []LiveIsReachable
<1>1. Inv => LiveIsReachable
  BY DEF Inv, LiveIsReachable, Characteristic
<1> QED
  BY <1>1, InvAlways, PTL

(* The map never holds a number whose channels are all destroyed, also     *)
(* after second destroys: no frame goes to a dead channel and no number    *)
(* leaks.                                                                  *)
THEOREM MapHoldsNoDead ==
    ASSUME Hypothesis
    PROVE  Spec => []RegisteredIsLive
<1>1. Inv => RegisteredIsLive
  BY DEF Inv
<1> QED
  BY <1>1, InvAlways, PTL

(* In every state, also after second destroys: while the map is not full   *)
(* the number channel_open picks (channel.ts:584-599) is within the limit  *)
(* and not in the map, so that no channel object in the map is ever        *)
(* replaced by another and a refusal for want of numbers is true.          *)
PickIsFree == Cardinality(channels) # ChannelMax =>
                  NextId \in Numbers \ channels

THEOREM NumbersGivenAreFree ==
    ASSUME Hypothesis PROVE Spec => []PickIsFree
<1>1. Inv => PickIsFree
  BY NextIdIsFree DEF Inv, TypeOK, PickIsFree, Hypothesis
<1> QED
  BY <1>1, InvAlways, PTL
=============================================================================
