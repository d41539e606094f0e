--------------------------- MODULE RequestsProofs ---------------------------
(***************************************************************************)
(* For any calls, responses and number of destroys: callbacks are exact,   *)
(* every resolved call got the answer to its own request, no answer is     *)
(* fatal, and the specification implements Calls.                          *)
(*                                                                         *)
(* OwnReply is not inductive: handle_method looks at methods and ages      *)
(* only.  What makes it true is that a call's place in the stream orders   *)
(* like its stamp (InOrder) and that, while the channel lives, whatever    *)
(* is still in the stream is pending (StreamPending): the oldest callback  *)
(* under a method then belongs to the answer that is handled.  A call that *)
(* was refused by its encoder and registered before it is gone (Prompt).   *)
(***************************************************************************)
EXTENDS Requests, WellFoundedInduction, TLAPS

Registered(c) == phase[c] \notin {"idle", "scheduled"}

\* An answer or request at p left the client before one at q.
Ahead(p, q) ==
    \/ p \in {"answered", "ticking", "done"} /\ q = "sent"
    \/ p \in {"ticking", "done"} /\ q = "answered"
    \/ p = "done" /\ q = "ticking"

Stamped ==
    /\ \A c \in Calls : ~Registered(c) => net[c] = "none"
    /\ \A c \in Calls : Registered(c) => 1 <= stamp[c] /\ stamp[c] <= clock
    /\ \A c, d \in Calls :
          Registered(c) /\ Registered(d) /\ stamp[c] = stamp[d] => c = d

InOrder == \A c, d \in Calls : Ahead(net[c], net[d]) => stamp[c] < stamp[d]

Answered ==
    /\ \A c \in Calls : net[c] \in {"answered", "ticking", "done"}
                            => answer[c] \in Responses[c]
    /\ \A c \in Calls : answer[c] # None => Registered(c)

SocketState ==
    \A c \in Calls :
        /\ net[c] \in {"sent", "answered", "ticking"} => socketOpen
        /\ net[c] = "lost" => ~socketOpen
        /\ Registered(c) /\ net[c] = "none" => ~socketOpen

StreamPending ==
    ~destroyed => \A c \in Calls :
        /\ net[c] \in {"sent", "answered", "ticking"} => phase[c] = "pending"
        /\ net[c] = "done" => phase[c] = "resolved"

\* A call that is refused is off the lists before an answer to a later one.
Prompt ==
    \A c \in Calls, d \in Refused : net[c] = "ticking" => stamp[c] < stamp[d]

DestroyState ==
    /\ destroyed => destroys > 0
    /\ \A c \in Destroyers : phase[c] # "idle" => destroyed

Inv ==
    /\ TypeOK
    /\ CallbacksExact
    /\ Stamped
    /\ InOrder
    /\ Answered
    /\ SocketState
    /\ StreamPending
    /\ Prompt
    /\ DestroyState
    /\ OwnReply
    /\ CrashByDestroy

-----------------------------------------------------------------------------
LEMMA InvInit == ASSUME Init PROVE Inv
<1> USE RequestsAssumption DEF RequestsAssumption, Init
<1>1. TypeOK
  BY DEF TypeOK
<1>2. CallbacksExact
  BY DEF CallbacksExact, Pending
<1>3. Stamped /\ InOrder /\ Answered /\ SocketState
  BY DEF Stamped, InOrder, Answered, SocketState, Registered, Ahead
<1>4. StreamPending /\ Prompt /\ DestroyState /\ OwnReply /\ CrashByDestroy
  BY DEF StreamPending, Prompt, Refused, Pending, DestroyState, OwnReply, CrashByDestroy, Calls
<1> QED
  BY <1>1, <1>2, <1>3, <1>4 DEF Inv

LEMMA ScheduleInv ==
    ASSUME Inv, NEW c \in Calls, Schedule(c), c \in Destroyers => destroyed
    PROVE  Inv'
<1> USE RequestsAssumption DEF RequestsAssumption, Inv, Schedule, TypeOK
<1>1. TypeOK'
  OBVIOUS
<1>2. CallbacksExact'
  BY DEF CallbacksExact, Pending
<1>3. Stamped'
  BY DEF Stamped, Registered
<1>4. InOrder' /\ Answered' /\ SocketState'
  BY DEF InOrder, Answered, SocketState, Registered, Ahead
<1>5. StreamPending' /\ OwnReply' /\ CrashByDestroy'
  BY DEF StreamPending, OwnReply, CrashByDestroy, Stamped, Registered
<1>6. DestroyState'
  BY DEF DestroyState, Calls
<1>7. Prompt'
  BY DEF Prompt, Refused, Pending, Stamped, Registered
<1> QED
  BY <1>1, <1>2, <1>3, <1>4, <1>5, <1>6, <1>7

LEMMA RegisterInv == ASSUME Inv, NEW c \in Calls, Register(c) PROVE Inv'
<1> USE RequestsAssumption DEF RequestsAssumption, Inv, Register, TypeOK
<1>1. TypeOK'
  BY DEF SentTo
<1>2. CallbacksExact'
  BY DEF CallbacksExact, Pending
<1>3. Stamped'
  BY DEF Stamped, Registered
<1>4. InOrder'
  BY DEF InOrder, Ahead, Stamped, Registered, SentTo
<1>5. Answered' /\ SocketState'
  BY DEF Answered, SocketState, Registered, Stamped, SentTo
<1>6. StreamPending' /\ OwnReply' /\ CrashByDestroy'
  BY DEF StreamPending, OwnReply, CrashByDestroy, SentTo
<1>7. DestroyState'
  BY DEF DestroyState, Calls
<1>8. Prompt'
  BY DEF Prompt, Refused, Pending, Stamped, Registered, SentTo
<1> QED
  BY <1>1, <1>2, <1>3, <1>4, <1>5, <1>6, <1>7, <1>8

(* The write of a request fails, or its encoder has thrown.                *)
LEMMA SendFailsInv ==
    ASSUME Inv, NEW c \in Calls, net[c] \in {"lost", "refused"}, SendFails(c)
    PROVE  Inv'
<1> USE RequestsAssumption DEF RequestsAssumption, Inv, SendFails, TypeOK
<1>1. TypeOK'
  BY DEF Without
<1>2. CallbacksExact'
  BY DEF CallbacksExact, Pending, Without
<1>3. Stamped' /\ InOrder' /\ Answered' /\ SocketState'
  BY DEF Stamped, InOrder, Answered, SocketState, Registered, Ahead
<1>4. StreamPending' /\ OwnReply'
  BY DEF StreamPending, OwnReply
<1>5. CrashByDestroy'
  BY DEF CrashByDestroy, FatalIfRejected, Calls
<1>6. DestroyState'
  BY DEF DestroyState, Calls
<1>7. Prompt'
  BY DEF Prompt, Refused, Pending
<1> QED
  BY <1>1, <1>2, <1>3, <1>4, <1>5, <1>6, <1>7

LEMMA DecodeInv == ASSUME Inv, NEW c \in Calls, Decode(c) PROVE Inv'
<1> USE RequestsAssumption DEF RequestsAssumption, Inv, Decode, TypeOK, FirstOf, InNet
<1>1. TypeOK'
  OBVIOUS
<1>2. CallbacksExact' /\ Stamped'
  BY DEF CallbacksExact, Pending, Stamped, Registered
<1>3. InOrder'
  BY DEF InOrder, Ahead, Stamped, Registered
<1>4. Answered' /\ SocketState' /\ DestroyState'
  BY DEF Answered, SocketState, Registered, DestroyState
<1>5. StreamPending' /\ OwnReply' /\ CrashByDestroy'
  BY DEF StreamPending, OwnReply, CrashByDestroy
<1>6. Prompt'
  BY DEF Prompt, Refused, Pending
<1> QED
  BY <1>1, <1>2, <1>3, <1>4, <1>5, <1>6

LEMMA DroppedInv == ASSUME Inv, NEW c \in Calls, HandleDropped(c) PROVE Inv'
<1> USE RequestsAssumption
    DEF RequestsAssumption, Inv, HandleDropped, TypeOK, FirstOf, InNet
<1>1. TypeOK'
  OBVIOUS
<1>2. CallbacksExact' /\ Stamped'
  BY DEF CallbacksExact, Pending, Stamped, Registered
<1>3. InOrder'
  BY DEF InOrder, Ahead, Stamped, Registered
<1>4. Answered' /\ SocketState' /\ DestroyState'
  BY DEF Answered, SocketState, Registered, DestroyState
<1>5. StreamPending' /\ OwnReply' /\ CrashByDestroy'
  BY DEF StreamPending, OwnReply, CrashByDestroy
<1>6. Prompt'
  BY DEF Prompt, Refused, Pending
<1> QED
  BY <1>1, <1>2, <1>3, <1>4, <1>5, <1>6

(* The oldest callback under the method of an answer on a channel that     *)
(* lives is the callback of the call that is answered.                     *)
LEMMA OldestIsAnswered ==
    ASSUME Inv, ~destroyed, NEW c \in Calls, FirstOf(c, InNet("ticking"))
    PROVE  Oldest(answer[c]) = {c} /\ phase[c] = "pending"
<1> USE RequestsAssumption DEF RequestsAssumption, Inv, TypeOK
<1>1. net[c] = "ticking" /\ answer[c] \in Responses[c] /\ phase[c] = "pending"
  BY DEF FirstOf, InNet, Answered, StreamPending
<1>2. answer[c] \in Methods /\ c \in callbacks[answer[c]]
  BY <1>1 DEF CallbacksExact, Pending
<1>3. ASSUME NEW d \in callbacks[answer[c]]
      PROVE  stamp[c] <= stamp[d]
  <2>1. d \in Calls /\ phase[d] = "pending"
    BY <1>2 DEF CallbacksExact, Pending
  <2>2. net[d] \in {"refused", "sent", "answered", "ticking"}
    BY <1>1, <2>1 DEF StreamPending, SocketState, Registered
  <2>5. CASE net[d] = "refused"
    BY <1>1, <2>1, <2>5 DEF Prompt, Refused, Pending
  <2>3. CASE net[d] = "ticking"
    BY <2>1, <2>3 DEF FirstOf, InNet
  <2>4. CASE net[d] \in {"sent", "answered"}
    BY <1>1, <2>1, <2>2, <2>4 DEF InOrder, Ahead
  <2> QED
    BY <2>2, <2>3, <2>4, <2>5
<1>4. ASSUME NEW d \in callbacks[answer[c]], stamp[d] <= stamp[c]
      PROVE  d = c
  <2>1. d \in Calls /\ phase[d] = "pending"
    BY <1>2 DEF CallbacksExact, Pending
  <2>2. stamp[d] = stamp[c]
    BY <2>1, <1>3, <1>4
  <2> QED
    BY <2>1, <2>2, <1>1 DEF Stamped, Registered
<1> QED
  BY <1>1, <1>2, <1>3, <1>4 DEF Oldest, FirstOf

LEMMA AnswerInv == ASSUME Inv, NEW c \in Calls, HandleAnswer(c) PROVE Inv'
<1> USE RequestsAssumption DEF RequestsAssumption, Inv, TypeOK
<1>1. Oldest(answer[c]) = {c} /\ phase[c] = "pending"
  BY OldestIsAnswered DEF HandleAnswer, Settle
<1>2. /\ ~destroyed
      /\ FirstOf(c, InNet("ticking"))
      /\ net' = [net EXCEPT ![c] = "done"]
      /\ phase' = [phase EXCEPT ![c] = "resolved"]
      /\ got' = [got EXCEPT ![c] = c]
      /\ callbacks' = Without({c})
      /\ crashed' = FALSE
      /\ UNCHANGED <<stamp, clock, answer, resumed, destroyed, closed,
                     socketOpen, destroys>>
  BY <1>1 DEF HandleAnswer, Settle
<1> USE <1>1, <1>2
<1>3. TypeOK'
  BY DEF Without
<1>4. CallbacksExact'
  BY DEF CallbacksExact, Pending, Without
<1>5. Stamped' /\ Answered' /\ SocketState'
  BY DEF Stamped, Answered, SocketState, Registered, FirstOf, InNet
<1>6. InOrder'
  BY DEF InOrder, Ahead, Stamped, Registered, FirstOf, InNet
<1>7. StreamPending' /\ OwnReply' /\ CrashByDestroy'
  BY DEF StreamPending, OwnReply, CrashByDestroy
<1>8. DestroyState'
  BY DEF DestroyState, Calls
<1>9. Prompt'
  BY DEF Prompt, Refused, Pending, FirstOf, InNet
<1> QED
  BY <1>3, <1>4, <1>5, <1>6, <1>7, <1>8, <1>9

(* destroy, whether its call_close makes a call or not. *)
LEMMA DestroyInv ==
    ASSUME Inv, ~crashed, NEW made \in SUBSET Calls,
           \A c \in made : phase[c] = "idle",
           DestroyWith(made),
           closed' \in BOOLEAN, resumed' \subseteq Closers
    PROVE  Inv'
<1> USE RequestsAssumption DEF RequestsAssumption, Inv, DestroyWith, TypeOK
<1>1. TypeOK'
  BY DEF NoCallbacks
<1>2. CallbacksExact'
  BY DEF CallbacksExact, Pending, NoCallbacks
<1>3. Stamped' /\ InOrder' /\ Answered' /\ SocketState'
  BY DEF Stamped, InOrder, Answered, SocketState, Registered, Ahead, Pending
<1>4. StreamPending' /\ OwnReply' /\ DestroyState'
  BY DEF StreamPending, OwnReply, DestroyState, Pending
<1>5. CrashByDestroy'
  <2>1. ASSUME crashed'
        PROVE  destroys' > 1 /\ \E d \in Destroyers : phase'[d] = "rejected"
    <3>1. PICK d \in Destroyers : d \in Pending
      BY <2>1 DEF FatalIfRejected
    <3>2. phase[d] # "idle" /\ phase'[d] = "rejected"
      BY <3>1 DEF Pending
    <3>3. destroys' > 1
      BY <3>1, <3>2 DEF DestroyState
    <3> QED
      BY <3>1, <3>2, <3>3
  <2> QED
    BY <2>1 DEF CrashByDestroy
<1>6. Prompt'
  BY DEF Prompt, Refused, Pending
<1> QED
  BY <1>1, <1>2, <1>3, <1>4, <1>5, <1>6

LEMMA PeerInv == ASSUME Inv, NEW c \in Calls, Answer(c) PROVE Inv'
<1> USE RequestsAssumption DEF RequestsAssumption, Inv, Answer, TypeOK, FirstOf, InNet
<1>1. TypeOK'
  <2>1. PICK m \in Responses[c] : answer' = [answer EXCEPT ![c] = m]
    OBVIOUS
  <2>2. m \in Methods
    BY <2>1
  <2> QED
    BY <2>1, <2>2
<1>2. CallbacksExact' /\ Stamped'
  BY DEF CallbacksExact, Pending, Stamped, Registered
<1>3. InOrder'
  BY DEF InOrder, Ahead, Stamped, Registered
<1>4. Answered'
  BY DEF Answered, Registered, Stamped
<1>5. SocketState' /\ DestroyState'
  BY DEF SocketState, Registered, DestroyState
<1>6. StreamPending' /\ OwnReply' /\ CrashByDestroy'
  BY DEF StreamPending, OwnReply, CrashByDestroy
<1>7. Prompt'
  BY DEF Prompt, Refused, Pending
<1> QED
  BY <1>1, <1>2, <1>3, <1>4, <1>5, <1>6, <1>7

LEMMA SocketInv == ASSUME Inv, SocketFails PROVE Inv'
<1> USE RequestsAssumption DEF RequestsAssumption, Inv, SocketFails, TypeOK, InNet
<1>1. TypeOK'
  OBVIOUS
<1>2. CallbacksExact' /\ Stamped'
  BY DEF CallbacksExact, Pending, Stamped, Registered
<1>3. InOrder' /\ Answered' /\ DestroyState'
  BY DEF InOrder, Ahead, Answered, Registered, DestroyState
<1>4. SocketState'
  BY DEF SocketState, Registered
<1>5. StreamPending' /\ OwnReply' /\ CrashByDestroy'
  BY DEF StreamPending, OwnReply, CrashByDestroy
<1>6. Prompt'
  BY DEF Prompt, Refused, Pending
<1> QED
  BY <1>1, <1>2, <1>3, <1>4, <1>5, <1>6

LEMMA InvNext == ASSUME Inv, [Next]_vars PROVE Inv'
<1>1. ASSUME NEW c \in Calls, CallApi(c) PROVE Inv'
  BY <1>1, ScheduleInv, RequestsAssumption DEF CallApi, RequestsAssumption
<1>2. ASSUME NEW c \in Calls, CallClose(c) PROVE Inv'
  BY <1>2, ScheduleInv, RequestsAssumption DEF CallClose, RequestsAssumption
<1>3. ASSUME NEW c \in Calls, CloseReturns(c) PROVE Inv'
  <2>1. DestroyWith({}) /\ ~crashed /\ closed' \in BOOLEAN /\ resumed' \subseteq Closers
    BY <1>3 DEF CloseReturns, Inv, TypeOK
  <2> QED
    BY <2>1, DestroyInv
<1>4. ASSUME Destroy PROVE Inv'
  <2>1. closed' \in BOOLEAN /\ resumed' \subseteq Closers /\ ~crashed
    BY <1>4 DEF Destroy, Inv, TypeOK
  <2>2. CASE DestroyWith({})
    BY <2>1, <2>2, DestroyInv
  <2>3. CASE \E d \in Destroyers : phase[d] = "idle" /\ DestroyWith({d})
    BY <2>1, <2>3, DestroyInv DEF Calls
  <2> QED
    BY <1>4, <2>2, <2>3 DEF Destroy
<1>5. ASSUME UNCHANGED vars PROVE Inv'
  BY <1>5 DEF vars, Inv, TypeOK, CallbacksExact, Pending, Stamped, Registered,
              InOrder, Ahead, Answered, SocketState, StreamPending, Prompt,
              Refused, DestroyState, OwnReply, CrashByDestroy
<1> QED
  BY <1>1, <1>2, <1>3, <1>4, <1>5, RegisterInv, DecodeInv,
     DroppedInv, AnswerInv, PeerInv, SocketInv, SendFailsInv
     DEF Next, WriteFails, EncoderThrows

LEMMA InvAlways == Spec => []Inv
<1>1. Init => Inv
  BY InvInit
<1>2. Inv /\ [Next]_vars => Inv'
  BY InvNext
<1> QED
  BY <1>1, <1>2, PTL DEF Spec

-----------------------------------------------------------------------------
(* Registered callbacks are exactly those of the pending calls: nothing    *)
(* settled stays registered (call_api's clear, destroy).                   *)
THEOREM CallbacksAlwaysExact == Spec => [](TypeOK /\ CallbacksExact)
<1>1. Inv => TypeOK /\ CallbacksExact
  BY DEF Inv
<1> QED
  BY <1>1, InvAlways, PTL

(* handle_method resolves a call with the answer to its own request only.  *)
THEOREM RepliesMatchRequests == Spec => []OwnReply
<1>1. Inv => OwnReply
  BY DEF Inv
<1> QED
  BY <1>1, InvAlways, PTL

(* On a channel that lives an answer always finds its call waiting.        *)
THEOREM AnswersAreAwaited == Spec => []AnswerIsAwaited
<1>1. Inv => AnswerIsAwaited
  BY DEF Inv, StreamPending, AnswerIsAwaited
<1> QED
  BY <1>1, InvAlways, PTL

(* fatal ends the process only for the close that a destroy sends: because *)
(* a later destroy rejects it, its write fails, or its encoder throws.     *)
THEOREM CrashOnlyOfDestroy == Spec => []CrashByDestroy
<1>1. Inv => CrashByDestroy
  BY DEF Inv
<1> QED
  BY <1>1, InvAlways, PTL

-----------------------------------------------------------------------------
(* The refinement: every step is a step of Calls or changes nothing that   *)
(* the callers see.                                                        *)

LEMMA ResponseIsMethod ==
    ASSUME NEW c \in Calls, NEW m \in Responses[c]
    PROVE  m # None
<1>1. Responses[c] \subseteq Methods
  BY RequestsAssumption DEF RequestsAssumption
<1>2. None \notin Methods
  BY RequestsAssumption DEF RequestsAssumption
<1> QED
  BY <1>1, <1>2

LEMMA SeenAfterDestroy ==
    ASSUME Inv, NEW made \in SUBSET Calls, \A c \in made : phase[c] = "idle",
           DestroyWith(made)
    PROVE  Promise!Close(Pending, made)
<1> USE DEF Inv, TypeOK, DestroyWith, Pending
<1>1. \A c \in Pending : Seen[c] = "waiting"
  BY DEF Seen
<1>2. \A c \in made : Seen[c] = "unused"
  BY DEF Seen
<1>3. Seen' = [c \in Calls |-> IF c \in Pending THEN "rejected"
                               ELSE IF c \in made THEN "waiting" ELSE Seen[c]]
  BY DEF Seen
<1>4. Replied' = Replied
  BY DEF Replied
<1> QED
  BY <1>1, <1>2, <1>3, <1>4 DEF Promise!Close

LEMMA StepRefines ==
    ASSUME Inv, [Next]_vars
    PROVE  [Promise!Next]_(Promise!vars)
<1> USE DEF Inv, TypeOK
<1>1. ASSUME NEW c \in Calls, Schedule(c) PROVE Promise!Make(c)
  BY <1>1 DEF Schedule, Promise!Make, Seen, Replied
<1>2. ASSUME NEW c \in Calls, Register(c) PROVE UNCHANGED <<Seen, Replied>>
  BY <1>2 DEF Register, Seen, Replied
<1>3. ASSUME NEW c \in Calls, SendFails(c) PROVE Promise!Close({c}, {})
  <2>1. Seen[c] = "waiting" /\ Replied' = Replied
    BY <1>3 DEF SendFails, Seen, Replied
  <2>2. Seen' = [d \in Calls |-> IF d \in {c} THEN "rejected"
                                 ELSE IF d \in {} THEN "waiting" ELSE Seen[d]]
    BY <1>3 DEF SendFails, Seen
  <2> QED
    BY <2>1, <2>2 DEF Promise!Close
<1>4. ASSUME NEW c \in Calls, Decode(c) \/ HandleDropped(c)
      PROVE  UNCHANGED <<Seen, Replied>>
  BY <1>4 DEF Decode, HandleDropped, Seen, Replied
<1>5. ASSUME NEW c \in Calls, HandleAnswer(c) PROVE Promise!Resolve(c)
  <2>1. Oldest(answer[c]) = {c} /\ phase[c] = "pending"
    BY <1>5, OldestIsAnswered DEF HandleAnswer, Settle
  <2>2. phase' = [phase EXCEPT ![c] = "resolved"] /\ UNCHANGED answer
    BY <1>5, <2>1 DEF HandleAnswer, Settle
  <2>3. c \in Replied
    <3>1. answer[c] \in Responses[c]
      BY <1>5 DEF HandleAnswer, Settle, FirstOf, InNet, Answered
    <3> QED
      BY <3>1, ResponseIsMethod DEF Replied
  <2>4. Seen[c] = "waiting" /\ Seen' = [Seen EXCEPT ![c] = "resolved"]
    BY <2>1, <2>2 DEF Seen
  <2>5. Replied' = Replied
    BY <2>2 DEF Replied
  <2> QED
    BY <2>3, <2>4, <2>5 DEF Promise!Resolve
<1>6. ASSUME NEW c \in Calls, Answer(c) PROVE Promise!Reply(c)
  <2>1. Seen[c] # "unused"
    BY <1>6 DEF Answer, FirstOf, InNet, Stamped, Registered, Seen
  <2>2. PICK m \in Responses[c] : answer' = [answer EXCEPT ![c] = m]
    BY <1>6 DEF Answer
  <2>3. m # None
    BY ResponseIsMethod
  <2>4. Replied' = Replied \cup {c}
    BY <2>2, <2>3 DEF Replied
  <2>5. Seen' = Seen
    BY <1>6 DEF Answer, Seen
  <2> QED
    BY <2>1, <2>4, <2>5 DEF Promise!Reply
<1>7. ASSUME SocketFails PROVE UNCHANGED <<Seen, Replied>>
  BY <1>7 DEF SocketFails, Seen, Replied
<1>8. ASSUME NEW c \in Calls, CloseReturns(c)
      PROVE  Promise!Close(Pending, {})
  BY <1>8, SeenAfterDestroy DEF CloseReturns
<1>9. ASSUME Destroy
      PROVE  \E made \in SUBSET Calls : Promise!Close(Pending, made)
  BY <1>9, SeenAfterDestroy DEF Destroy, Calls
<1>10. ASSUME UNCHANGED vars PROVE UNCHANGED <<Seen, Replied>>
  BY <1>10 DEF vars, Seen, Replied
<1>11. Pending \in SUBSET Calls
  BY DEF Pending
<1>12. (\E c \in Calls : Promise!Make(c) \/ Promise!Reply(c) \/ Promise!Resolve(c))
          => Promise!Next
  BY DEF Promise!Next
<1>13. \A rejected, made \in SUBSET Calls : Promise!Close(rejected, made) => Promise!Next
  BY DEF Promise!Next
<1>14. CASE UNCHANGED vars
  BY <1>14, <1>10 DEF Promise!vars
<1>15. ASSUME NEW c \in Calls, CallApi(c) \/ CallClose(c)
       PROVE  Promise!Next
  BY <1>15, <1>1, <1>12 DEF CallApi, CallClose
<1>16. CASE Next
  BY <1>16, <1>2, <1>3, <1>4, <1>5, <1>6, <1>7, <1>8, <1>9, <1>11, <1>12, <1>13,
     <1>15 DEF Next, WriteFails, EncoderThrows, Promise!vars
<1> QED
  BY <1>14, <1>16

(* The bookkeeping of ChannelAbstract implements what Calls promises: each *)
(* call is settled at most once, and resolved by its own reply only.       *)
THEOREM RequestsImplementCalls == Spec => ImplementsCalls
<1>1. Init => Promise!Init
  BY DEF Init, Promise!Init, Seen, Replied
<1>2. Inv /\ [Next]_vars => [Promise!Next]_(Promise!vars)
  BY StepRefines
<1> QED
  BY <1>1, <1>2, InvAlways, PTL DEF Spec, ImplementsCalls, Promise!Spec
-----------------------------------------------------------------------------
(* Nobody waits for nothing: the part of CallsSettle that does not depend  *)
(* on fairness.                                                            *)

\* A pending call has its request, its answer or the error of its encoder on
\* the way.
UnderWay(c) == net[c] \in {"refused", "sent", "answered", "ticking"}

\* What the event loop, the peer and the stream can do next.
MayMove(c) ==
    \/ phase[c] = "scheduled" \/ c \in Refused
    \/ FirstOf(c, InNet("sent"))
    \/ FirstOf(c, InNet("answered")) /\ \A d \in Refused : stamp[c] < stamp[d]
    \/ FirstOf(c, InNet("ticking"))

(* While the channel and its socket live, the request or the answer of     *)
(* every pending call is on its way: clear, or an answer that settled      *)
(* another call, never leaves a promise of call_api that nothing settles.  *)
PendingUnderWay ==
    ~destroyed /\ socketOpen =>
        \A c \in Calls : phase[c] = "pending" => UnderWay(c)

(* And then some call can be taken further at once, by its tick, by the    *)
(* peer or by the stream: the calls of one channel never wait on each      *)
(* other in a circle, although they are answered in order.                 *)
SomeCallMoves ==
    ~destroyed /\ socketOpen =>
        ((\E c \in Calls : phase[c] \in {"scheduled", "pending"})
            => \E c \in Calls : MayMove(c))

(* The order of the naturals, as a relation.                               *)
LEMMA LessIsWellFounded ==
    \E R : /\ IsWellFoundedOn(R, Nat)
           /\ \A x, y \in Nat : x < y => <<x, y>> \in R
<1> DEFINE R == OpToRel(<, Nat)
<1>1. IsWellFoundedOn(R, Nat)
  BY NatLessThanWellFounded, Zenon
<1>2. \A x, y \in Nat : x < y => <<x, y>> \in R
  BY Zenon DEF OpToRel
<1> HIDE DEF R
<1> QED
  BY <1>1, <1>2, Zenon

(* Some number of a set of naturals is the least.                          *)
LEMMA LeastNat ==
    ASSUME NEW T, T \subseteq Nat, T # {}
    PROVE  \E n \in T : \A k \in T : n <= k
<1>1. PICK R : /\ IsWellFoundedOn(R, Nat)
               /\ \A x, y \in Nat : x < y => <<x, y>> \in R
  BY LessIsWellFounded, Zenon
<1>2. \E n \in T : \A k \in T : ~ (<<k, n>> \in R)
  <2>1. IsWellFoundedOn(R, Nat)
    BY <1>1, Zenon
  <2> QED
    BY <2>1, WFMin, Zenon
<1>3. PICK n \in T : \A k \in T : ~ (<<k, n>> \in R)
  BY <1>2
<1>4. \A k \in T : ~ (k < n)
  BY <1>1, <1>3
<1> QED
  BY <1>4

(* Of any calls one was sent first.                                        *)
LEMMA FirstExists ==
    ASSUME TypeOK, NEW S \in SUBSET Calls, S # {}
    PROVE  \E c \in S : FirstOf(c, S)
<1> DEFINE T == {stamp[c] : c \in S}
<1>1. T \subseteq Nat /\ T # {}
  BY DEF TypeOK
<1>2. PICK n \in T : \A k \in T : n <= k
  BY <1>1, LeastNat
<1>3. PICK c \in S : stamp[c] = n
  BY <1>2
<1>4. \A d \in S : stamp[c] <= stamp[d]
  BY <1>2, <1>3
<1> QED
  BY <1>4 DEF FirstOf

LEMMA PendingIsUnderWay == Inv => PendingUnderWay
<1> SUFFICES ASSUME Inv, ~destroyed, socketOpen, NEW c \in Calls, phase[c] = "pending"
             PROVE  UnderWay(c)
  BY DEF PendingUnderWay
<1>1. net[c] \notin {"none", "lost"}
  BY DEF Inv, SocketState, Registered
<1>2. net[c] # "done"
  BY DEF Inv, StreamPending
<1> QED
  BY <1>1, <1>2 DEF Inv, TypeOK, UnderWay

LEMMA WaitingMoves == Inv => SomeCallMoves
<1> SUFFICES ASSUME Inv, ~destroyed, socketOpen, NEW c \in Calls,
                    phase[c] \in {"scheduled", "pending"}
             PROVE  \E d \in Calls : MayMove(d)
  BY DEF SomeCallMoves
<1>1. CASE phase[c] = "scheduled"
  BY <1>1 DEF MayMove
<1>2. CASE phase[c] = "pending" /\ Refused # {}
  BY <1>2 DEF MayMove, Refused, Pending
<1>3. CASE phase[c] = "pending" /\ Refused = {}
  <2>1. PICK w \in {"sent", "answered", "ticking"} : c \in InNet(w)
    BY <1>3, PendingIsUnderWay DEF PendingUnderWay, UnderWay, InNet, Refused, Pending
  <2>2. InNet(w) \in SUBSET Calls
    BY DEF InNet
  <2>3. PICK d \in InNet(w) : FirstOf(d, InNet(w))
    BY <2>1, <2>2, FirstExists DEF Inv
  <2> QED
    BY <1>3, <2>1, <2>2, <2>3 DEF MayMove
<1> QED
  BY <1>1, <1>2, <1>3

(* For any calls, responses and number of destroys, no caller of a living  *)
(* channel waits for a request or an answer that is nowhere any more, and  *)
(* while somebody waits there is a step to be taken.                       *)
THEOREM NobodyWaitsInVain == Spec => [](PendingUnderWay /\ SomeCallMoves)
<1>1. Inv => PendingUnderWay /\ SomeCallMoves
  BY PendingIsUnderWay, WaitingMoves
<1> QED
  BY <1>1, InvAlways, PTL
=============================================================================
