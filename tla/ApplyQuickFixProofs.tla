-------------------------- MODULE ApplyQuickFixProofs --------------------------
(***************************************************************************)
(* What holds of ApplyQuickFix for any bundles whose patches finish in the *)
(* meantime, any codes and infos and any waiting time.  The monitor never  *)
(* looks at the bundle of an event, so what the command reports is its own *)
(* result only while the others are silent; ApplyInv says where each part  *)
(* of the report came from.                                                *)
(***************************************************************************)
EXTENDS ApplyQuickFix, TLAPS

\* The command tries to subscribe before it calls, and only its call makes the own event
\* happen.
SubscribeInv ==
  /\ phase = "subscribe" => ~subscribed
  /\ request # "none" => phase \notin {"subscribe", "apply"}
  /\ phase = "wait" => request # "none"
  /\ event[Own] # "none" <=> request = "applied"

\* Nothing reaches a monitor that is not subscribed, nor what it leaves to the command.
DeafInv ==
  ~subscribed =>
    /\ \A e \in Events : event[e] \in {"none", "missed"}
    /\ answer = Unset /\ resultInfo = NoInfo
    /\ phase = "done" => text = NoInfo

\* An event that was published carries a result, and missed its own command's monitor only
\* if that was never subscribed.
ContentInv ==
  /\ \A e \in Events : event[e] # "none" => content[e] \in Codes \X Infos
  /\ event[Own] = "missed" => ~subscribed

\* The receiver's code came with an event that is dealt with.
AnswerInv == answer # Unset => \E e \in Events : event[e] = "done" /\ answer = content[e][1]

\* The command's code is the refusal's, the deadline's or the receiver's.
ResultInv ==
  phase \in {"report", "done"} =>
    \/ request = "none" /\ result \in CallErrors
    \/ request # "none" /\ (result = TimeOutCode \/ (answer # Unset /\ result = answer))

\* The monitor's info is the own event's from the moment it was stored.
InfoInv == Quiet /\ event[Own] \in {"stored", "done"} => resultInfo = content[Own][2]

ApplyInv ==
  /\ TypeOK /\ SubscribeInv /\ DeafInv /\ ContentInv
  /\ AnswerInv /\ ResultInv /\ InfoInv /\ InfoIsOwnWhenQuiet

-----------------------------------------------------------------------------

USE ApplyAssumption

\* Nothing was asked for and nothing is published when the command starts.
LEMMA InitApplyInv == Init => ApplyInv
<1> SUFFICES ASSUME Init PROVE ApplyInv
  OBVIOUS
<1> USE DEF Init, Events
<1>1. TypeOK
  <2>1. event \in [Events -> {"none", "missed", "sent", "stored", "done"}]
    OBVIOUS
  <2>2. content \in [Events -> (Codes \X Infos) \cup {<<>>}]
    OBVIOUS
  <2>3. left \in 0 .. WaittingTime
    OBVIOUS
  <2>4. QED
    BY <2>1, <2>2, <2>3 DEF TypeOK
<1>2. SubscribeInv /\ DeafInv /\ ContentInv
  BY DEF SubscribeInv, DeafInv, ContentInv
<1>3. AnswerInv /\ ResultInv /\ InfoInv /\ InfoIsOwnWhenQuiet
  BY DEF AnswerInv, ResultInv, InfoInv, InfoIsOwnWhenQuiet
<1>4. QED
  BY <1>1, <1>2, <1>3 DEF ApplyInv

\* While the other bundles are silent, the receiver's code is the own event's.
LEMMA QuietAnswer ==
  ASSUME ApplyInv, Quiet, answer # Unset
  PROVE  event[Own] = "done" /\ answer = content[Own][1] /\ request = "applied"
<1>1. PICK e \in Events : event[e] = "done" /\ answer = content[e][1]
  BY DEF ApplyInv, AnswerInv
<1>2. e = Own
  BY <1>1 DEF Quiet, Events
<1>3. QED
  BY <1>1, <1>2 DEF ApplyInv, SubscribeInv

-----------------------------------------------------------------------------
(* The command's steps *)

\* The command leaves the events and the monitor alone; a step that does not subscribe
\* keeps every part that speaks of them.
LEMMA EventFrame ==
  ASSUME ApplyInv, UNCHANGED <<event, content, resultInfo, answer>>,
         UNCHANGED subscribed \/ phase = "subscribe"
  PROVE  ContentInv' /\ AnswerInv' /\ InfoInv'
<1> USE DEF ApplyInv
<1>1. ContentInv'
  <2>1. phase = "subscribe" => event[Own] = "none"
    BY DEF SubscribeInv, TypeOK
  <2>2. QED
    BY <2>1 DEF ContentInv
<1>2. AnswerInv'
  BY DEF AnswerInv
<1>3. InfoInv'
  BY DEF InfoInv, Quiet
<1>4. QED
  BY <1>1, <1>2, <1>3

\* Whether the subscription succeeds or not, nothing has happened yet.
LEMMA SubscribeKeeps == ASSUME ApplyInv, Subscribe PROVE ApplyInv'
<1> USE DEF ApplyInv, Subscribe
<1>1. TypeOK'
  BY DEF TypeOK
<1>2. SubscribeInv' /\ DeafInv' /\ ResultInv' /\ InfoIsOwnWhenQuiet'
  BY DEF SubscribeInv, DeafInv, ResultInv, InfoIsOwnWhenQuiet
<1>3. QED
  BY <1>1, <1>2, EventFrame

\* A refused call leaves no request behind.
LEMMA ApplyKeeps == ASSUME ApplyInv, Apply PROVE ApplyInv'
<1> USE DEF ApplyInv, Apply
<1>1. TypeOK'
  BY DEF TypeOK
<1>2. SubscribeInv' /\ DeafInv' /\ ResultInv' /\ InfoIsOwnWhenQuiet'
  BY DEF TypeOK, SubscribeInv, DeafInv, ResultInv, InfoIsOwnWhenQuiet
<1>3. QED
  BY <1>1, <1>2, EventFrame

\* A wait ends with the receiver's code or with the timeout's.
LEMMA GetResultCodeKeeps == ASSUME ApplyInv, GetResultCode PROVE ApplyInv'
<1> USE DEF ApplyInv, GetResultCode
<1>1. TypeOK'
  BY DEF TypeOK
<1>2. request # "none"
  BY DEF SubscribeInv
<1>3. SubscribeInv' /\ DeafInv' /\ ResultInv' /\ InfoIsOwnWhenQuiet'
  BY <1>2 DEF SubscribeInv, DeafInv, ResultInv, InfoIsOwnWhenQuiet
<1>4. QED
  BY <1>1, <1>3, EventFrame

\* The info that is printed is the monitor's.
LEMMA ReportKeeps == ASSUME ApplyInv, Report PROVE ApplyInv'
<1> USE DEF ApplyInv, Report
<1>1. TypeOK'
  BY DEF TypeOK
<1>2. SubscribeInv' /\ DeafInv' /\ ResultInv'
  BY DEF SubscribeInv, DeafInv, ResultInv
<1>3. InfoIsOwnWhenQuiet'
  <2> SUFFICES ASSUME Quiet, answer # Unset, result # Ok
               PROVE  resultInfo = content[Own][2]
    BY DEF InfoIsOwnWhenQuiet, Quiet
  <2>1. event[Own] = "done"
    BY QuietAnswer
  <2>2. QED
    BY <2>1 DEF InfoInv
<1>4. QED
  BY <1>1, <1>2, <1>3, EventFrame

\* Time passes only while the command waits.
LEMMA TickKeeps == ASSUME ApplyInv, Tick PROVE ApplyInv'
<1> USE DEF ApplyInv, Tick
<1>1. TypeOK'
  BY DEF TypeOK
<1>2. SubscribeInv' /\ DeafInv' /\ ResultInv' /\ InfoIsOwnWhenQuiet'
  BY DEF SubscribeInv, DeafInv, ResultInv, InfoIsOwnWhenQuiet
<1>3. QED
  BY <1>1, <1>2, EventFrame

-----------------------------------------------------------------------------
(* The manager and the event threads *)

\* An event is published once, with a result, and only to a subscriber it can reach.
LEMMA PublishKeeps ==
  ASSUME ApplyInv, NEW e \in Events, Publish(e),
         UNCHANGED <<phase, subscribed, resultInfo, answer, left, result, text>>,
         \/ e = Own /\ request = "applying" /\ request' = "applied"
         \/ e # Own /\ UNCHANGED request
  PROVE  ApplyInv'
<1> USE DEF ApplyInv
<1>1. PICK c \in Codes, i \in Infos : content' = [content EXCEPT ![e] = <<c, i>>]
  BY DEF Publish
<1>2. /\ event[e] = "none"
      /\ event' = [event EXCEPT ![e] = IF subscribed THEN "sent" ELSE "missed"]
  BY DEF Publish
<1>3. /\ event'[e] \in {"sent", "missed"} /\ (subscribed => event'[e] = "sent")
      /\ content'[e] = <<c, i>>
      /\ \A d \in Events \ {e} : event'[d] = event[d] /\ content'[d] = content[d]
  BY <1>1, <1>2 DEF TypeOK
<1>4. TypeOK'
  <2>1. event' \in [Events -> {"none", "missed", "sent", "stored", "done"}]
    BY <1>2 DEF TypeOK
  <2>2. content' \in [Events -> (Codes \X Infos) \cup {<<>>}]
    BY <1>1 DEF TypeOK
  <2>3. QED
    BY <2>1, <2>2 DEF TypeOK
<1>5. Own \in Events
  BY DEF Events
<1>6. SubscribeInv' /\ DeafInv'
  BY <1>2, <1>3, <1>5 DEF SubscribeInv, DeafInv
<1>7. ContentInv'
  BY <1>3, <1>5 DEF ContentInv
<1>8. AnswerInv'
  BY <1>2, <1>3 DEF AnswerInv
<1>9. ResultInv'
  BY DEF ResultInv, SubscribeInv
<1>10. Quiet' => Quiet
  BY <1>2, <1>3 DEF Quiet, Events
<1>11. InfoInv'
  BY <1>3, <1>5, <1>10 DEF InfoInv
<1>12. InfoIsOwnWhenQuiet'
  <2> SUFFICES ASSUME Quiet, phase = "done", answer # Unset, result = answer,
                      result \notin {Ok, TimeOutCode}
               PROVE  text = content'[Own][2]
    BY <1>10 DEF InfoIsOwnWhenQuiet
  <2>1. e # Own
    BY <1>2, QuietAnswer
  <2>2. QED
    BY <1>3, <1>5, <2>1 DEF InfoIsOwnWhenQuiet
<1>13. QED
  BY <1>4, <1>6, <1>7, <1>8, <1>9, <1>11, <1>12

\* The manager reports the patch it was asked to apply.
LEMMA PublishOwnKeeps == ASSUME ApplyInv, PublishOwn PROVE ApplyInv'
  BY PublishKeeps DEF PublishOwn, Events

\* It reports the others' patches too, at any time.
LEMMA PublishForeignKeeps == ASSUME ApplyInv, PublishForeign PROVE ApplyInv'
  BY PublishKeeps DEF PublishForeign, Events

\* An event that is dealt with never becomes quiet again.
LEMMA QuietOnlyBefore ==
  ASSUME TypeOK, NEW e \in Events, NEW s \in {"stored", "done"},
         event[e] \notin {"none", "missed"}, event' = [event EXCEPT ![e] = s]
  PROVE  Quiet' => Quiet /\ e = Own
<1>1. event'[e] = s
  BY DEF TypeOK
<1>2. \A d \in Foreign : d # e => event'[d] = event[d]
  BY DEF TypeOK, Events
<1>3. QED
  BY <1>1, <1>2 DEF Quiet, Events

\* OnReceiveEvent stores the info of its event first.
LEMMA StoreInfoKeeps == ASSUME ApplyInv, NEW e \in Events, StoreInfo(e) PROVE ApplyInv'
<1> USE DEF ApplyInv, StoreInfo
<1>1. content[e] \in Codes \X Infos
  BY DEF ContentInv
<1>2. TypeOK'
  <2>1. event' \in [Events -> {"none", "missed", "sent", "stored", "done"}]
    BY DEF TypeOK
  <2>2. resultInfo' \in Infos
    BY <1>1
  <2>3. QED
    BY <2>1, <2>2 DEF TypeOK
<1>3. event'[e] = "stored" /\ \A d \in Events \ {e} : event'[d] = event[d]
  BY DEF TypeOK
<1>4. Quiet' => Quiet /\ e = Own
  BY QuietOnlyBefore
<1>5. Own \in Events
  BY DEF Events
<1>6. SubscribeInv' /\ DeafInv' /\ ContentInv'
  BY <1>3, <1>5 DEF SubscribeInv, DeafInv, ContentInv
<1>7. AnswerInv'
  BY <1>3 DEF AnswerInv
<1>8. ResultInv'
  BY DEF ResultInv
<1>9. InfoInv'
  BY <1>4 DEF InfoInv
<1>10. InfoIsOwnWhenQuiet'
  BY <1>4 DEF InfoIsOwnWhenQuiet
<1>11. QED
  BY <1>2, <1>6, <1>7, <1>8, <1>9, <1>10

\* Then it finishes the receiver, which keeps the first code it was given.
LEMMA FinishKeeps == ASSUME ApplyInv, NEW e \in Events, Finish(e) PROVE ApplyInv'
<1> USE DEF ApplyInv, Finish
<1>1. content[e] \in Codes \X Infos
  BY DEF ContentInv
<1>2. answer' \in Codes /\ answer' # Unset /\ (answer # Unset => answer' = answer)
  BY <1>1 DEF TypeOK
<1>3. TypeOK'
  <2>1. event' \in [Events -> {"none", "missed", "sent", "stored", "done"}]
    BY DEF TypeOK
  <2>2. QED
    BY <1>2, <2>1 DEF TypeOK
<1>4. event'[e] = "done" /\ \A d \in Events \ {e} : event'[d] = event[d]
  BY DEF TypeOK
<1>5. Quiet' => Quiet /\ e = Own
  BY QuietOnlyBefore
<1>6. Own \in Events
  BY DEF Events
<1>7. SubscribeInv' /\ DeafInv' /\ ContentInv'
  BY <1>4, <1>6 DEF SubscribeInv, DeafInv, ContentInv
<1>8. AnswerInv'
  BY <1>4 DEF AnswerInv
<1>9. ResultInv'
  BY <1>2 DEF ResultInv
<1>10. InfoInv'
  BY <1>5 DEF InfoInv
<1>11. InfoIsOwnWhenQuiet'
  <2> SUFFICES ASSUME Quiet, e = Own, phase = "done", result = answer',
                      result \notin {Ok, TimeOutCode}
               PROVE  text = content[Own][2]
    BY <1>5 DEF InfoIsOwnWhenQuiet
  <2>1. request = "applied"
    BY DEF SubscribeInv
  <2>2. answer # Unset /\ result = answer
    BY <2>1 DEF ResultInv
  <2>3. QED
    BY <2>2 DEF InfoIsOwnWhenQuiet
<1>12. QED
  BY <1>3, <1>7, <1>8, <1>9, <1>10, <1>11

-----------------------------------------------------------------------------
(* The invariant and what it gives *)

\* Every step of the command, the manager and the monitor keeps the invariant.
LEMMA NextApplyInv == ApplyInv /\ [Next]_vars => ApplyInv'
<1> SUFFICES ASSUME ApplyInv, [Next]_vars PROVE ApplyInv'
  OBVIOUS
<1>1. CASE Command \/ Tick
  BY <1>1, SubscribeKeeps, ApplyKeeps, GetResultCodeKeeps, ReportKeeps, TickKeeps DEF Command
<1>2. CASE PublishOwn \/ PublishForeign
  BY <1>2, PublishOwnKeeps, PublishForeignKeeps
<1>3. CASE \E e \in Events : OnReceiveEvent(e)
  BY <1>3, StoreInfoKeeps, FinishKeeps DEF OnReceiveEvent
<1>4. CASE UNCHANGED vars
  <2> USE <1>4 DEF vars, ApplyInv
  <2>1. TypeOK'
    BY DEF TypeOK
  <2>2. SubscribeInv' /\ DeafInv' /\ ResultInv' /\ InfoIsOwnWhenQuiet'
    BY DEF SubscribeInv, DeafInv, ResultInv, InfoIsOwnWhenQuiet, Quiet
  <2>3. QED
    BY <2>1, <2>2, EventFrame
<1>5. QED
  BY <1>1, <1>2, <1>3, <1>4 DEF Next

\* The strengthening of the properties below holds in every reachable state.
THEOREM Inductive == Spec => []ApplyInv
  BY InitApplyInv, NextApplyInv, PTL DEF Spec

\* The command, the manager's events and the monitor keep their types.
THEOREM TypeCorrect == Spec => []TypeOK
<1>1. ApplyInv => TypeOK
  BY DEF ApplyInv
<1>2. QED
  BY <1>1, Inductive, PTL

\* The own event misses the monitor only if the subscription failed, and then the command
\* reports the timeout with nothing of another bundle's event.
THEOREM LostIsATimeout == Spec => []LostResultIsATimeout
<1>1. ApplyInv => LostResultIsATimeout
  <2> SUFFICES ASSUME ApplyInv, event[Own] = "missed"
               PROVE  /\ ~subscribed
                      /\ phase \in {"report", "done"} => result = TimeOutCode
                      /\ phase = "done" => text = NoInfo
    BY DEF LostResultIsATimeout
  <2>1. ~subscribed /\ request = "applied"
    BY DEF ApplyInv, ContentInv, SubscribeInv
  <2>2. answer = Unset /\ (phase = "done" => text = NoInfo)
    BY <2>1 DEF ApplyInv, DeafInv
  <2>3. QED
    BY <2>1, <2>2 DEF ApplyInv, ResultInv
<1>2. QED
  BY <1>1, Inductive, PTL

\* While the other bundles are silent, the code the command has is its refusal's, its
\* deadline's or its own event's.
THEOREM OwnResult == Spec => []ResultIsOwnWhenQuiet
<1>1. ApplyInv => ResultIsOwnWhenQuiet
  <2> SUFFICES ASSUME ApplyInv, Quiet, phase \in {"report", "done"}, result \notin CallErrors,
                      result # TimeOutCode
               PROVE  event[Own] = "done" /\ result = content[Own][1]
    BY DEF ResultIsOwnWhenQuiet
  <2>1. answer # Unset /\ result = answer
    BY DEF ApplyInv, ResultInv
  <2>2. QED
    BY <2>1, QuietAnswer
<1>2. QED
  BY <1>1, Inductive, PTL

\* While the other bundles are silent, a failure is printed with the info of the event
\* that reported it.
THEOREM OwnInfo == Spec => []InfoIsOwnWhenQuiet
<1>1. ApplyInv => InfoIsOwnWhenQuiet
  BY DEF ApplyInv
<1>2. QED
  BY <1>1, Inductive, PTL
===============================================================================
