----------------------------- MODULE ApplyQuickFix -----------------------------
(***************************************************************************)
(* QuickFixCommand::ApplyQuickFix and its ApplyQuickFixMonitor             *)
(* (frameworks/src/quick_fix_command.cpp).  The command subscribes to the  *)
(* common event QUICK_FIX_APPLY_RESULT, calls the quick fix manager and    *)
(* waits on a status receiver that the monitor finishes.  The event is     *)
(* sent for every bundle a quick fix is applied to, whoever asked; the     *)
(* monitor looks at its result but not at its bundle.  The subscription    *)
(* may fail; the command does not look, calls the manager all the same and *)
(* then waits for an event that cannot reach it.                           *)
(*                                                                         *)
(* The receiver is the one-shot promise StatusReceiver implements: its     *)
(* first answer stays.  Each event is delivered on a thread of its own.    *)
(* A command line without a patch file returns before any of this.         *)
(***************************************************************************)
EXTENDS Naturals

CONSTANTS
  Own,          \* the event that reports the patch this command applies
  Foreign,      \* events of other bundles' patches
  Codes,        \* applyResult of an event
  Infos,        \* applyResultInfo of an event
  NoInfo,       \* the empty string
  Ok,           \* ERR_OK
  CallErrors,   \* codes with which the manager refuses ApplyQuickFix
  TimeOutCode,  \* ERR_OPERATION_TIME_OUT
  Unset,
  WaittingTime

Events == {Own} \cup Foreign

ASSUME ApplyAssumption ==
  /\ Own \notin Foreign
  /\ NoInfo \in Infos /\ Ok \in Codes
  /\ Ok \notin CallErrors \cup {TimeOutCode}
  /\ Unset \notin Codes \cup CallErrors \cup {TimeOutCode}
  /\ WaittingTime \in Nat \ {0}

VARIABLES
  phase,        \* where the command is
  subscribed,   \* the subscription succeeded; nothing ever unsubscribes the monitor
  request,      \* the manager's view: "none", "applying", "applied"
  event,        \* each event: "none", "missed", "sent", "stored", "done"
  content,      \* <<applyResult, applyResultInfo>> of each event sent
  resultInfo,   \* resultInfo_ of the monitor
  answer,       \* the receiver's code: the first that was set
  left,         \* ticks until the receiver's deadline
  result,       \* the code the command has
  text          \* the info the command printed, Unset before

vars == <<phase, subscribed, request, event, content, resultInfo, answer, left, result, text>>

Init ==
  /\ phase = "subscribe"
  /\ subscribed = FALSE
  /\ request = "none"
  /\ event = [e \in Events |-> "none"]
  /\ content = [e \in Events |-> <<>>]
  /\ resultInfo = NoInfo
  /\ answer = Unset
  /\ left = WaittingTime
  /\ result = Unset
  /\ text = Unset

-----------------------------------------------------------------------------
(* The command thread *)

SubscribeAfterApply ==
  \/ /\ phase = "subscribe" /\ phase' = "apply" /\ UNCHANGED subscribed
     /\ UNCHANGED <<request, event, content, resultInfo, answer, left, result, text>>
  \/ /\ phase = "wait" /\ ~subscribed /\ subscribed' = TRUE
     /\ UNCHANGED <<phase, request, event, content, resultInfo, answer, left, result, text>>

\* SubscribeCommonEvent may fail; its result is not looked at.
Subscribe ==
  /\ phase = "subscribe"
  /\ subscribed' \in BOOLEAN
  /\ phase' = "apply"
  /\ UNCHANGED <<request, event, content, resultInfo, answer, left, result, text>>

\* A refused call is reported at once; an accepted one is waited for.
Apply ==
  /\ phase = "apply"
  /\ \/ request' = "applying" /\ phase' = "wait" /\ UNCHANGED result
     \/ \E e \in CallErrors : result' = e /\ phase' = "report" /\ UNCHANGED request
  /\ UNCHANGED <<subscribed, event, content, resultInfo, answer, left, text>>

GetResultCodeForEver ==
  /\ phase = "wait"
  /\ answer # Unset /\ result' = answer
  /\ phase' = "report"
  /\ UNCHANGED <<subscribed, request, event, content, resultInfo, answer, left, text>>

GetResultCodeWithoutStatus ==
  /\ phase = "wait"
  /\ \/ answer # Unset /\ result' = answer
     \/ answer = Unset /\ left = 0 /\ result' = Ok
  /\ phase' = "report"
  /\ UNCHANGED <<subscribed, request, event, content, resultInfo, answer, left, text>>

GetResultCode ==
  /\ phase = "wait"
  /\ \/ answer # Unset /\ result' = answer
     \/ answer = Unset /\ left = 0 /\ result' = TimeOutCode
  /\ phase' = "report"
  /\ UNCHANGED <<subscribed, request, event, content, resultInfo, answer, left, text>>

\* A failure is reported with the monitor's info as it is now, or with the bare code.
Report ==
  /\ phase = "report"
  /\ text' = IF result = Ok THEN NoInfo ELSE resultInfo
  /\ phase' = "done"
  /\ UNCHANGED <<subscribed, request, event, content, resultInfo, answer, left, result>>

Tick ==
  /\ phase = "wait" /\ left > 0
  /\ left' = left - 1
  /\ UNCHANGED <<phase, subscribed, request, event, content, resultInfo, answer, result, text>>

Command == Subscribe \/ Apply \/ GetResultCode \/ Report

-----------------------------------------------------------------------------
(* The quick fix manager and the event service *)

\* An event reaches the subscribers of the moment.
Publish(e) ==
  /\ event[e] = "none"
  /\ event' = [event EXCEPT ![e] = IF subscribed THEN "sent" ELSE "missed"]
  /\ \E c \in Codes, i \in Infos : content' = [content EXCEPT ![e] = <<c, i>>]

PublishOwn ==
  /\ request = "applying"
  /\ Publish(Own)
  /\ request' = "applied"
  /\ UNCHANGED <<phase, subscribed, resultInfo, answer, left, result, text>>

PublishForeign ==
  /\ \E e \in Foreign : Publish(e)
  /\ UNCHANGED <<phase, subscribed, request, resultInfo, answer, left, result, text>>

-----------------------------------------------------------------------------
(* ApplyQuickFixMonitor::OnReceiveEvent *)

StoreInfo(e) ==
  /\ event[e] = "sent"
  /\ event' = [event EXCEPT ![e] = "stored"]
  /\ resultInfo' = content[e][2]
  /\ UNCHANGED <<phase, subscribed, request, content, answer, left, result, text>>

FinishBeforeStore(e) ==
  /\ event[e] \in {"sent", "stored"}
  /\ event' = [event EXCEPT ![e] = "done"]
  /\ answer' = IF answer = Unset THEN content[e][1] ELSE answer
  /\ UNCHANGED <<phase, subscribed, request, content, resultInfo, left, result, text>>

Finish(e) ==
  /\ event[e] = "stored"
  /\ event' = [event EXCEPT ![e] = "done"]
  /\ answer' = IF answer = Unset THEN content[e][1] ELSE answer
  /\ UNCHANGED <<phase, subscribed, request, content, resultInfo, left, result, text>>

OnReceiveEvent(e) == StoreInfo(e) \/ Finish(e)

Next ==
  \/ Command \/ Tick
  \/ PublishOwn \/ PublishForeign
  \/ \E e \in Events : OnReceiveEvent(e)

(***************************************************************************)
(* The command and the event threads run and time passes; the manager need *)
(* not ever report.                                                        *)
(***************************************************************************)
Spec == Init /\ [][Next]_vars
FairSpec ==
  /\ Spec
  /\ WF_vars(Command) /\ WF_vars(Tick)
  /\ \A e \in Events : WF_vars(OnReceiveEvent(e))

-----------------------------------------------------------------------------
(* Properties *)

TypeOK ==
  /\ phase \in {"subscribe", "apply", "wait", "report", "done"}
  /\ subscribed \in BOOLEAN
  /\ request \in {"none", "applying", "applied"}
  /\ event \in [Events -> {"none", "missed", "sent", "stored", "done"}]
  /\ content \in [Events -> (Codes \X Infos) \cup {<<>>}]
  /\ resultInfo \in Infos
  /\ answer \in Codes \cup {Unset}
  /\ left \in 0 .. WaittingTime
  /\ result \in Codes \cup CallErrors \cup {TimeOutCode, Unset}
  /\ text \in Infos \cup {Unset}

Quiet == \A e \in Foreign : event[e] \in {"none", "missed"}

\* However soon the manager finishes, the result of the command's patch is missed only if
\* the subscription itself failed.  The command, which never learns of that failure, then
\* reports the bare timeout, whatever other bundles' patches did in the meantime: a patch
\* whose result is lost is never reported as a success, nor with another's info.
LostResultIsATimeout ==
  event[Own] = "missed" =>
    /\ ~subscribed
    /\ phase \in {"report", "done"} => result = TimeOutCode
    /\ phase = "done" => text = NoInfo

\* If no other bundle's patch finishes while the monitor is subscribed, a wait ends with
\* the result of this command's patch or with the timeout.
ResultIsOwnWhenQuiet ==
  Quiet /\ phase \in {"report", "done"} /\ result \notin CallErrors =>
    result = TimeOutCode \/ (event[Own] = "done" /\ result = content[Own][1])

\* When no other bundle's patch finishes, a failure that the event reported is printed
\* with the info of that same event, never with a bare code in its place.  The timeout's
\* code is set apart: an event may report it too, after a wait that ended with it.
InfoIsOwnWhenQuiet ==
  Quiet /\ phase = "done" /\ answer # Unset /\ result = answer /\ result \notin {Ok, TimeOutCode} =>
    text = content[Own][2]

\* The command returns, whether or not a result is ever published.
CommandReturns == <>(phase = "done")
=============================================================================
