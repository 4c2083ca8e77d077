---------------------------- MODULE StatusReceiver ----------------------------
(***************************************************************************)
(* StatusReceiverImpl (frameworks/src/status_receiver_impl.cpp; the copy   *)
(* under ohos_bm/src is the same): a mutex, the flag isSetValue and two    *)
(* promises, one for the result code and one for the result message.  The  *)
(* service's answer and the death recipient's both arrive as OnFinished on *)
(* binder threads; the command thread waits for the promises with a        *)
(* deadline.  InstallOperation waits for the message and then for the      *)
(* code, each with the whole waittingTime_; the uninstall operations wait  *)
(* for the code alone.                                                     *)
(*                                                                         *)
(* The duration waittingTime_ is WaittingTime ticks.  A thread may stop    *)
(* between any two steps for any number of ticks.                          *)
(***************************************************************************)
EXTENDS Naturals

CONSTANTS
  Threads,      \* binder threads, each delivers at most one OnFinished
  Codes,        \* result codes a party may report
  Msgs,         \* result messages a party may report
  EmptyMsg,     \* the empty string, also what GetResultMsg returns on timeout
  TimeOutCode,  \* ERR_OPERATION_TIME_OUT
  Unset,        \* a promise without a value
  Nobody,       \* the holder of a free mutex
  WaittingTime  \* waittingTime_, in ticks

ASSUME WaittingAssumption == WaittingTime \in Nat \ {0}
ASSUME EmptyMsgAssumption == EmptyMsg \in Msgs
ASSUME UnsetAssumption == Unset \notin Codes \cup Msgs \cup {TimeOutCode}
ASSUME NobodyAssumption == Nobody \notin Threads

VARIABLES
  mutex,        \* setValueMutex_: the thread that holds it, or Nobody
  isSetValue,
  codeSignal,   \* the value of resultCodeSignal_, or Unset
  msgSignal,    \* the value of resultMsgSignal_, or Unset
  broken,       \* a promise was set twice: std::future_error left a binder thread
  pc,           \* where each binder thread is in OnFinished
  arg,          \* the answer <<resultCode, resultMsg>> each thread delivers
  op,           \* the operation of the command: "install" or "uninstall"
  cmd,          \* where the command thread is
  left,         \* ticks until the deadline of the wait in progress
  waited,       \* ticks the command has waited since the call returned
  gotMsg,       \* resultMsg
  gotCode       \* the code the operation returns, Unset until it does

receiverVars == <<mutex, isSetValue, codeSignal, msgSignal, broken, pc, arg>>
waiterVars == <<op, cmd, left, waited, gotMsg, gotCode>>
vars == <<receiverVars, waiterVars>>

Answers == Codes \X Msgs
InLock == {"check", "setCode", "setMsg", "unlock"}
Waiting == cmd \in {"waitMsg", "waitCode"}

Init ==
  /\ mutex = Nobody
  /\ isSetValue = FALSE
  /\ codeSignal = Unset
  /\ msgSignal = Unset
  /\ broken = FALSE
  /\ pc = [t \in Threads |-> "idle"]
  /\ arg = [t \in Threads |-> <<>>]
  /\ op \in {"install", "uninstall"}
  /\ cmd = "call"
  /\ left = WaittingTime
  /\ waited = 0
  /\ gotMsg = EmptyMsg
  /\ gotCode = Unset

Goto(t, from, to) == pc[t] = from /\ pc' = [pc EXCEPT ![t] = to]

-----------------------------------------------------------------------------
(* OnFinished, on a binder thread *)

\* The receiver is handed out by the installer call, or to the death recipient just before.
Deliver(t) ==
  /\ Goto(t, "idle", "lock")
  /\ \E a \in Answers : arg' = [arg EXCEPT ![t] = a]
  /\ UNCHANGED <<mutex, isSetValue, codeSignal, msgSignal, broken, waiterVars>>

Lock(t) ==
  /\ mutex = Nobody
  /\ mutex' = t
  /\ Goto(t, "lock", "check")
  /\ UNCHANGED <<isSetValue, codeSignal, msgSignal, broken, arg, waiterVars>>

CheckIsSetValueWithoutGuard(t) ==
  /\ Goto(t, "check", "setCode")
  /\ isSetValue' = TRUE
  /\ UNCHANGED <<mutex, codeSignal, msgSignal, broken, arg, waiterVars>>

CheckIsSetValue(t) ==
  /\ \/ ~isSetValue /\ Goto(t, "check", "setCode") /\ isSetValue' = TRUE
     \/ isSetValue /\ Goto(t, "check", "unlock") /\ UNCHANGED isSetValue
  /\ UNCHANGED <<mutex, codeSignal, msgSignal, broken, arg, waiterVars>>

SetCodeAndUnlock(t) ==
  /\ Goto(t, "setCode", "setMsg")
  /\ codeSignal' = arg[t][1]
  /\ mutex' = Nobody
  /\ UNCHANGED <<isSetValue, msgSignal, broken, arg, waiterVars>>

\* std::promise::set_value throws when the promise has a value; its first value stays.
SetCode(t) ==
  /\ Goto(t, "setCode", "setMsg")
  /\ IF codeSignal = Unset
       THEN codeSignal' = arg[t][1] /\ UNCHANGED broken
       ELSE broken' = TRUE /\ UNCHANGED codeSignal
  /\ UNCHANGED <<mutex, isSetValue, msgSignal, arg, waiterVars>>

SetMsg(t) ==
  /\ Goto(t, "setMsg", "unlock")
  /\ IF msgSignal = Unset
       THEN msgSignal' = arg[t][2] /\ UNCHANGED broken
       ELSE broken' = TRUE /\ UNCHANGED msgSignal
  /\ UNCHANGED <<mutex, isSetValue, codeSignal, arg, waiterVars>>

UnlockForgotten(t) ==
  /\ Goto(t, "unlock", "done")
  /\ UNCHANGED <<mutex, isSetValue, codeSignal, msgSignal, broken, arg, waiterVars>>

Unlock(t) ==
  /\ Goto(t, "unlock", "done")
  /\ mutex' = Nobody
  /\ UNCHANGED <<isSetValue, codeSignal, msgSignal, broken, arg, waiterVars>>

OnFinishedMsgFirst(t) ==
  \/ Lock(t) \/ CheckIsSetValue(t) \/ Unlock(t)
  \/ /\ Goto(t, "setCode", "setMsg") /\ msgSignal' = arg[t][2]
     /\ UNCHANGED <<mutex, isSetValue, codeSignal, broken, arg, waiterVars>>
  \/ /\ Goto(t, "setMsg", "unlock") /\ codeSignal' = arg[t][1]
     /\ UNCHANGED <<mutex, isSetValue, msgSignal, broken, arg, waiterVars>>

OnFinished(t) ==
  Lock(t) \/ CheckIsSetValue(t) \/ SetCode(t) \/ SetMsg(t) \/ Unlock(t)

-----------------------------------------------------------------------------
(* The command thread *)

BeginBothWaits ==
  /\ cmd = "call"
  /\ cmd' = "waitMsg"
  /\ UNCHANGED <<receiverVars, op, left, waited, gotMsg, gotCode>>

\* The installer call has returned: the message is waited for first, if at all.
BeginWait ==
  /\ cmd = "call"
  /\ cmd' = IF op = "install" THEN "waitMsg" ELSE "waitCode"
  /\ UNCHANGED <<receiverVars, op, left, waited, gotMsg, gotCode>>

GetResultMsgForEver ==
  /\ cmd = "waitMsg"
  /\ msgSignal # Unset
  /\ gotMsg' = msgSignal
  /\ cmd' = "waitCode"
  /\ left' = WaittingTime
  /\ UNCHANGED <<receiverVars, op, waited, gotCode>>

GetResultMsgOneDeadline ==
  /\ cmd = "waitMsg"
  /\ \/ msgSignal # Unset /\ gotMsg' = msgSignal
     \/ msgSignal = Unset /\ left = 0 /\ gotMsg' = EmptyMsg
  /\ cmd' = "waitCode"
  /\ UNCHANGED <<receiverVars, op, left, waited, gotCode>>

\* GetResultMsg: the deadline of the next wait starts when this one ends.
GetResultMsg ==
  /\ cmd = "waitMsg"
  /\ \/ msgSignal # Unset /\ gotMsg' = msgSignal
     \/ msgSignal = Unset /\ left = 0 /\ gotMsg' = EmptyMsg
  /\ cmd' = "waitCode"
  /\ left' = WaittingTime
  /\ UNCHANGED <<receiverVars, op, waited, gotCode>>

GetResultCodeByClock ==
  /\ cmd = "waitCode"
  /\ \/ codeSignal # Unset /\ left > 0 /\ gotCode' = codeSignal
     \/ left = 0 /\ gotCode' = TimeOutCode
  /\ cmd' = "done"
  /\ UNCHANGED <<receiverVars, op, left, waited, gotMsg>>

GetResultCode ==
  /\ cmd = "waitCode"
  /\ \/ codeSignal # Unset /\ gotCode' = codeSignal
     \/ codeSignal = Unset /\ left = 0 /\ gotCode' = TimeOutCode
  /\ cmd' = "done"
  /\ UNCHANGED <<receiverVars, op, left, waited, gotMsg>>

\* Time passes; wait_for returns no later than its deadline.
Tick ==
  /\ Waiting
  /\ left > 0
  /\ left' = left - 1
  /\ waited' = waited + 1
  /\ UNCHANGED <<receiverVars, op, cmd, gotMsg, gotCode>>

Command == BeginWait \/ GetResultMsg \/ GetResultCode

Next ==
  \/ \E t \in Threads : Deliver(t) \/ OnFinished(t)
  \/ Command
  \/ Tick

(***************************************************************************)
(* A binder thread inside OnFinished and the command thread run; nobody is *)
(* obliged to answer at all, and time passes while the command waits.      *)
(***************************************************************************)
Fairness ==
  /\ \A t \in Threads : WF_vars(OnFinished(t))
  /\ WF_vars(Command)
  /\ WF_vars(Tick)

Spec == Init /\ [][Next]_vars
FairSpec == Spec /\ Fairness

-----------------------------------------------------------------------------
(* Properties *)

TypeOK ==
  /\ mutex \in Threads \cup {Nobody}
  /\ isSetValue \in BOOLEAN
  /\ codeSignal \in Codes \cup {Unset}
  /\ msgSignal \in Msgs \cup {Unset}
  /\ broken \in BOOLEAN
  /\ pc \in [Threads -> {"idle", "lock", "done"} \cup InLock]
  /\ arg \in [Threads -> Answers \cup {<<>>}]
  /\ op \in {"install", "uninstall"}
  /\ cmd \in {"call", "waitMsg", "waitCode", "done"}
  /\ left \in 0 .. WaittingTime
  /\ waited \in Nat
  /\ gotMsg \in Msgs
  /\ gotCode \in Codes \cup {TimeOutCode, Unset}

\* However many parties answer, and in whatever order they reach the mutex, no promise
\* is set a second time, so no std::future_error leaves OnFinished on a binder thread.
NoFutureError == ~broken

\* Once an operation that asked for the message has one, the code it returns belongs to
\* the same call of OnFinished: never another party's code, never the timeout.
OutcomeOfOneAnswer ==
  cmd = "done" /\ gotMsg # EmptyMsg => \E t \in Threads : arg[t] = <<gotCode, gotMsg>>

\* When no thread is inside OnFinished the two promises are published together, both
\* by the same call, or not at all: the lock covers the pair.
AnswerIsWhole ==
  mutex = Nobody =>
    \/ codeSignal = Unset /\ msgSignal = Unset
    \/ \E t \in Threads : pc[t] = "done" /\ arg[t] = <<codeSignal, msgSignal>>

\* The wait of an uninstall ends within waittingTime_; that of an install, whose message
\* and code are waited for one after the other, within twice as long.
WaitIsBounded ==
  waited <= (IF op = "install" THEN 2 * WaittingTime ELSE WaittingTime)

\* The operation returns, whether or not anybody ever answers.
OperationReturns == <>(cmd = "done")

\* A call of OnFinished returns: no party blocks on the mutex for ever.
OnFinishedReturns == \A t \in Threads : pc[t] = "lock" ~> pc[t] = "done"

(***************************************************************************)
(* The answer is published when its code is set: from then on the message  *)
(* is the one the same thread is about to set.                             *)
(***************************************************************************)
Published ==
  IF codeSignal = Unset THEN <<>>
  ELSE <<codeSignal, IF msgSignal = Unset THEN arg[mutex][2] ELSE msgSignal>>

Outcome == IF cmd = "done" THEN <<gotCode, gotMsg>> ELSE <<>>

Promise == INSTANCE OneShot WITH answer <- Published, outcome <- Outcome

\* The receiver and its command keep the promise of OneShot.
ImplementsOneShot == Promise!Spec
=============================================================================
