--------------------------- MODULE QuickFixSession ---------------------------
(***************************************************************************)
(* One deploy, switch or delete of a quick fix: DeployQuickFixDisable and  *)
(* DeleteQuickFix of bm, DeployQuickFix, SwitchQuickFix and DeleteQuickFix *)
(* of bundle_test_tool, and the callback they wait on,                     *)
(* QuickFixStatusCallbackHostlmpl.  Unlike StatusReceiverImpl, the         *)
(* callback has no flag and no mutex: the service's OnPatchDeployed,       *)
(* OnPatchSwitched or OnPatchDeleted and the death recipient's each call   *)
(* promise.set_value, and the second one throws on a binder thread where   *)
(* nothing catches it, which ends the process.                             *)
(***************************************************************************)
EXTENDS Naturals

CONSTANTS
  Codes,            \* result codes the service may report
  Died,             \* the code BundleDeathRecipient reports
  CopyErrors,       \* codes with which CopyFiles fails
  CallErrors,       \* codes with which the quick fix call fails
  IpcError,         \* a call to a dead service
  InternalError,    \* ERR_BUNDLEMANAGER_QUICK_FIX_INTERNAL_ERROR
  TimeOutCode,      \* ERR_APPEXECFWK_OPERATION_TIME_OUT
  Unset,
  WaittingTime      \* WAITTING_TIME, in ticks

ASSUME QuickFixAssumption ==
  /\ WaittingTime \in Nat \ {0}
  /\ Unset \notin Codes \cup {Died, TimeOutCode} \cup CopyErrors \cup CallErrors
                 \cup {IpcError, InternalError}
  /\ Died \notin Codes

VARIABLES
  tool,         \* "bm" holds the recipient in a DeathRecipientGuard, "other" does not
  op,           \* "deploy" copies the files first; "switch" is bundle_test_tool's alone
  phase,        \* where the operation is
  alive,        \* the bundle manager service lives
  registered,   \* the death recipient is registered
  request,      \* the quick fix call, as the service sees it
  notice,       \* the death recipient: "idle", about to call the callback, "done"
  promise,      \* the result code in quickFixPromise_, or Unset
  process,      \* "runs", or "aborted" by an uncaught std::future_error
  left,         \* ticks until the deadline of GetResultCode
  diedAfter,    \* history: the service died after the operation had returned
  ret           \* what the operation returned, Unset before

vars == <<tool, op, phase, alive, registered, request, notice, promise, process, left,
          diedAfter, ret>>

Init ==
  /\ tool \in {"bm", "other"}
  /\ op \in IF tool = "bm" THEN {"deploy", "delete"} ELSE {"deploy", "switch", "delete"}
  /\ phase = "register"
  /\ alive \in BOOLEAN
  /\ registered = FALSE
  /\ request = "none"
  /\ notice = "idle"
  /\ promise = Unset
  /\ process = "runs"
  /\ left = WaittingTime
  /\ diedAfter = FALSE
  /\ ret = Unset

Runs == process = "runs"

-----------------------------------------------------------------------------
(* The command thread *)

\* The result of AddDeathRecipient is not looked at.
Register ==
  /\ Runs /\ phase = "register"
  /\ phase' = "proxy"
  /\ registered' = alive
  /\ UNCHANGED <<tool, op, alive, request, notice, promise, process, left, diedAfter, ret>>

\* The guard's destructor runs on every way out of bm's operations.
LeaveWithoutGuard(code) ==
  /\ phase' = "returned"
  /\ ret' = code
  /\ UNCHANGED registered

Leave(code) ==
  /\ phase' = "returned"
  /\ ret' = code
  /\ registered' = (registered /\ tool # "bm")

Goto(p) == phase' = p /\ UNCHANGED <<registered, ret>>

\* GetQuickFixManagerProxy asks the service, and is null if it cannot.
GetProxy ==
  /\ Runs /\ phase = "proxy"
  /\ \/ alive /\ Goto(IF op = "deploy" THEN "copy" ELSE "call")
     \/ Leave(InternalError)
  /\ UNCHANGED <<tool, op, alive, request, notice, promise, process, left, diedAfter>>

CopyFiles ==
  /\ Runs /\ phase = "copy"
  /\ \/ alive /\ Goto("call")
     \/ \E e \in (IF alive THEN CopyErrors ELSE {IpcError}) : Leave(e)
  /\ UNCHANGED <<tool, op, alive, request, notice, promise, process, left, diedAfter>>

Call ==
  /\ Runs /\ phase = "call"
  /\ Goto("calling")
  /\ request' = IF alive THEN "pending" ELSE "lost"
  /\ UNCHANGED <<tool, op, alive, notice, promise, process, left, diedAfter>>

\* A service that dies before it replies is an IPC error, whatever it has done.
CallReturns ==
  /\ Runs /\ phase = "calling"
  /\ \/ request \in {"accepted", "sent", "answered"} /\ Goto("wait")
     \/ request = "refused" /\ \E e \in CallErrors : Leave(e)
     \/ ~alive /\ Leave(IpcError)
  /\ UNCHANGED <<tool, op, alive, request, notice, promise, process, left, diedAfter>>

GetResultCodeForEver ==
  /\ Runs /\ phase = "wait"
  /\ promise # Unset /\ Leave(promise)
  /\ UNCHANGED <<tool, op, alive, request, notice, promise, process, left, diedAfter>>

GetResultCode ==
  /\ Runs /\ phase = "wait"
  /\ \/ promise # Unset /\ Leave(promise)
     \/ promise = Unset /\ left = 0 /\ Leave(TimeOutCode)
  /\ UNCHANGED <<tool, op, alive, request, notice, promise, process, left, diedAfter>>

Tick ==
  /\ Runs /\ phase = "wait" /\ left > 0
  /\ left' = left - 1
  /\ UNCHANGED <<tool, op, phase, alive, registered, request, notice, promise, process,
                 diedAfter, ret>>

Operation == Register \/ GetProxy \/ CopyFiles \/ Call \/ CallReturns \/ GetResultCode

-----------------------------------------------------------------------------
(* The service *)

ServiceDecides ==
  /\ Runs /\ alive /\ request = "pending"
  /\ request' \in {"accepted", "refused"}
  /\ UNCHANGED <<tool, op, phase, alive, registered, notice, promise, process, left,
                 diedAfter, ret>>

\* The service answers an accepted request once; what it sent arrives even if it dies.
ServiceAnswers ==
  /\ Runs /\ alive /\ request = "accepted"
  /\ request' = "sent"
  /\ UNCHANGED <<tool, op, phase, alive, registered, notice, promise, process, left,
                 diedAfter, ret>>

ServiceDies ==
  /\ Runs /\ alive
  /\ alive' = FALSE
  /\ diedAfter' = (phase = "returned")
  /\ UNCHANGED <<tool, op, phase, registered, request, notice, promise, process, left, ret>>

-----------------------------------------------------------------------------
(* The callback, on binder threads *)

\* promise.set_value: the first value stays; the second call ends the process.
SetValue(code) ==
  IF promise = Unset
    THEN promise' = code /\ UNCHANGED process
    ELSE process' = "aborted" /\ UNCHANGED promise

\* OnPatchDeployed and OnPatchSwitched on one callback: an answer per stage of the patch.
OnPatchFinishedTwice ==
  /\ Runs /\ request \in {"sent", "answered"}
  /\ request' = "answered"
  /\ \E code \in Codes : SetValue(code)
  /\ UNCHANGED <<tool, op, phase, alive, registered, notice, left, diedAfter, ret>>

\* OnPatchDeployed, OnPatchSwitched or OnPatchDeleted.
OnPatchFinished ==
  /\ Runs /\ request = "sent"
  /\ request' = "answered"
  /\ \E code \in Codes : SetValue(code)
  /\ UNCHANGED <<tool, op, phase, alive, registered, notice, left, diedAfter, ret>>

NoticeDeath ==
  /\ Runs /\ ~alive /\ registered /\ notice = "idle"
  /\ notice' = "notified"
  /\ UNCHANGED <<tool, op, phase, alive, registered, request, promise, process, left,
                 diedAfter, ret>>

OnRemoteDied ==
  /\ Runs /\ notice = "notified"
  /\ notice' = "done"
  /\ SetValue(Died)
  /\ UNCHANGED <<tool, op, phase, alive, registered, request, left, diedAfter, ret>>

Next ==
  \/ Operation \/ Tick
  \/ ServiceDecides \/ ServiceAnswers \/ ServiceDies
  \/ OnPatchFinished \/ NoticeDeath \/ OnRemoteDied

(***************************************************************************)
(* The command thread runs, time passes and a call gets its reply; nobody  *)
(* is obliged to answer through the callback.                              *)
(***************************************************************************)
Spec == Init /\ [][Next]_vars
FairSpec == Spec /\ WF_vars(Operation) /\ WF_vars(Tick) /\ WF_vars(ServiceDecides)

-----------------------------------------------------------------------------
(* Properties *)

TypeOK ==
  /\ tool \in {"bm", "other"}
  /\ op \in {"deploy", "switch", "delete"}
  /\ phase \in {"register", "proxy", "copy", "call", "calling", "wait", "returned"}
  /\ alive \in BOOLEAN /\ registered \in BOOLEAN /\ diedAfter \in BOOLEAN
  /\ request \in {"none", "pending", "lost", "accepted", "refused", "sent", "answered"}
  /\ notice \in {"idle", "notified", "done"}
  /\ promise \in Codes \cup {Died, Unset}
  /\ process \in {"runs", "aborted"}
  /\ left \in 0 .. WaittingTime
  /\ ret \in Codes \cup CopyErrors \cup CallErrors
            \cup {Died, IpcError, InternalError, TimeOutCode, Unset}

\* Only a service that dies and yet has answered can end the process, and then the
\* recipient was told of the death while it was registered.
AbortNeedsBothCallbacks ==
  process = "aborted" => request = "answered" /\ notice = "done" /\ ~alive

\* Once bm has returned from the operation, a service that dies later does it no harm:
\* the guard took the recipient back before the result was printed.
LateDeathIsHarmless ==
  tool = "bm" /\ diedAfter => Runs

\* The operation returns, unless the process ends first.
OperationReturns == <>(phase = "returned" \/ process = "aborted")
=============================================================================
