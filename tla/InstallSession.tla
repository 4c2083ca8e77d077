---------------------------- MODULE InstallSession ----------------------------
(***************************************************************************)
(* One install, uninstall or recover of bm, ohos-bm or bundle_test_tool:   *)
(* InstallOperation, UninstallOperation, UninstallSharedOperation,         *)
(* UninstallPreInstallBundleOperation and RecoverOperation.  The command   *)
(* registers a death recipient on the installer service, calls it, and     *)
(* waits on the status receiver of module StatusReceiver; the service may  *)
(* refuse the call, answer at any time, never answer, or die at any time.  *)
(*                                                                         *)
(* bm's operations hold the recipient in a DeathRecipientGuard, which      *)
(* takes it back on every way out; the other tools never take it back.     *)
(* A service that refuses the call does not answer it as well.             *)
(* op = "uninstall" stands for every operation that discards the result of *)
(* the call and waits for the code alone.                                  *)
(***************************************************************************)
EXTENDS StatusReceiver

CONSTANTS
  Service,      \* the thread on which the service's answer arrives
  Recipient,    \* the thread on which the death notice arrives
  Ok,           \* ERR_OK
  Died,         \* the code BundleDeathRecipient reports
  IpcError,     \* what a call to a dead service returns
  Refusals,     \* codes with which a live service refuses StreamInstall
  Translated    \* [Refusals -> codes]: how InstallOperation reports a refusal

ASSUME SessionAssumption ==
  /\ {Service, Recipient} \subseteq Threads /\ Service # Recipient
  /\ {Ok, Died} \subseteq Codes /\ Ok # Died
  /\ Ok \notin Refusals \cup {IpcError, TimeOutCode}
  /\ \A r \in Refusals : Translated[r] # Ok

VARIABLES
  tool,         \* "bm" has the guard, "other" (ohos-bm, bundle_test_tool) has not
  phase,        \* where the operation is
  alive,        \* the service lives
  registered,   \* the death recipient is registered on the service's object
  request,      \* the call, as the service sees it
  ret           \* what the operation returned, Unset before

sessionVars == <<tool, phase, alive, registered, request, ret>>
allVars == <<vars, sessionVars>>

SessionInit ==
  /\ Init
  /\ tool \in {"bm", "other"}
  /\ phase = "register"
  /\ alive \in BOOLEAN
  /\ registered = FALSE
  /\ request = "none"
  /\ ret = Unset

-----------------------------------------------------------------------------
(* The command thread *)

RegisterLate ==
  /\ phase = "register"
  /\ phase' = "ipc"
  /\ UNCHANGED <<vars, tool, alive, registered, request, ret>>

\* AddDeathRecipient on a dead object fails, and its result is not looked at.
Register ==
  /\ phase = "register"
  /\ phase' = "ipc"
  /\ registered' = alive
  /\ UNCHANGED <<vars, tool, alive, request, ret>>

Call ==
  /\ phase = "ipc"
  /\ phase' = "calling"
  /\ request' = IF alive THEN "pending" ELSE "lost"
  /\ UNCHANGED <<vars, tool, alive, registered, ret>>

\* The results the call may return: a service that dies before it replies is an IPC error.
CallResults ==
  (IF request \in {"accepted", "answered"} THEN {Ok} ELSE {})
    \cup (IF request = "refused" THEN Refusals ELSE {})
    \cup (IF ~alive THEN {IpcError} ELSE {})

\* The way out of the operation: ~DeathRecipientGuard, where there is one.
Leave(code) ==
  /\ phase' = "returned"
  /\ ret' = code
  /\ registered' = (registered /\ tool # "bm")

TranslateToOk(res) == IF res \in Refusals THEN Ok ELSE res

Translate(res) == IF res \in Refusals THEN Translated[res] ELSE res

\* An install that was refused leaves at once; any other call is waited for.
AfterCall(res) ==
  \/ /\ op = "install" => res = Ok
     /\ phase' = "waiting"
     /\ BeginWait
     /\ UNCHANGED <<registered, ret>>
  \/ /\ op = "install" /\ res # Ok
     /\ Leave(Translate(res))
     /\ UNCHANGED vars

CallReturns ==
  /\ phase = "calling"
  /\ \E res \in CallResults : AfterCall(res)
  /\ UNCHANGED <<tool, alive, request>>

WaitWithRetry ==
  /\ phase = "waiting"
  /\ \/ GetResultMsg \/ GetResultCode
     \/ /\ cmd = "done" /\ gotCode = TimeOutCode
        /\ cmd' = "waitCode" /\ left' = WaittingTime
        /\ UNCHANGED <<receiverVars, op, waited, gotMsg, gotCode>>
  /\ UNCHANGED sessionVars

Wait ==
  /\ phase = "waiting"
  /\ GetResultMsg \/ GetResultCode
  /\ UNCHANGED sessionVars

Finish ==
  /\ phase = "waiting" /\ cmd = "done"
  /\ Leave(gotCode)
  /\ UNCHANGED <<vars, tool, alive, request>>

Operation == Register \/ Call \/ CallReturns \/ Wait \/ Finish

-----------------------------------------------------------------------------
(* The service and the death recipient *)

ServiceDecides ==
  /\ alive /\ request = "pending"
  /\ request' \in {"accepted", "refused"}
  /\ UNCHANGED <<vars, tool, phase, alive, registered, ret>>

ServiceAnswers ==
  /\ alive /\ request = "accepted"
  /\ Deliver(Service)
  /\ request' = "answered"
  /\ UNCHANGED <<tool, phase, alive, registered, ret>>

ServiceDies ==
  /\ alive
  /\ alive' = FALSE
  /\ UNCHANGED <<vars, tool, phase, registered, request, ret>>

\* BundleDeathRecipient passes the death on to the receiver.
DeathNotice ==
  /\ ~alive /\ registered
  /\ Deliver(Recipient)
  /\ arg'[Recipient] = <<Died, EmptyMsg>>
  /\ UNCHANGED sessionVars

Binder(t) == OnFinished(t) /\ UNCHANGED sessionVars

TimePasses == Tick /\ UNCHANGED sessionVars

SessionNext ==
  \/ Operation
  \/ ServiceDecides \/ ServiceAnswers \/ ServiceDies \/ DeathNotice
  \/ \E t \in Threads : Binder(t)
  \/ TimePasses

(***************************************************************************)
(* The command and the binder threads run and time passes.  A call returns *)
(* only if the service decides on it or dies, so that is assumed too: the  *)
(* tools bound their wait for the answer, not the call itself.             *)
(***************************************************************************)
SessionFairness ==
  /\ WF_allVars(Operation)
  /\ WF_allVars(ServiceDecides)
  /\ \A t \in Threads : WF_allVars(Binder(t))
  /\ WF_allVars(TimePasses)

SessionSpec == SessionInit /\ [][SessionNext]_allVars
FairSessionSpec == SessionSpec /\ SessionFairness

-----------------------------------------------------------------------------
(* Properties *)

SessionTypeOK ==
  /\ TypeOK
  /\ tool \in {"bm", "other"}
  /\ phase \in {"register", "ipc", "calling", "waiting", "returned"}
  /\ alive \in BOOLEAN
  /\ registered \in BOOLEAN
  /\ request \in {"none", "pending", "accepted", "refused", "answered", "lost"}
  /\ ret \in Codes \cup Refusals \cup {Translated[r] : r \in Refusals}
              \cup {IpcError, TimeOutCode, Unset}

\* The session uses the receiver as StatusReceiver describes: it adds no step to it, so
\* what is proved of StatusReceiver holds of every session.
ImplementsReceiver == Spec

\* Success is reported only for an operation whose service answered with success: no
\* crash, refusal, lost call or timeout is ever taken for it.
SuccessIsTheServices ==
  ret = Ok => request = "answered" /\ arg[Service][1] = Ok

\* While the outcome depends on a service that lives, its death would be noticed: the
\* recipient was registered before the call and is still there.
DeathWouldBeNoticed ==
  alive /\ phase \in {"calling", "waiting"} => registered

\* A failure is reported for what happened: the service's own answer, its death, the
\* refusal of an install, or a silence that lasted for all the time the operation grants.
\* A refusal that an uninstall does not look at becomes that timeout, never a refusal, and
\* a late answer or notice changes nothing of what was reported.
FailureHasItsCause ==
  phase = "returned" /\ ret # Ok =>
    \/ request = "answered" /\ ret = arg[Service][1]
    \/ ~alive /\ (ret = Died \/ (op = "install" /\ ret = Translate(IpcError)))
    \/ op = "install" /\ request = "refused" /\ \E r \in Refusals : ret = Translated[r]
    \/ ret = TimeOutCode /\ waited = (IF op = "install" THEN 2 * WaittingTime ELSE WaittingTime)

\* Every operation returns.
SessionReturns == <>(phase = "returned")
=============================================================================
