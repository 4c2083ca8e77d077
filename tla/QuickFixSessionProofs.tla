------------------------ MODULE QuickFixSessionProofs ------------------------
(***************************************************************************)
(* What holds of a quick fix operation for any codes, errors and waiting   *)
(* time.  The callback has no guard, so everything rests on who can have   *)
(* called it: SessionInv ties the promise to the service's answer and to   *)
(* the death notice, and the notice to what became of the recipient.       *)
(***************************************************************************)
EXTENDS QuickFixSession, TLAPS

\* The promise has a value only if somebody has set it.
PromiseInv == promise # Unset => request = "answered" \/ notice = "done"

\* Only a dead service is reported.
NoticeInv == notice # "idle" => ~alive

\* The request is made once, after everything that may fail before it.
RequestInv == phase \in {"register", "proxy", "copy", "call"} => request = "none"

\* The guard leaves no recipient behind, so that of a death after the return nobody is told.
GuardInv ==
  /\ tool = "bm" /\ phase = "returned" => ~registered
  /\ diedAfter => phase = "returned"
  /\ tool = "bm" /\ diedAfter => notice = "idle"

SessionInv ==
  TypeOK /\ PromiseInv /\ NoticeInv /\ AbortNeedsBothCallbacks /\ RequestInv /\ GuardInv

-----------------------------------------------------------------------------

USE QuickFixAssumption

\* An operation begins with an empty promise and without a recipient.
LEMMA InitSessionInv == Init => SessionInv
<1> SUFFICES ASSUME Init PROVE SessionInv
  OBVIOUS
<1>1. TypeOK
  <2>1. op \in {"deploy", "switch", "delete"}
    BY DEF Init
  <2>2. left \in 0 .. WaittingTime
    BY DEF Init
  <2>3. QED
    BY <2>1, <2>2 DEF Init, TypeOK
<1>2. PromiseInv /\ NoticeInv /\ AbortNeedsBothCallbacks /\ RequestInv /\ GuardInv
  BY DEF Init, PromiseInv, NoticeInv, AbortNeedsBothCallbacks, RequestInv, GuardInv
<1>3. QED
  BY <1>1, <1>2 DEF SessionInv

-----------------------------------------------------------------------------
(* The command thread's steps *)

\* What the callback's part of the invariant speaks of; the command thread leaves it alone.
callbackVars == <<tool, op, alive, notice, promise, process, diedAfter>>

\* A step of the command thread may make the request, before which nobody answers, and
\* returns, if at all, through the guard.
LEMMA CommandKeeps ==
  ASSUME SessionInv, TypeOK', RequestInv', UNCHANGED callbackVars,
         request' # request => request = "none",
         phase # "returned",
         registered' => registered \/ phase' # "returned",
         tool = "bm" /\ phase' = "returned" => ~registered'
  PROVE  SessionInv'
<1> USE DEF SessionInv, callbackVars
<1>1. PromiseInv' /\ AbortNeedsBothCallbacks'
  BY DEF PromiseInv, AbortNeedsBothCallbacks
<1>2. NoticeInv'
  BY DEF NoticeInv
<1>3. GuardInv'
  BY DEF GuardInv
<1>4. QED
  BY <1>1, <1>2, <1>3

\* AddDeathRecipient comes first.
LEMMA RegisterKeeps == ASSUME SessionInv, Register PROVE SessionInv'
<1> USE DEF Register
<1>1. registered' \in BOOLEAN
  BY DEF SessionInv, TypeOK
<1>2. TypeOK'
  BY <1>1 DEF SessionInv, TypeOK
<1>3. RequestInv'
  BY DEF SessionInv, RequestInv
<1>4. QED
  BY <1>2, <1>3, CommandKeeps DEF callbackVars, SessionInv, RequestInv

\* Without a proxy the operation is over.
LEMMA GetProxyKeeps == ASSUME SessionInv, GetProxy PROVE SessionInv'
<1> USE DEF GetProxy, Goto, Leave
<1>1. registered' \in BOOLEAN
  BY DEF SessionInv, TypeOK
<1>2. TypeOK'
  BY <1>1 DEF SessionInv, TypeOK
<1>3. RequestInv'
  BY DEF SessionInv, RequestInv
<1>4. QED
  BY <1>2, <1>3, CommandKeeps DEF callbackVars, SessionInv, RequestInv

\* A copy that fails ends the operation before the request is made.
LEMMA CopyFilesKeeps == ASSUME SessionInv, CopyFiles PROVE SessionInv'
<1> USE DEF CopyFiles, Goto, Leave
<1>1. registered' \in BOOLEAN
  BY DEF SessionInv, TypeOK
<1>2. TypeOK'
  BY <1>1 DEF SessionInv, TypeOK
<1>3. RequestInv'
  BY DEF SessionInv, RequestInv
<1>4. QED
  BY <1>2, <1>3, CommandKeeps DEF callbackVars, SessionInv, RequestInv

\* The request is made once, and is lost on a dead service.
LEMMA CallKeeps == ASSUME SessionInv, Call PROVE SessionInv'
<1> USE DEF Call, Goto
<1>1. registered' \in BOOLEAN
  BY DEF SessionInv, TypeOK
<1>2. TypeOK'
  BY <1>1 DEF SessionInv, TypeOK
<1>3. RequestInv'
  BY DEF SessionInv, RequestInv
<1>4. QED
  BY <1>2, <1>3, CommandKeeps DEF callbackVars, SessionInv, RequestInv

\* A call that fails ends the operation without waiting.
LEMMA CallReturnsKeeps == ASSUME SessionInv, CallReturns PROVE SessionInv'
<1> USE DEF CallReturns, Goto, Leave
<1>1. registered' \in BOOLEAN
  BY DEF SessionInv, TypeOK
<1>2. TypeOK'
  BY <1>1 DEF SessionInv, TypeOK
<1>3. RequestInv'
  BY DEF SessionInv, RequestInv
<1>4. QED
  BY <1>2, <1>3, CommandKeeps DEF callbackVars, SessionInv, RequestInv

\* The result is the promise's, or the time is up.
LEMMA GetResultCodeKeeps == ASSUME SessionInv, GetResultCode PROVE SessionInv'
<1> USE DEF GetResultCode, Leave
<1>1. registered' \in BOOLEAN
  BY DEF SessionInv, TypeOK
<1>2. TypeOK'
  BY <1>1 DEF SessionInv, TypeOK
<1>3. RequestInv'
  BY DEF SessionInv, RequestInv
<1>4. QED
  BY <1>2, <1>3, CommandKeeps DEF callbackVars, SessionInv, RequestInv

\* Time passes only while the command waits.
LEMMA TickKeeps == ASSUME SessionInv, Tick PROVE SessionInv'
<1> USE DEF Tick
<1>1. registered' \in BOOLEAN
  BY DEF SessionInv, TypeOK
<1>2. TypeOK'
  BY <1>1 DEF SessionInv, TypeOK
<1>3. RequestInv'
  BY DEF SessionInv, RequestInv
<1>4. QED
  BY <1>2, <1>3, CommandKeeps DEF callbackVars, SessionInv, RequestInv

-----------------------------------------------------------------------------
(* The service's steps *)

\* The service accepts or refuses, and answers what it has accepted: no value is set.
LEMMA ServiceDecidesKeeps ==
  ASSUME SessionInv, ServiceDecides \/ ServiceAnswers PROVE SessionInv'
<1> USE DEF SessionInv, ServiceDecides, ServiceAnswers
<1>1. TypeOK'
  BY DEF TypeOK
<1>2. PromiseInv' /\ NoticeInv' /\ AbortNeedsBothCallbacks'
  BY DEF PromiseInv, NoticeInv, AbortNeedsBothCallbacks
<1>3. RequestInv' /\ GuardInv'
  BY DEF RequestInv, GuardInv
<1>4. QED
  BY <1>1, <1>2, <1>3

\* A service that dies was alive until then, so that its death was not reported before.
LEMMA ServiceDiesKeeps == ASSUME SessionInv, ServiceDies PROVE SessionInv'
<1> USE DEF SessionInv, ServiceDies
<1>1. TypeOK'
  <2>1. diedAfter' \in BOOLEAN
    OBVIOUS
  <2>2. alive' \in BOOLEAN /\ registered' \in BOOLEAN
    BY DEF TypeOK
  <2>3. QED
    BY <2>1, <2>2 DEF TypeOK
<1>2. PromiseInv' /\ NoticeInv' /\ AbortNeedsBothCallbacks'
  BY DEF PromiseInv, NoticeInv, AbortNeedsBothCallbacks
<1>3. RequestInv'
  BY DEF RequestInv
<1>4. notice = "idle"
  BY DEF NoticeInv
<1>5. GuardInv'
  BY <1>4 DEF GuardInv
<1>6. QED
  BY <1>1, <1>2, <1>3, <1>5

-----------------------------------------------------------------------------
(* The callback's steps *)

\* The first call of set_value leaves its code; the second one ends the process.
LEMMA SetValueKeepsType ==
  ASSUME TypeOK, NEW code \in Codes \cup {Died}, SetValue(code)
  PROVE  /\ promise' \in Codes \cup {Died, Unset}
         /\ process' \in {"runs", "aborted"}
         /\ process' = "aborted" => promise # Unset \/ process = "aborted"
  BY DEF SetValue, TypeOK

\* The service's answer finds a value in the promise only if the death was reported.
LEMMA OnPatchFinishedKeeps == ASSUME SessionInv, OnPatchFinished PROVE SessionInv'
<1> USE DEF SessionInv, OnPatchFinished
<1>1. PICK code \in Codes : SetValue(code)
  OBVIOUS
<1>2. TypeOK'
  BY <1>1, SetValueKeepsType DEF TypeOK
<1>3. AbortNeedsBothCallbacks'
  BY <1>1, SetValueKeepsType DEF AbortNeedsBothCallbacks, PromiseInv, NoticeInv, Runs
<1>4. PromiseInv' /\ NoticeInv'
  BY DEF PromiseInv, NoticeInv
<1>5. RequestInv' /\ GuardInv'
  BY DEF RequestInv, GuardInv
<1>6. QED
  BY <1>2, <1>3, <1>4, <1>5

\* The recipient that is told of a death is registered, so bm has not returned.
LEMMA NoticeDeathKeeps == ASSUME SessionInv, NoticeDeath PROVE SessionInv'
<1> USE DEF SessionInv, NoticeDeath
<1>1. TypeOK'
  BY DEF TypeOK
<1>2. PromiseInv' /\ NoticeInv' /\ AbortNeedsBothCallbacks'
  BY DEF PromiseInv, NoticeInv, AbortNeedsBothCallbacks
<1>3. RequestInv' /\ GuardInv'
  BY DEF RequestInv, GuardInv
<1>4. QED
  BY <1>1, <1>2, <1>3

\* The recipient's call finds a value in the promise only if the service has answered.
LEMMA OnRemoteDiedKeeps == ASSUME SessionInv, OnRemoteDied PROVE SessionInv'
<1> USE DEF SessionInv, OnRemoteDied
<1>1. TypeOK'
  BY SetValueKeepsType DEF TypeOK
<1>2. AbortNeedsBothCallbacks'
  BY SetValueKeepsType DEF AbortNeedsBothCallbacks, PromiseInv, NoticeInv, Runs
<1>3. PromiseInv' /\ NoticeInv'
  BY DEF PromiseInv, NoticeInv
<1>4. RequestInv' /\ GuardInv'
  BY DEF RequestInv, GuardInv
<1>5. QED
  BY <1>1, <1>2, <1>3, <1>4

-----------------------------------------------------------------------------
(* The invariant and what it gives *)

\* Every step of the command, the service and the callback keeps the invariant.
LEMMA NextSessionInv == SessionInv /\ [Next]_vars => SessionInv'
<1> SUFFICES ASSUME SessionInv, [Next]_vars PROVE SessionInv'
  OBVIOUS
<1>1. CASE Operation \/ Tick
  BY <1>1, RegisterKeeps, GetProxyKeeps, CopyFilesKeeps, CallKeeps, CallReturnsKeeps,
     GetResultCodeKeeps, TickKeeps DEF Operation
<1>2. CASE ServiceDecides \/ ServiceAnswers \/ ServiceDies
  BY <1>2, ServiceDecidesKeeps, ServiceDiesKeeps
<1>3. CASE OnPatchFinished \/ NoticeDeath \/ OnRemoteDied
  BY <1>3, OnPatchFinishedKeeps, NoticeDeathKeeps, OnRemoteDiedKeeps
<1>4. CASE UNCHANGED vars
  BY <1>4 DEF vars, SessionInv, TypeOK, PromiseInv, NoticeInv, AbortNeedsBothCallbacks,
              RequestInv, GuardInv
<1>5. QED
  BY <1>1, <1>2, <1>3, <1>4 DEF Next

\* The strengthening of the properties below holds in every reachable state.
THEOREM Inductive == Spec => []SessionInv
  BY InitSessionInv, NextSessionInv, PTL DEF Spec

\* The operation, its callback and the service keep their types; what the operation
\* returns is a code that somebody reported or one of its own.
THEOREM TypeCorrect == Spec => []TypeOK
<1>1. SessionInv => TypeOK
  BY DEF SessionInv
<1>2. QED
  BY <1>1, Inductive, PTL

\* The process of a quick fix command ends by an exception only if the service has
\* answered, died, and its death was reported to a recipient still registered.
THEOREM AbortCause == Spec => []AbortNeedsBothCallbacks
<1>1. SessionInv => AbortNeedsBothCallbacks
  BY DEF SessionInv
<1>2. QED
  BY <1>1, Inductive, PTL

\* Behind DeathRecipientGuard a death after the return sets nothing and ends nothing.
THEOREM GuardProtects == Spec => []LateDeathIsHarmless
<1>1. SessionInv => LateDeathIsHarmless
  BY DEF SessionInv, TypeOK, AbortNeedsBothCallbacks, GuardInv, LateDeathIsHarmless, Runs
<1>2. QED
  BY <1>1, Inductive, PTL
=============================================================================
