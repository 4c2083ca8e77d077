---------------------------- MODULE CacheCallback ----------------------------
(***************************************************************************)
(* The callbacks of bundle_test_tool that carry a code and a value:        *)
(* ProcessCacheCallbackImpl (cache statistics, cleaning of all caches),    *)
(* GetLargestItemsCallbackImpl and BundleStatsCallbackImpl, with the       *)
(* commands that wait for them.  A flag under a mutex lets the first call  *)
(* in; it writes the fields and then fulfils a promise<void>.  The command *)
(* reads the fields once the promise is fulfilled, under the mutex for     *)
(* "items" and "stats" and without it for "stat" and "clean".              *)
(*                                                                         *)
(* "stat" has only a value, "clean" only a code; the field a callback does *)
(* not have keeps its initial value, and so does one never written.        *)
(***************************************************************************)
EXTENDS Naturals

CONSTANTS
  Threads,        \* binder threads, each delivers at most one callback
  Nobody,         \* the holder of a free mutex
  Codes, Ok,      \* result codes; Ok = 0 is also their initial value
  Values, NoValue, \* results; NoValue is their initial value
  CallErrors,     \* codes with which the call itself fails
  TimeOut,        \* how a command that gave up ends
  MaxWaitingTime  \* MAX_WAITING_TIME, in ticks

ASSUME CallbackAssumption ==
  /\ Nobody \notin Threads
  /\ Ok \in Codes /\ NoValue \in Values
  /\ Ok \notin CallErrors \cup {TimeOut}
  /\ TimeOut \notin Codes \cup CallErrors
  /\ MaxWaitingTime \in Nat \ {0}

VARIABLES
  kind,         \* "stat", "clean", "items" or "stats": the command and its callback
  mutex,        \* mutex_
  complete,     \* complete_
  code, value,  \* errCode_ or cleanRet_; cacheSize_, result_ or bundleStats_
  ready,        \* the promise is fulfilled
  broken,       \* a promise was fulfilled twice
  pc, arg,      \* each binder thread: where it is, and <<code, value>> it delivers
  phase,        \* where the command is
  left,         \* ticks until the wait gives up
  gotCode, gotValue,  \* what the command read
  outcome       \* <<how it ended, value>>, <<>> before

fields == <<complete, code, value, ready, broken>>
threads == <<pc, arg>>
command == <<phase, left, gotCode, gotValue, outcome>>
vars == <<kind, mutex, fields, threads, command>>

HasCode == kind # "stat"
HasValue == kind # "clean"
ReadsUnderLock == kind \in {"items", "stats"}

\* What a service delivers to a callback of this kind.
Answers ==
  (IF HasCode THEN Codes ELSE {Ok}) \X (IF HasValue THEN Values ELSE {NoValue})

Init ==
  /\ kind \in {"stat", "clean", "items", "stats"}
  /\ mutex = Nobody
  /\ complete = FALSE /\ code = Ok /\ value = NoValue
  /\ ready = FALSE /\ broken = FALSE
  /\ pc = [t \in Threads |-> "idle"]
  /\ arg = [t \in Threads |-> <<>>]
  /\ phase = "call" /\ left = MaxWaitingTime
  /\ gotCode = Ok /\ gotValue = NoValue
  /\ outcome = <<>>

Goto(t, from, to) == pc[t] = from /\ pc' = [pc EXCEPT ![t] = to]

-----------------------------------------------------------------------------
(* OnGetAllBundleCacheFinished, OnCleanAllBundleCacheFinished,              *)
(* OnGetLargestItemsFinished, OnGetBundleStatsFinished: one body            *)

\* The service may call as soon as it has the call, and more than once.
Deliver(t) ==
  /\ phase # "call"
  /\ Goto(t, "idle", "lock")
  /\ \E a \in Answers : arg' = [arg EXCEPT ![t] = a]
  /\ UNCHANGED <<kind, mutex, fields, command>>

Lock(t) ==
  /\ mutex = Nobody /\ mutex' = t
  /\ Goto(t, "lock", "check")
  /\ UNCHANGED <<kind, fields, arg, command>>

CheckCompleteWithoutSetting(t) ==
  /\ Goto(t, "check", IF complete THEN "unlock" ELSE "code")
  /\ UNCHANGED <<kind, mutex, fields, arg, command>>

CheckComplete(t) ==
  /\ Goto(t, "check", IF complete THEN "unlock" ELSE "code")
  /\ complete' = TRUE
  /\ UNCHANGED <<kind, mutex, code, value, ready, broken, arg, command>>

WriteCodeAndSignal(t) ==
  /\ Goto(t, "code", "value")
  /\ code' = arg[t][1]
  /\ ready' = TRUE
  /\ UNCHANGED <<kind, mutex, complete, value, broken, arg, command>>

WriteCode(t) ==
  /\ Goto(t, "code", "value")
  /\ code' = arg[t][1]
  /\ UNCHANGED <<kind, mutex, complete, value, ready, broken, arg, command>>

WriteValue(t) ==
  /\ Goto(t, "value", "signal")
  /\ value' = arg[t][2]
  /\ UNCHANGED <<kind, mutex, complete, code, ready, broken, arg, command>>

\* set_value throws when the promise is fulfilled.
SetValue(t) ==
  /\ Goto(t, "signal", "unlock")
  /\ ready' = TRUE
  /\ broken' = (broken \/ ready)
  /\ UNCHANGED <<kind, mutex, complete, code, value, arg, command>>

Unlock(t) ==
  /\ Goto(t, "unlock", "done")
  /\ mutex' = Nobody
  /\ UNCHANGED <<kind, fields, arg, command>>

Callback(t) ==
  \/ Lock(t) \/ CheckComplete(t) \/ WriteCode(t) \/ WriteValue(t) \/ SetValue(t)
  \/ Unlock(t)

-----------------------------------------------------------------------------
(* GetAllBundleCacheStat, CleanAllBundleCache,                              *)
(* RunAsGetTopNLargestItemsInAppDataDir, GetBundleStatsAsync                *)

\* A call that fails is reported, one that succeeds is waited for.
Call ==
  /\ phase = "call"
  /\ \/ phase' = "wait" /\ UNCHANGED outcome
     \/ phase' = "done" /\ \E e \in CallErrors : outcome' = <<e, NoValue>>
  /\ UNCHANGED <<kind, mutex, fields, threads, left, gotCode, gotValue>>

WaitForEver ==
  /\ phase = "wait" /\ ready
  /\ phase' = "code"
  /\ UNCHANGED <<kind, mutex, fields, threads, left, gotCode, gotValue, outcome>>

\* A statistics command that gives up still reports success, with a size of zero; the
\* others report the failure, or nothing.
GaveUp == <<IF kind = "stat" THEN Ok ELSE TimeOut, NoValue>>

WaitForCompletion ==
  /\ phase = "wait"
  /\ \/ ready /\ phase' = "code" /\ UNCHANGED outcome
     \/ ~ready /\ left = 0 /\ phase' = "done" /\ outcome' = GaveUp
  /\ UNCHANGED <<kind, mutex, fields, threads, left, gotCode, gotValue>>

Tick ==
  /\ phase = "wait" /\ left > 0
  /\ left' = left - 1
  /\ UNCHANGED <<kind, mutex, fields, threads, phase, gotCode, gotValue, outcome>>

\* GetResultCode; the lock of a getter is taken and released within the step.
ReadCode ==
  /\ phase = "code"
  /\ ReadsUnderLock => mutex = Nobody
  /\ gotCode' = code
  /\ phase' = "value"
  /\ UNCHANGED <<kind, mutex, fields, threads, left, gotValue, outcome>>

\* GetResultMsg, GetBundleStats or GetCacheStat: the second getter, after the first.
ReadValue ==
  /\ phase = "value"
  /\ ReadsUnderLock => mutex = Nobody
  /\ gotValue' = value
  /\ phase' = "report"
  /\ UNCHANGED <<kind, mutex, fields, threads, left, gotCode, outcome>>

\* The value is printed with the code Ok only.
Report ==
  /\ phase = "report"
  /\ outcome' = <<gotCode, IF gotCode = Ok THEN gotValue ELSE NoValue>>
  /\ phase' = "done"
  /\ UNCHANGED <<kind, mutex, fields, threads, left, gotCode, gotValue>>

Command == Call \/ WaitForCompletion \/ ReadCode \/ ReadValue \/ Report

Next ==
  \/ \E t \in Threads : Deliver(t) \/ Callback(t)
  \/ Command \/ Tick

(***************************************************************************)
(* The command and the threads in a callback run and time passes; nobody   *)
(* is obliged to call back.  A getter waits for a mutex that finitely many *)
(* callbacks hold, so weak fairness is enough.                             *)
(***************************************************************************)
Spec == Init /\ [][Next]_vars
FairSpec ==
  /\ Spec
  /\ WF_vars(Command) /\ WF_vars(Tick)
  /\ \A t \in Threads : WF_vars(Callback(t))

-----------------------------------------------------------------------------
(* Properties *)

\* Types, and who holds the mutex.
TypeOK ==
  /\ kind \in {"stat", "clean", "items", "stats"}
  /\ mutex \in Threads \cup {Nobody}
  /\ {complete, ready, broken} \subseteq BOOLEAN
  /\ code \in Codes /\ gotCode \in Codes
  /\ value \in Values /\ gotValue \in Values
  /\ pc \in [Threads -> {"idle", "lock", "check", "code", "value", "signal", "unlock", "done"}]
  /\ arg \in [Threads -> (Codes \X Values) \cup {<<>>}]
  /\ phase \in {"call", "wait", "code", "value", "report", "done"}
  /\ left \in 0 .. MaxWaitingTime
  /\ outcome \in {<<>>} \cup ((Codes \cup CallErrors \cup {TimeOut}) \X Values)
  /\ \A t \in Threads :
       mutex = t <=> pc[t] \in {"check", "code", "value", "signal", "unlock"}

\* No promise is fulfilled twice, however often the service calls.
NoFutureError == ~broken

Writing(t) == pc[t] \in {"code", "value"}

\* The fields are never read while a callback writes them, by any of the commands:
\* those without the lock are safe because the promise is fulfilled last and once.
NoRacyRead ==
  phase \in {"code", "value"} => \A t \in Threads : ~Writing(t)

\* What is reported comes from one callback: the code and the value of the same call,
\* or an error of the call itself, or what is reported after the whole time has passed.
OutcomeOfOneCallback ==
  outcome # <<>> =>
    \/ outcome[1] \in CallErrors /\ outcome[2] = NoValue
    \/ left = 0 /\ outcome = GaveUp
    \/ \E t \in Threads :
         /\ pc[t] \in {"unlock", "done"} /\ arg[t][1] = outcome[1]
         /\ outcome[2] = IF outcome[1] = Ok THEN arg[t][2] ELSE NoValue

(***************************************************************************)
(* The callback as a one-shot promise of a code with a value: what is      *)
(* published is what the fields hold behind the fulfilled promise.  A      *)
(* command leaves it that gave up or has read; one whose call failed never *)
(* waited.  Of a statistics command a size of zero is taken for giving up, *)
(* since nobody can tell them apart.                                       *)
(***************************************************************************)
Published == IF ready THEN <<code, value>> ELSE <<>>

Outcome ==
  IF outcome = <<>> \/ outcome[1] \in CallErrors THEN <<>>
  ELSE IF outcome = GaveUp THEN <<TimeOut, NoValue>>
  ELSE outcome

Promise == INSTANCE OneShot WITH
  Msgs <- Values, EmptyMsg <- NoValue, TimeOutCode <- TimeOut,
  answer <- Published, outcome <- Outcome

\* Whatever further calls do to the fields, they never change behind the fulfilled
\* promise, and the command leaves once, with what they hold or without an answer.
ImplementsOneShot == Promise!Spec

\* The command returns, whether or not the service calls back.
CommandReturns == <>(phase = "done")
=============================================================================
