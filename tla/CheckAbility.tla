----------------------------- MODULE CheckAbility -----------------------------
(***************************************************************************)
(* CheckOperation of bundle_test_tool and BundleToolCallbackStub: the      *)
(* command thread takes the tool's mutex, passes the callback to           *)
(* CheckAbilityEnableInstall with the mutex held, and waits on a condition *)
(* variable until the callback has set dataReady_.  The wait has no        *)
(* deadline.  OnRemoteRequest runs on binder threads under the same mutex  *)
(* and drops a message with a foreign interface token.                     *)
(*                                                                         *)
(* The service answers a call that returned true; it may send more         *)
(* messages than one, before or after the call returns, and may die.  A    *)
(* message that was sent is delivered.  A waiter may wake spuriously.      *)
(***************************************************************************)
EXTENDS Naturals

CONSTANTS
  Messages,     \* what the service may send to the callback, each on a thread of its own
  Command,      \* the command thread
  Nobody        \* the holder of a free mutex

ASSUME CheckAssumption == Command \notin Messages /\ Nobody \notin Messages \cup {Command}

VARIABLES
  mutex,        \* mutex_: the command, a message's thread, or Nobody
  dataReady,    \* dataReady_
  sleeping,     \* the command sleeps in cv_.wait
  stage,        \* where the command is
  request,      \* the service's view of the call
  alive,        \* the service lives
  pc,           \* each message: "unsent", "lock", "check", "unlock", "done"
  good          \* the messages that carry the right interface token

checkVars == <<mutex, dataReady, sleeping, stage, request, alive, pc, good>>

CheckInit ==
  /\ mutex = Nobody
  /\ dataReady = FALSE
  /\ sleeping = FALSE
  /\ stage = "lock"
  /\ request = "none"
  /\ alive \in BOOLEAN
  /\ pc = [m \in Messages |-> "unsent"]
  /\ good \in SUBSET Messages

-----------------------------------------------------------------------------
(* CheckOperation *)

LockCommand ==
  /\ stage = "lock" /\ mutex = Nobody
  /\ mutex' = Command
  /\ stage' = "call"
  /\ UNCHANGED <<dataReady, sleeping, request, alive, pc, good>>

Call ==
  /\ stage = "call"
  /\ request' = IF alive THEN "pending" ELSE "lost"
  /\ stage' = "calling"
  /\ UNCHANGED <<mutex, dataReady, sleeping, alive, pc, good>>

\* The lock is released as the operation returns.
Return ==
  /\ stage' = "done"
  /\ mutex' = Nobody

\* A call that returned false is not waited for.
CallReturns ==
  /\ stage = "calling"
  /\ \/ request = "accepted" /\ stage' = "wait" /\ UNCHANGED mutex
     \/ (request = "refused" \/ ~alive) /\ Return
  /\ UNCHANGED <<dataReady, sleeping, request, alive, pc, good>>

SleepAlways ==
  /\ stage = "wait" /\ ~sleeping /\ mutex = Command
  /\ sleeping' = TRUE
  /\ mutex' = Nobody
  /\ UNCHANGED <<dataReady, stage, request, alive, pc, good>>

\* cv_.wait looks at the predicate before it sleeps, with the mutex held.
Sleep ==
  /\ stage = "wait" /\ ~sleeping /\ mutex = Command
  /\ ~dataReady
  /\ sleeping' = TRUE
  /\ mutex' = Nobody
  /\ UNCHANGED <<dataReady, stage, request, alive, pc, good>>

\* A notified waiter is awake and takes the mutex again when it is free.
Relock ==
  /\ stage = "wait" /\ ~sleeping /\ mutex = Nobody
  /\ mutex' = Command
  /\ UNCHANGED <<dataReady, sleeping, stage, request, alive, pc, good>>

Ready ==
  /\ stage = "wait" /\ ~sleeping /\ mutex = Command
  /\ dataReady
  /\ dataReady' = FALSE
  /\ Return
  /\ UNCHANGED <<sleeping, request, alive, pc, good>>

SpuriousWakeUp ==
  /\ sleeping
  /\ sleeping' = FALSE
  /\ UNCHANGED <<mutex, dataReady, stage, request, alive, pc, good>>

CheckOperation == LockCommand \/ Call \/ CallReturns \/ Sleep \/ Relock \/ Ready

-----------------------------------------------------------------------------
(* The service *)

ServiceDecides ==
  /\ alive /\ request = "pending"
  /\ request' \in {"accepted", "refused"}
  /\ UNCHANGED <<mutex, dataReady, sleeping, stage, alive, pc, good>>

\* The callback reaches the service with the call, so it may be called before the reply.
ServiceSends(m) ==
  /\ alive /\ request \in {"pending", "accepted"}
  /\ pc[m] = "unsent"
  /\ pc' = [pc EXCEPT ![m] = "lock"]
  /\ UNCHANGED <<mutex, dataReady, sleeping, stage, request, alive, good>>

ServiceDies ==
  /\ alive
  /\ alive' = FALSE
  /\ UNCHANGED <<mutex, dataReady, sleeping, stage, request, pc, good>>

-----------------------------------------------------------------------------
(* BundleToolCallbackStub::OnRemoteRequest *)

LockMessage(m) ==
  /\ pc[m] = "lock" /\ mutex = Nobody
  /\ mutex' = m
  /\ pc' = [pc EXCEPT ![m] = "check"]
  /\ UNCHANGED <<dataReady, sleeping, stage, request, alive, good>>

\* A message with the wrong token changes nothing; the other one sets the flag and wakes
\* whoever sleeps, in one step: the command reads the flag under the mutex only.
Notify(m) ==
  /\ pc[m] = "check"
  /\ pc' = [pc EXCEPT ![m] = "unlock"]
  /\ IF m \in good
       THEN dataReady' = TRUE /\ sleeping' = FALSE
       ELSE UNCHANGED <<dataReady, sleeping>>
  /\ UNCHANGED <<mutex, stage, request, alive, good>>

KeepLock(m) ==
  /\ pc[m] = "unlock"
  /\ pc' = [pc EXCEPT ![m] = "done"]
  /\ UNCHANGED <<mutex, dataReady, sleeping, stage, request, alive, good>>

UnlockMessage(m) ==
  /\ pc[m] = "unlock"
  /\ mutex' = Nobody
  /\ pc' = [pc EXCEPT ![m] = "done"]
  /\ UNCHANGED <<dataReady, sleeping, stage, request, alive, good>>

OnRemoteRequest(m) == LockMessage(m) \/ Notify(m) \/ UnlockMessage(m)

CheckNext ==
  \/ CheckOperation \/ SpuriousWakeUp
  \/ ServiceDecides \/ ServiceDies
  \/ \E m \in Messages : ServiceSends(m) \/ OnRemoteRequest(m)

(***************************************************************************)
(* The command and the binder threads run, a mutex that is free again and  *)
(* again is got at last (SF), and a call gets its reply.  The service need *)
(* not send anything.                                                      *)
(***************************************************************************)
CheckSpec == CheckInit /\ [][CheckNext]_checkVars
FairCheckSpec ==
  /\ CheckSpec
  /\ SF_checkVars(CheckOperation) /\ WF_checkVars(ServiceDecides)
  /\ \A m \in Messages : SF_checkVars(OnRemoteRequest(m))

-----------------------------------------------------------------------------
(* Properties *)

\* No wake-up is lost and none is forged: the command does not sleep on a flag that is set,
\* however early the message came, and neither a flag that is up nor the end of an accepted
\* check comes of a foreign token or of a spurious wake-up.
NoLostOrForgedWakeUp ==
  /\ ~(sleeping /\ dataReady)
  /\ dataReady \/ (stage = "done" /\ request = "accepted" /\ alive) =>
       \E m \in good : pc[m] \in {"unlock", "done"}

\* Once the service has sent one good message, the command returns; a service that dies
\* before it sends one is waited for without end.
AnsweredCheckReturns ==
  \A m \in Messages :
    (m \in good /\ pc[m] # "unsent" /\ stage = "wait") ~> stage = "done"
=============================================================================
