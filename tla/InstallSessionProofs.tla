------------------------- MODULE InstallSessionProofs -------------------------
(***************************************************************************)
(* What holds of the status receiver and of the sessions with the          *)
(* installer that use it, for any number of threads, any codes, messages,  *)
(* refusals and any waiting time.                                          *)
(*                                                                         *)
(* The receiver comes first.  The invariant IInv says, for each thread     *)
(* inside OnFinished, how much of its answer is in the promises; every     *)
(* other fact about the receiver follows from it.                          *)
(*                                                                         *)
(* A session takes only steps of StatusReceiver, so IInv holds of it too;  *)
(* SessionInv adds who may have answered, and what became of the death     *)
(* recipient.  The last part is about the causes of failure: FullWaitInv   *)
(* counts the time a timeout stands for, CauseInv says who set the code.   *)
(***************************************************************************)
EXTENDS InstallSession, TLAPS

\* A thread holds the mutex exactly while it is between Lock and Unlock.
LockInv == \A t \in Threads : pc[t] \in InLock <=> mutex = t

\* A thread in OnFinished carries an answer.
ArgInv == \A t \in Threads : pc[t] # "idle" => arg[t] \in Answers

\* How far each thread has published its answer.
ThreadInv ==
  \A t \in Threads :
    /\ pc[t] = "setCode" => isSetValue /\ codeSignal = Unset /\ msgSignal = Unset
    /\ pc[t] = "setMsg" => isSetValue /\ codeSignal = arg[t][1] /\ msgSignal = Unset

\* The flag is up before anything is published, and the publication is complete unless
\* a thread is still at it.
SignalInv ==
  /\ ~isSetValue => codeSignal = Unset /\ msgSignal = Unset
  /\ isSetValue =>
       \/ \E t \in Threads : pc[t] \in {"setCode", "setMsg"}
       \/ /\ codeSignal # Unset /\ msgSignal # Unset
          /\ \E t \in Threads : pc[t] \in {"unlock", "done"} /\ arg[t] = <<codeSignal, msgSignal>>

\* What the command has taken from the promises.
WaiterInv ==
  /\ cmd \in {"call", "waitMsg"} => gotMsg = EmptyMsg
  /\ gotMsg # EmptyMsg => msgSignal = gotMsg
  /\ cmd # "done" => gotCode = Unset
  /\ cmd = "done" =>
       \/ gotCode = codeSignal /\ gotCode # Unset
       \/ gotCode = TimeOutCode /\ gotMsg = EmptyMsg

\* The ticks spent so far and the ticks left.
TimeInv ==
  /\ cmd = "call" => waited = 0 /\ left = WaittingTime
  /\ cmd = "waitMsg" => op = "install" /\ waited + left = WaittingTime
  /\ cmd \in {"waitCode", "done"} =>
       waited + left <= (IF op = "install" THEN 2 * WaittingTime ELSE WaittingTime)

ReceiverInv == NoFutureError /\ LockInv /\ ArgInv /\ ThreadInv /\ SignalInv

IInv == TypeOK /\ ReceiverInv /\ WaiterInv /\ TimeInv

-----------------------------------------------------------------------------

USE WaittingAssumption, EmptyMsgAssumption, UnsetAssumption, NobodyAssumption

\* No promise is set and nobody is in OnFinished when a command creates its receiver.
LEMMA InitIInv == Init => IInv
<1> SUFFICES ASSUME Init PROVE IInv
  OBVIOUS
<1> USE DEF Init
<1>1. TypeOK
  <2>1. pc \in [Threads -> {"idle", "lock", "done"} \cup InLock]
    OBVIOUS
  <2>2. arg \in [Threads -> Answers \cup {<<>>}]
    OBVIOUS
  <2>3. left \in 0 .. WaittingTime /\ waited \in Nat
    OBVIOUS
  <2>4. QED
    BY <2>1, <2>2, <2>3 DEF TypeOK
<1>2. NoFutureError /\ ArgInv
  BY DEF NoFutureError, ArgInv
<1>3. LockInv
  BY DEF LockInv, InLock
<1>4. ThreadInv /\ SignalInv
  BY DEF ThreadInv, SignalInv
<1>5. WaiterInv
  BY DEF WaiterInv
<1>6. TimeInv
  BY DEF TimeInv
<1>7. QED
  BY <1>1, <1>2, <1>3, <1>4, <1>5, <1>6 DEF IInv, ReceiverInv

-----------------------------------------------------------------------------
(* What a step leaves alone it keeps true *)

\* The receiver's part of the invariant speaks of the receiver's variables alone.
LEMMA ReceiverFrame == ASSUME ReceiverInv, UNCHANGED receiverVars PROVE ReceiverInv'
<1> USE DEF receiverVars, ReceiverInv
<1>1. NoFutureError' /\ LockInv' /\ ArgInv'
  BY DEF NoFutureError, LockInv, ArgInv
<1>2. ThreadInv' /\ SignalInv'
  BY DEF ThreadInv, SignalInv
<1>3. QED
  BY <1>1, <1>2

\* The clock's part of the invariant speaks of the command's variables alone.
LEMMA TimeFrame == ASSUME TimeInv, UNCHANGED waiterVars PROVE TimeInv'
  BY DEF TimeInv, waiterVars

\* The command keeps what it took from a promise, for a promise keeps its value.
LEMMA WaiterFrame ==
  ASSUME WaiterInv, UNCHANGED waiterVars,
         codeSignal # Unset => codeSignal' = codeSignal,
         msgSignal # Unset => msgSignal' = msgSignal,
         TypeOK
  PROVE  WaiterInv'
<1>1. gotMsg # Unset
  BY DEF TypeOK
<1>2. QED
  BY <1>1 DEF WaiterInv, waiterVars

-----------------------------------------------------------------------------
(* The binder threads' steps *)

\* A party that begins a call of OnFinished disturbs nobody.
LEMMA DeliverKeeps == ASSUME NEW t \in Threads, IInv, Deliver(t) PROVE IInv'
<1> USE DEF IInv, ReceiverInv, Deliver, Goto
<1>1. TypeOK'
  BY DEF TypeOK, InLock, receiverVars, waiterVars
<1>2. NoFutureError' /\ ArgInv'
  BY DEF TypeOK, NoFutureError, ArgInv, ThreadInv
<1>3. LockInv'
  BY DEF TypeOK, LockInv, InLock
<1>4. ThreadInv'
  BY DEF TypeOK, LockInv, ThreadInv, SignalInv, InLock
<1>5. SignalInv'
  BY DEF TypeOK, SignalInv, ThreadInv, ArgInv
<1>6. WaiterInv'
  BY WaiterFrame DEF ThreadInv
<1>7. TimeInv'
  BY TimeFrame
<1>8. QED
  BY <1>1, <1>2, <1>3, <1>4, <1>5, <1>6, <1>7

\* lock_guard: a thread enters only when no other is between Lock and Unlock.
LEMMA LockKeeps == ASSUME NEW t \in Threads, IInv, Lock(t) PROVE IInv'
<1> USE DEF IInv, ReceiverInv, Lock, Goto
<1>1. TypeOK'
  BY DEF TypeOK, InLock, receiverVars, waiterVars
<1>2. NoFutureError' /\ ArgInv'
  BY DEF TypeOK, NoFutureError, ArgInv, ThreadInv
<1>3. LockInv'
  BY DEF TypeOK, LockInv, InLock
<1>4. ThreadInv'
  BY DEF TypeOK, LockInv, ThreadInv, SignalInv, InLock
<1>5. SignalInv'
  BY DEF TypeOK, SignalInv, ThreadInv, ArgInv
<1>6. WaiterInv'
  BY WaiterFrame DEF ThreadInv
<1>7. TimeInv'
  BY TimeFrame
<1>8. QED
  BY <1>1, <1>2, <1>3, <1>4, <1>5, <1>6, <1>7

\* Only the thread that finds isSetValue false goes on to the promises.
LEMMA CheckIsSetValueKeeps == ASSUME NEW t \in Threads, IInv, CheckIsSetValue(t) PROVE IInv'
<1> USE DEF IInv, ReceiverInv, CheckIsSetValue, Goto
<1>1. TypeOK'
  BY DEF TypeOK, InLock, receiverVars, waiterVars
<1>2. NoFutureError' /\ ArgInv'
  BY DEF TypeOK, NoFutureError, ArgInv, ThreadInv
<1>3. LockInv'
  BY DEF TypeOK, LockInv, InLock
<1>4. ThreadInv'
  BY DEF TypeOK, LockInv, ThreadInv, SignalInv, InLock
<1>5. SignalInv'
  BY DEF TypeOK, SignalInv, ThreadInv, ArgInv
<1>6. WaiterInv'
  BY WaiterFrame DEF ThreadInv
<1>7. TimeInv'
  BY TimeFrame
<1>8. QED
  BY <1>1, <1>2, <1>3, <1>4, <1>5, <1>6, <1>7

\* resultCodeSignal_.set_value finds the promise empty.
LEMMA SetCodeKeeps == ASSUME NEW t \in Threads, IInv, SetCode(t) PROVE IInv'
<1> USE DEF IInv, ReceiverInv, SetCode, Goto
<1>0. arg[t] = <<arg[t][1], arg[t][2]>> /\ arg[t][1] \in Codes /\ arg[t][2] \in Msgs
  BY DEF ArgInv, Answers
<1>1. TypeOK'
  BY <1>0 DEF TypeOK, InLock, receiverVars, waiterVars
<1>2. NoFutureError' /\ ArgInv'
  BY DEF TypeOK, NoFutureError, ArgInv, ThreadInv
<1>3. LockInv'
  BY DEF TypeOK, LockInv, InLock
<1>4. ThreadInv'
  BY <1>0 DEF TypeOK, LockInv, ThreadInv, SignalInv, InLock
<1>5. SignalInv'
  BY <1>0 DEF TypeOK, SignalInv, ThreadInv, ArgInv
<1>6. WaiterInv'
  BY WaiterFrame DEF ThreadInv
<1>7. TimeInv'
  BY TimeFrame
<1>8. QED
  BY <1>1, <1>2, <1>3, <1>4, <1>5, <1>6, <1>7

\* resultMsgSignal_.set_value finds the promise empty and completes the answer.
LEMMA SetMsgKeeps == ASSUME NEW t \in Threads, IInv, SetMsg(t) PROVE IInv'
<1> USE DEF IInv, ReceiverInv, SetMsg, Goto
<1>0. arg[t] = <<arg[t][1], arg[t][2]>> /\ arg[t][1] \in Codes /\ arg[t][2] \in Msgs
  BY DEF ArgInv, Answers
<1>1. TypeOK'
  BY <1>0 DEF TypeOK, InLock, receiverVars, waiterVars
<1>2. NoFutureError' /\ ArgInv'
  BY DEF TypeOK, NoFutureError, ArgInv, ThreadInv
<1>3. LockInv'
  BY DEF TypeOK, LockInv, InLock
<1>4. ThreadInv'
  BY <1>0 DEF TypeOK, LockInv, ThreadInv, SignalInv, InLock
<1>5. SignalInv'
  BY <1>0 DEF TypeOK, SignalInv, ThreadInv, ArgInv
<1>6. WaiterInv'
  BY WaiterFrame DEF ThreadInv
<1>7. TimeInv'
  BY TimeFrame
<1>8. QED
  BY <1>1, <1>2, <1>3, <1>4, <1>5, <1>6, <1>7

\* The answer is complete when the mutex is released.
LEMMA UnlockKeeps == ASSUME NEW t \in Threads, IInv, Unlock(t) PROVE IInv'
<1> USE DEF IInv, ReceiverInv, Unlock, Goto
<1>1. TypeOK'
  BY DEF TypeOK, InLock, receiverVars, waiterVars
<1>2. NoFutureError' /\ ArgInv'
  BY DEF TypeOK, NoFutureError, ArgInv, ThreadInv
<1>3. LockInv'
  BY DEF TypeOK, LockInv, InLock
<1>4. ThreadInv'
  BY DEF TypeOK, LockInv, ThreadInv, SignalInv, InLock
<1>5. SignalInv'
  BY DEF TypeOK, SignalInv, ThreadInv, ArgInv
<1>6. WaiterInv'
  BY WaiterFrame DEF ThreadInv
<1>7. TimeInv'
  BY TimeFrame
<1>8. QED
  BY <1>1, <1>2, <1>3, <1>4, <1>5, <1>6, <1>7

-----------------------------------------------------------------------------
(* The command's steps *)

\* The command begins to wait with all of waittingTime_ left.
LEMMA BeginWaitKeeps == ASSUME IInv, BeginWait PROVE IInv'
<1> USE DEF IInv, BeginWait
<1>1. TypeOK'
  BY DEF TypeOK, receiverVars, Waiting
<1>2. ReceiverInv'
  BY ReceiverFrame
<1>3. WaiterInv'
  BY DEF TypeOK, WaiterInv, receiverVars, Waiting
<1>4. TimeInv'
  BY DEF TypeOK, TimeInv, Waiting
<1>5. QED
  BY <1>1, <1>2, <1>3, <1>4

\* GetResultMsg takes what the promise holds, or times out, and the clock starts anew.
LEMMA GetResultMsgKeeps == ASSUME IInv, GetResultMsg PROVE IInv'
<1> USE DEF IInv, GetResultMsg
<1>1. TypeOK'
  BY DEF TypeOK, receiverVars, Waiting
<1>2. ReceiverInv'
  BY ReceiverFrame
<1>3. WaiterInv'
  BY DEF TypeOK, WaiterInv, receiverVars, Waiting
<1>4. TimeInv'
  BY DEF TypeOK, TimeInv, Waiting
<1>5. QED
  BY <1>1, <1>2, <1>3, <1>4

\* When a message was taken the code is there: GetResultCode cannot time out.
LEMMA GetResultCodeKeeps == ASSUME IInv, GetResultCode PROVE IInv'
<1> USE DEF IInv, GetResultCode
<1>1. TypeOK'
  BY DEF TypeOK, receiverVars, Waiting
<1>2. ReceiverInv'
  BY ReceiverFrame
<1>3. WaiterInv'
  <2>1. msgSignal # Unset => codeSignal # Unset
    BY DEF ReceiverInv, SignalInv, ThreadInv
  <2>2. gotMsg # EmptyMsg => codeSignal # Unset
    BY <2>1 DEF TypeOK, WaiterInv
  <2>3. QED
    BY <2>2 DEF TypeOK, WaiterInv, receiverVars
<1>4. TimeInv'
  BY DEF TypeOK, TimeInv, Waiting
<1>5. QED
  BY <1>1, <1>2, <1>3, <1>4

\* What a tick takes from the time left it adds to the time waited.
LEMMA TickKeeps == ASSUME IInv, Tick PROVE IInv'
<1> USE DEF IInv, Tick
<1>1. TypeOK'
  BY DEF TypeOK, receiverVars, Waiting
<1>2. ReceiverInv'
  BY ReceiverFrame
<1>3. WaiterInv'
  BY DEF TypeOK, WaiterInv, receiverVars, Waiting
<1>4. TimeInv'
  <2>1. left \in Nat /\ left' = left - 1 /\ waited' = waited + 1 /\ waited \in Nat
    BY DEF TypeOK
  <2>2. waited' + left' = waited + left
    BY <2>1
  <2>3. cmd \in {"waitMsg", "waitCode"} /\ UNCHANGED <<op, cmd>>
    BY DEF Waiting
  <2>4. QED
    BY <2>2, <2>3 DEF TimeInv
<1>5. QED
  BY <1>1, <1>2, <1>3, <1>4

-----------------------------------------------------------------------------
(* The invariant and what it gives *)

\* Every step of the receiver and of the command keeps the invariant.
LEMMA NextIInv == IInv /\ [Next]_vars => IInv'
<1> SUFFICES ASSUME IInv, [Next]_vars PROVE IInv'
  OBVIOUS
<1>1. ASSUME NEW t \in Threads, Deliver(t) \/ OnFinished(t) PROVE IInv'
  BY <1>1, DeliverKeeps, LockKeeps, CheckIsSetValueKeeps, SetCodeKeeps, SetMsgKeeps, UnlockKeeps
     DEF OnFinished
<1>2. CASE Command
  BY <1>2, BeginWaitKeeps, GetResultMsgKeeps, GetResultCodeKeeps DEF Command
<1>3. CASE Tick
  BY <1>3, TickKeeps
<1>4. CASE UNCHANGED vars
  <2>1. UNCHANGED receiverVars /\ UNCHANGED waiterVars
    BY <1>4 DEF vars
  <2>2. TypeOK'
    BY <2>1 DEF IInv, TypeOK, receiverVars, waiterVars
  <2>3. ReceiverInv' /\ TimeInv'
    BY <2>1, ReceiverFrame, TimeFrame DEF IInv
  <2>4. WaiterInv'
    BY <2>1, WaiterFrame DEF IInv, receiverVars
  <2>5. QED
    BY <2>2, <2>3, <2>4 DEF IInv
<1>5. QED
  BY <1>1, <1>2, <1>3, <1>4 DEF Next

\* The strengthening of every property below holds in every reachable state.
THEOREM Inductive == Spec => []IInv
  BY InitIInv, NextIInv, PTL DEF Spec

\* The receiver and its command keep their types.
THEOREM TypeCorrect == Spec => []TypeOK
<1>1. IInv => TypeOK
  BY DEF IInv
<1>2. QED
  BY <1>1, Inductive, PTL

\* OnFinished never sets a promise twice, however many threads call it.
THEOREM NeverThrows == Spec => []NoFutureError
<1>1. IInv => NoFutureError
  BY DEF IInv, ReceiverInv
<1>2. QED
  BY <1>1, Inductive, PTL

\* Both promises come from the same call of OnFinished whenever the mutex is free.
THEOREM PairPublished == Spec => []AnswerIsWhole
<1>1. IInv => AnswerIsWhole
  <2> SUFFICES ASSUME IInv, mutex = Nobody PROVE AnswerIsWhole
    BY DEF AnswerIsWhole
  <2>1. \A t \in Threads : pc[t] \notin InLock
    BY NobodyAssumption DEF IInv, ReceiverInv, LockInv
  <2>2. CASE isSetValue
    BY <2>1, <2>2 DEF IInv, ReceiverInv, SignalInv, AnswerIsWhole, InLock
  <2>3. CASE ~isSetValue
    BY <2>3 DEF IInv, ReceiverInv, SignalInv, AnswerIsWhole
  <2>4. QED
    BY <2>2, <2>3
<1>2. QED
  BY <1>1, Inductive, PTL

\* The code an install returns with a message is the one that was reported with it.
THEOREM OneAnswer == Spec => []OutcomeOfOneAnswer
<1>1. IInv => OutcomeOfOneAnswer
  <2> SUFFICES ASSUME IInv, cmd = "done", gotMsg # EmptyMsg PROVE OutcomeOfOneAnswer
    BY DEF OutcomeOfOneAnswer
  <2>1. msgSignal = gotMsg /\ msgSignal # Unset /\ gotCode = codeSignal
    BY DEF IInv, TypeOK, WaiterInv
  <2>2. \E t \in Threads : arg[t] = <<codeSignal, msgSignal>>
    BY <2>1 DEF IInv, ReceiverInv, SignalInv, ThreadInv
  <2>3. QED
    BY <2>1, <2>2 DEF OutcomeOfOneAnswer
<1>2. QED
  BY <1>1, Inductive, PTL

\* An install waits at most twice the waiting time, an uninstall at most once.
THEOREM BoundedWait == Spec => []WaitIsBounded
<1>1. IInv => WaitIsBounded
  BY DEF IInv, TypeOK, TimeInv, WaitIsBounded
<1>2. QED
  BY <1>1, Inductive, PTL

-----------------------------------------------------------------------------
(* The refinement: a step of the receiver publishes an answer, ends the    *)
(* operation, or changes nothing that OneShot speaks of.                   *)

\* An answer of which only the code is out is the one of the thread that holds the mutex.
LEMMA HalfPublished ==
  ASSUME IInv, codeSignal # Unset, msgSignal = Unset
  PROVE  mutex \in Threads /\ pc[mutex] = "setMsg"
<1>1. PICK t \in Threads : pc[t] \in {"setCode", "setMsg"}
  BY DEF IInv, ReceiverInv, SignalInv
<1>2. pc[t] = "setMsg"
  BY <1>1 DEF IInv, ReceiverInv, ThreadInv
<1>3. mutex = t
  BY <1>2 DEF IInv, ReceiverInv, LockInv, InLock
<1>4. QED
  BY <1>2, <1>3

\* Published changes only if one of the promises, the mutex or the holder's answer does.
LEMMA PublishedFrame ==
  ASSUME UNCHANGED <<codeSignal, msgSignal>>,
         codeSignal # Unset /\ msgSignal = Unset => UNCHANGED mutex /\ arg'[mutex] = arg[mutex]
  PROVE  Published' = Published
  BY DEF Published

\* A step of OnFinished publishes the answer, in SetCode, or changes nothing visible.
LEMMA BinderRefines ==
  ASSUME NEW t \in Threads, IInv, Deliver(t) \/ OnFinished(t)
  PROVE  [Promise!Next]_<<Published, Outcome>>
<1>1. Outcome' = Outcome
  BY DEF Deliver, OnFinished, Lock, CheckIsSetValue, SetCode, SetMsg, Unlock, waiterVars, Outcome
<1>2. CASE Deliver(t)
  <2>1. ASSUME codeSignal # Unset, msgSignal = Unset
        PROVE  UNCHANGED mutex /\ arg'[mutex] = arg[mutex]
    <3>1. mutex \in Threads /\ mutex # t
      BY <1>2, <2>1, HalfPublished DEF Deliver, Goto
    <3>2. QED
      BY <1>2, <3>1 DEF Deliver, IInv, TypeOK
  <2>2. UNCHANGED <<codeSignal, msgSignal>>
    BY <1>2 DEF Deliver
  <2>3. QED
    BY <1>1, <2>1, <2>2, PublishedFrame
<1>3. CASE Lock(t) \/ CheckIsSetValue(t) \/ Unlock(t)
  <2>1. ASSUME codeSignal # Unset, msgSignal = Unset
        PROVE  UNCHANGED <<mutex, arg>>
    <3>1. mutex \in Threads /\ pc[mutex] = "setMsg"
      BY <2>1, HalfPublished
    <3>2. ~Lock(t)
      BY <3>1, NobodyAssumption DEF Lock
    <3>3. ~Unlock(t)
      BY <3>1 DEF Unlock, Goto, IInv, ReceiverInv, LockInv, InLock
    <3>4. QED
      BY <1>3, <3>2, <3>3 DEF CheckIsSetValue
  <2>2. UNCHANGED <<codeSignal, msgSignal>>
    BY <1>3 DEF Lock, CheckIsSetValue, Unlock
  <2>3. QED
    BY <1>1, <2>1, <2>2, PublishedFrame
<1>4. CASE SetCode(t)
  <2>1. codeSignal = Unset /\ msgSignal = Unset /\ mutex = t
    BY <1>4 DEF SetCode, Goto, IInv, ReceiverInv, ThreadInv, LockInv, InLock
  <2>2. arg[t] \in Answers
    BY <1>4 DEF SetCode, Goto, IInv, ReceiverInv, ArgInv
  <2>3. codeSignal' = arg[t][1] /\ codeSignal' # Unset
    BY <1>4, <2>1, <2>2, UnsetAssumption DEF SetCode, Answers
  <2>4. Published = <<>> /\ Published' = <<arg[t][1], arg[t][2]>>
    BY <1>4, <2>1, <2>3 DEF SetCode, Published
  <2>5. Published' \in Codes \X Msgs
    BY <2>2, <2>4 DEF Answers
  <2>6. Promise!Publish
    BY <1>1, <2>4, <2>5 DEF Promise!Publish, Promise!Answers
  <2>7. QED
    BY <2>6 DEF Promise!Next
<1>5. CASE SetMsg(t)
  <2>1. msgSignal = Unset /\ mutex = t /\ codeSignal = arg[t][1] /\ arg[t] \in Answers
    BY <1>5 DEF SetMsg, Goto, IInv, ReceiverInv, ThreadInv, LockInv, ArgInv, InLock
  <2>2. msgSignal' = arg[t][2] /\ msgSignal' # Unset /\ UNCHANGED codeSignal
    BY <1>5, <2>1, UnsetAssumption DEF SetMsg, Answers
  <2>3. Published' = Published
    BY <2>1, <2>2 DEF Published
  <2>4. QED
    BY <1>1, <2>3
<1>6. QED
  BY <1>2, <1>3, <1>4, <1>5 DEF OnFinished

\* A step of the command leaves with a permitted outcome, in GetResultCode, or changes
\* nothing visible.
LEMMA CommandRefines ==
  ASSUME IInv, Command \/ Tick
  PROVE  [Promise!Next]_<<Published, Outcome>>
<1>1. UNCHANGED receiverVars
  BY DEF Command, BeginWait, GetResultMsg, GetResultCode, Tick
<1>2. Published' = Published
  BY <1>1 DEF receiverVars, Published
<1>3. CASE BeginWait \/ GetResultMsg \/ Tick
  <2>1. cmd # "done" /\ cmd' # "done"
    BY <1>3 DEF BeginWait, GetResultMsg, Tick, Waiting
  <2>2. QED
    BY <1>2, <2>1 DEF Outcome
<1>4. CASE GetResultCode
  <2>1. Outcome = <<>> /\ Outcome' = <<gotCode', gotMsg>>
    BY <1>4 DEF GetResultCode, Outcome
  <2>2. gotMsg # EmptyMsg => codeSignal # Unset /\ msgSignal = gotMsg /\ msgSignal # Unset
    BY DEF IInv, TypeOK, WaiterInv, ReceiverInv, SignalInv, ThreadInv
  <2>3. \/ codeSignal # Unset /\ gotCode' = codeSignal
        \/ codeSignal = Unset /\ gotCode' = TimeOutCode
    BY <1>4 DEF GetResultCode
  <2>4. <<gotCode', gotMsg>> \in Promise!Permitted(Published)
    <3>1. ASSUME codeSignal = Unset
          PROVE  <<gotCode', gotMsg>> = <<TimeOutCode, EmptyMsg>>
      BY <2>2, <2>3, <3>1
    <3>2. ASSUME codeSignal # Unset
          PROVE  Published # <<>> /\ Published[1] = gotCode'
                   /\ (gotMsg = EmptyMsg \/ gotMsg = Published[2])
      BY <2>2, <2>3, <3>2 DEF Published
    <3>3. QED
      BY <3>1, <3>2 DEF Promise!Permitted
  <2>5. Promise!Leave
    BY <1>2, <2>1, <2>4 DEF Promise!Leave
  <2>6. QED
    BY <2>5 DEF Promise!Next
<1>5. QED
  BY <1>3, <1>4 DEF Command

\* The receiver, any number of answering parties and the waiting command together
\* implement the one-shot promise.
THEOREM Refinement == Spec => ImplementsOneShot
<1>1. Init => Promise!Init
  BY DEF Init, Promise!Init, Published, Outcome
<1>2. IInv /\ [Next]_vars => [Promise!Next]_<<Published, Outcome>>
  <2>1. UNCHANGED vars => UNCHANGED <<Published, Outcome>>
    BY DEF vars, receiverVars, waiterVars, Published, Outcome
  <2>2. QED
    BY <2>1, BinderRefines, CommandRefines DEF Next
<1>3. QED
  BY <1>1, <1>2, Inductive, PTL DEF Spec, ImplementsOneShot, Promise!Spec, Promise!vars

-----------------------------------------------------------------------------
(***************************************************************************)
(* The session: an install, an uninstall or a recover.                     *)
(***************************************************************************)

\* Only the service and the recipient answer, the recipient with a death.
AnswerInv ==
  /\ pc[Service] # "idle" => request = "answered"
  /\ pc[Recipient] # "idle" => arg[Recipient][1] = Died
  /\ \A t \in Threads \ {Service, Recipient} : pc[t] = "idle"

\* A success, in the promise or returned, is the one the service reported.
SuccessInv ==
  /\ codeSignal = Ok => request = "answered" /\ arg[Service][1] = Ok
  /\ ret = Ok => codeSignal = Ok

\* The recipient is there from its registration until the operation leaves.
RecipientInv == alive /\ phase \in {"ipc", "calling", "waiting"} => registered

\* The service is called once, after the recipient was registered.
CallInv == phase \in {"register", "ipc"} => request = "none"

SessionInv == SessionTypeOK /\ CallInv /\ AnswerInv /\ SuccessInv /\ RecipientInv

-----------------------------------------------------------------------------
(* The session as an implementation of the receiver's specification *)

\* Whatever a step of the session does to the receiver is a step of StatusReceiver.
LEMMA SessionStep == [SessionNext]_allVars => [Next]_vars
<1> SUFFICES ASSUME [SessionNext]_allVars PROVE [Next]_vars
  OBVIOUS
<1>1. CASE Operation
  <2>1. CASE Register \/ Call \/ Finish
    BY <2>1 DEF Register, Call, Finish
  <2>2. CASE CallReturns
    BY <2>2 DEF CallReturns, AfterCall, Next, Command
  <2>3. CASE Wait
    BY <2>3 DEF Wait, Next, Command
  <2>4. QED
    BY <1>1, <2>1, <2>2, <2>3 DEF Operation
<1>2. CASE ServiceDecides \/ ServiceDies
  BY <1>2 DEF ServiceDecides, ServiceDies
<1>3. CASE ServiceAnswers \/ DeathNotice
  BY <1>3, SessionAssumption DEF ServiceAnswers, DeathNotice, Next
<1>4. ASSUME NEW t \in Threads, Binder(t) PROVE [Next]_vars
  BY <1>4 DEF Binder, Next
<1>5. CASE TimePasses
  BY <1>5 DEF TimePasses, Next
<1>6. CASE UNCHANGED allVars
  BY <1>6 DEF allVars
<1>7. QED
  BY <1>1, <1>2, <1>3, <1>4, <1>5, <1>6 DEF SessionNext

\* Every session behaves as StatusReceiver says, so what is proved of it holds here:
\* nobody sets a promise twice, and the outcome is that of one answer.
THEOREM SessionRefinement == SessionSpec => ImplementsReceiver
<1>1. SessionInit => Init
  BY DEF SessionInit
<1>2. QED
  BY <1>1, SessionStep, PTL DEF SessionSpec, ImplementsReceiver, Spec

\* The receiver's invariant holds throughout a session.
LEMMA SessionIInv == SessionSpec => []IInv
  BY SessionRefinement, Inductive, PTL DEF ImplementsReceiver

-----------------------------------------------------------------------------
(* What the session adds *)

\* Before the operation begins nobody has answered and nothing is registered.
LEMMA InitSessionInv == SessionInit => SessionInv
<1> SUFFICES ASSUME SessionInit PROVE SessionInv
  OBVIOUS
<1>1. TypeOK
  BY InitIInv DEF SessionInit, IInv
<1>2. SessionTypeOK /\ CallInv
  BY <1>1 DEF SessionInit, SessionTypeOK, CallInv
<1>3. AnswerInv /\ SuccessInv
  BY SessionAssumption, UnsetAssumption DEF SessionInit, Init, AnswerInv, SuccessInv
<1>4. RecipientInv
  BY DEF SessionInit, RecipientInv
<1>5. QED
  BY <1>2, <1>3, <1>4 DEF SessionInv

\* A step that does not touch the receiver keeps what is known of the answers, unless it
\* takes back the service's answer or returns a success of its own.
LEMMA AnswerFrame ==
  ASSUME AnswerInv, SuccessInv, UNCHANGED receiverVars,
         request = "answered" => request' = "answered",
         ret' = Ok => ret = Ok \/ codeSignal = Ok
  PROVE  AnswerInv' /\ SuccessInv'
  BY DEF AnswerInv, SuccessInv, receiverVars

\* Registering, calling, and what the service does before it answers.
LEMMA PreludeKeeps ==
  ASSUME SessionInv, TypeOK', Register \/ Call \/ ServiceDecides \/ ServiceDies
  PROVE  SessionInv'
<1> USE DEF SessionInv, Register, Call, ServiceDecides, ServiceDies
<1>1. UNCHANGED receiverVars /\ UNCHANGED ret
  BY DEF vars
<1>2. SessionTypeOK' /\ CallInv'
  BY DEF SessionTypeOK, CallInv
<1>3. AnswerInv' /\ SuccessInv'
  BY <1>1, AnswerFrame DEF CallInv
<1>4. RecipientInv'
  <2>1. CASE Register
    BY <2>1 DEF RecipientInv
  <2>2. CASE Call \/ ServiceDecides \/ ServiceDies
    BY <2>2 DEF RecipientInv
  <2>3. QED
    BY <2>1, <2>2
<1>5. QED
  BY <1>2, <1>3, <1>4

\* A call that returns never makes a success of an error.
LEMMA CallReturnsKeeps ==
  ASSUME SessionInv, TypeOK', CallReturns
  PROVE  SessionInv'
<1> USE DEF SessionInv
<1>0. PICK res \in CallResults : AfterCall(res)
  BY DEF CallReturns
<1>1. /\ phase = "calling" /\ phase' \in {"waiting", "returned"}
      /\ UNCHANGED <<tool, alive, request>>
  BY <1>0 DEF CallReturns, AfterCall, Leave
<1>2. res \in Refusals \cup {IpcError, Ok}
  BY <1>0 DEF CallResults
<1>3. Translate(res) \in Refusals \cup {Translated[r] : r \in Refusals} \cup {IpcError, Ok}
  BY <1>2 DEF Translate
<1>4. res # Ok => Translate(res) # Ok
  BY <1>2, SessionAssumption DEF Translate
<1>5. \/ phase' = "waiting" /\ UNCHANGED <<registered, ret>>
      \/ /\ phase' = "returned" /\ ret' = Translate(res) /\ ret' # Ok
         /\ registered' = (registered /\ tool # "bm")
  BY <1>0, <1>4 DEF AfterCall, Leave
<1>6. UNCHANGED receiverVars
  BY <1>0 DEF AfterCall, BeginWait, vars
<1>7. SessionTypeOK' /\ CallInv'
  BY <1>1, <1>3, <1>5, SessionAssumption DEF SessionTypeOK, CallInv
<1>8. AnswerInv' /\ SuccessInv'
  BY <1>1, <1>5, <1>6, AnswerFrame
<1>9. RecipientInv'
  BY <1>1, <1>5 DEF RecipientInv
<1>10. QED
  BY <1>7, <1>8, <1>9

\* Waiting changes nothing in the session.
LEMMA WaitKeeps ==
  ASSUME SessionInv, TypeOK', Wait \/ TimePasses
  PROVE  SessionInv'
<1> USE DEF SessionInv
<1>1. UNCHANGED sessionVars /\ UNCHANGED receiverVars
  BY DEF Wait, TimePasses, GetResultMsg, GetResultCode, Tick
<1>2. SessionTypeOK' /\ CallInv' /\ RecipientInv'
  BY <1>1 DEF sessionVars, SessionTypeOK, CallInv, RecipientInv
<1>3. AnswerInv' /\ SuccessInv'
  BY <1>1, AnswerFrame DEF sessionVars
<1>4. QED
  BY <1>2, <1>3

\* The operation returns what it took from the promise, or the timeout.
LEMMA FinishKeeps ==
  ASSUME SessionInv, IInv, TypeOK', Finish
  PROVE  SessionInv'
<1> USE DEF SessionInv, Finish, Leave
<1>1. gotCode = Ok => codeSignal = Ok
  BY SessionAssumption DEF IInv, WaiterInv
<1>2. UNCHANGED receiverVars
  BY DEF vars
<1>3. SessionTypeOK' /\ CallInv'
  BY DEF SessionTypeOK, TypeOK, CallInv
<1>4. AnswerInv' /\ SuccessInv'
  BY <1>1, <1>2, AnswerFrame
<1>5. RecipientInv'
  BY DEF RecipientInv
<1>6. QED
  BY <1>3, <1>4, <1>5

\* The service answers once, on its own thread; a dead service is reported as such.
LEMMA AnswerKeeps ==
  ASSUME SessionInv, IInv, TypeOK', ServiceAnswers \/ DeathNotice
  PROVE  SessionInv'
<1> USE SessionAssumption DEF SessionInv, ServiceAnswers, DeathNotice
<1>1. UNCHANGED <<tool, phase, alive, registered, ret, codeSignal>>
  BY DEF sessionVars, Deliver
<1>2. request' = request \/ (request = "accepted" /\ request' = "answered")
  BY DEF sessionVars
<1>3. SessionTypeOK' /\ CallInv' /\ RecipientInv'
  BY <1>1, <1>2 DEF SessionTypeOK, CallInv, RecipientInv
<1>4. CASE ServiceAnswers
  <2>1. request = "accepted" /\ request' = "answered" /\ codeSignal # Ok
    BY <1>4 DEF SuccessInv
  <2>2. AnswerInv'
    BY <1>4, <2>1 DEF AnswerInv, Deliver, Goto, IInv, TypeOK
  <2>3. SuccessInv'
    BY <1>1, <2>1 DEF SuccessInv
  <2>4. QED
    BY <1>3, <2>2, <2>3
<1>5. CASE DeathNotice
  <2>1. AnswerInv'
    BY <1>5 DEF AnswerInv, sessionVars, Deliver, Goto, IInv, TypeOK
  <2>2. arg'[Service] = arg[Service] /\ UNCHANGED request
    BY <1>5 DEF sessionVars, Deliver, IInv, TypeOK
  <2>3. SuccessInv'
    BY <1>1, <2>2 DEF SuccessInv
  <2>4. QED
    BY <1>3, <2>1, <2>3
<1>6. QED
  BY <1>4, <1>5

\* In OnFinished the code is set to the caller's own: a success to the service's.
LEMMA BinderKeeps ==
  ASSUME SessionInv, IInv, TypeOK', NEW t \in Threads, Binder(t)
  PROVE  SessionInv'
<1> USE SessionAssumption DEF SessionInv, Binder
<1>1. UNCHANGED <<tool, phase, alive, registered, request, ret>>
  BY DEF sessionVars
<1>2. SessionTypeOK' /\ CallInv' /\ RecipientInv'
  BY <1>1 DEF SessionTypeOK, CallInv, RecipientInv
<1>3. pc[t] # "idle" /\ UNCHANGED arg /\ \A u \in Threads : u # t => pc'[u] = pc[u]
  BY DEF OnFinished, Lock, CheckIsSetValue, SetCode, SetMsg, Unlock, Goto, IInv, TypeOK
<1>4. AnswerInv'
  BY <1>1, <1>3 DEF AnswerInv
<1>5. UNCHANGED codeSignal \/ SetCode(t)
  BY DEF OnFinished, Lock, CheckIsSetValue, SetMsg, Unlock
<1>6. CASE UNCHANGED codeSignal
  BY <1>1, <1>2, <1>3, <1>4, <1>6 DEF SuccessInv
<1>7. CASE SetCode(t)
  <2>1. codeSignal = Unset /\ codeSignal' = arg[t][1]
    BY <1>7 DEF SetCode, Goto, IInv, ReceiverInv, ThreadInv
  <2>2. codeSignal # Ok /\ ret # Ok
    BY <2>1, UnsetAssumption DEF SuccessInv
  <2>3. codeSignal' = Ok => t = Service
    BY <1>3, <2>1 DEF AnswerInv
  <2>4. SuccessInv'
    BY <1>1, <1>3, <2>1, <2>2, <2>3 DEF SuccessInv, AnswerInv
  <2>5. QED
    BY <1>2, <1>4, <2>4
<1>8. QED
  BY <1>5, <1>6, <1>7

-----------------------------------------------------------------------------
(* The session's properties *)

\* SessionInv holds in every reachable state of a session.
THEOREM SessionInductive == SessionSpec => []SessionInv
<1>1. ASSUME SessionInv, IInv, IInv', [SessionNext]_allVars
      PROVE  SessionInv'
  <2>1. TypeOK'
    BY <1>1 DEF IInv
  <2>2. CASE SessionNext
    BY <1>1, <2>1, <2>2, PreludeKeeps, CallReturnsKeeps, WaitKeeps, FinishKeeps, AnswerKeeps,
       BinderKeeps DEF SessionNext, Operation
  <2>3. CASE UNCHANGED allVars
    <3>1. UNCHANGED vars /\ UNCHANGED receiverVars /\ UNCHANGED sessionVars
      BY <2>3 DEF allVars, vars
    <3>2. SessionTypeOK' /\ CallInv' /\ RecipientInv'
      BY <1>1, <2>1, <3>1
         DEF sessionVars, SessionInv, SessionTypeOK, CallInv, RecipientInv
    <3>3. AnswerInv' /\ SuccessInv'
      BY <1>1, <3>1, AnswerFrame DEF SessionInv, sessionVars
    <3>4. QED
      BY <3>2, <3>3 DEF SessionInv
  <2>4. QED
    BY <1>1, <2>2, <2>3
<1>2. QED
  BY <1>1, InitSessionInv, SessionIInv, PTL DEF SessionSpec

\* The session keeps its types.
THEOREM SessionTypeCorrect == SessionSpec => []SessionTypeOK
<1>1. SessionInv => SessionTypeOK
  BY DEF SessionInv
<1>2. QED
  BY <1>1, SessionInductive, PTL

\* A success is only ever the service's own: never a death, a refusal or a timeout.
THEOREM SuccessIsReal == SessionSpec => []SuccessIsTheServices
<1>1. SessionInv => SuccessIsTheServices
  BY DEF SessionInv, SuccessInv, SuccessIsTheServices
<1>2. QED
  BY <1>1, SessionInductive, PTL

\* While a command depends on a live service it would be told of its death.
THEOREM DeathIsNoticed == SessionSpec => []DeathWouldBeNoticed
<1>1. SessionInv => DeathWouldBeNoticed
  BY DEF SessionInv, RecipientInv, DeathWouldBeNoticed
<1>2. QED
  BY <1>1, SessionInductive, PTL

\* What the receiver guarantees, a session guarantees: the code of an install that has a
\* message was reported with it, and no promise is set twice.
THEOREM SessionOneAnswer == SessionSpec => [](OutcomeOfOneAnswer /\ NoFutureError)
  BY SessionRefinement, OneAnswer, NeverThrows, PTL DEF ImplementsReceiver

-----------------------------------------------------------------------------
(***************************************************************************)
(* Why an operation failed.  FullWaitInv is about the receiver's two waits *)
(* and CauseInv about where a code in the promise can have come from.      *)
(***************************************************************************)

\* The time an operation grants, which is spent when the code is still missing at the end.
Granted == IF op = "install" THEN 2 * WaittingTime ELSE WaittingTime

FullWaitInv ==
  /\ cmd = "waitCode" /\ codeSignal = Unset => waited + left = Granted
  /\ cmd = "done" =>
       \/ gotCode = codeSignal /\ gotCode # Unset
       \/ gotCode = TimeOutCode /\ waited = Granted

\* The command waits in one phase only; a code is the service's own or tells of its death.
CauseInv ==
  /\ phase \in {"register", "ipc", "calling"} => cmd = "call"
  /\ phase = "returned" => ~Waiting
  /\ pc[Recipient] # "idle" => ~alive
  /\ codeSignal # Unset =>
       \/ request = "answered" /\ codeSignal = arg[Service][1]
       \/ ~alive /\ codeSignal = Died
  /\ FailureHasItsCause

\* The binder threads leave the command alone, and a code that is set stays.
LEMMA BinderFrame ==
  ASSUME IInv, NEW t \in Threads, Deliver(t) \/ OnFinished(t)
  PROVE  UNCHANGED waiterVars /\ (codeSignal # Unset => codeSignal' = codeSignal)
<1>1. UNCHANGED waiterVars
  BY DEF Deliver, OnFinished, Lock, CheckIsSetValue, SetCode, SetMsg, Unlock
<1>2. codeSignal # Unset => codeSignal' = codeSignal
  BY DEF Deliver, OnFinished, Lock, CheckIsSetValue, SetCode, SetMsg, Unlock
<1>3. QED
  BY <1>1, <1>2

\* The second wait of an install begins when the first has used up its time, or finds the
\* code that was set before the message.
LEMMA FullWaitStep ==
  ASSUME IInv, FullWaitInv, [Next]_vars
  PROVE  FullWaitInv'
<1>1. CASE \E t \in Threads : Deliver(t) \/ OnFinished(t)
  BY <1>1, BinderFrame DEF FullWaitInv, Granted, waiterVars
<1>2. CASE BeginWait
  <2>1. waited = 0 /\ left = WaittingTime
    BY <1>2 DEF BeginWait, IInv, TimeInv
  <2>2. waited' = 0 /\ left' = WaittingTime /\ UNCHANGED op
    BY <1>2, <2>1 DEF BeginWait
  <2>3. cmd' = "waitCode" => op = "uninstall"
    BY <1>2 DEF BeginWait, IInv, TypeOK
  <2>4. cmd' # "done"
    BY <1>2 DEF BeginWait
  <2>5. QED
    BY <2>2, <2>3, <2>4 DEF FullWaitInv, Granted
<1>3. CASE GetResultMsg
  <2>1. op = "install" /\ waited + left = WaittingTime /\ waited \in Nat
    BY <1>3 DEF GetResultMsg, IInv, TimeInv, TypeOK
  <2>2. codeSignal = Unset => msgSignal = Unset
    BY DEF IInv, ReceiverInv, SignalInv, ThreadInv
  <2>3. codeSignal = Unset => left = 0
    BY <1>3, <2>2 DEF GetResultMsg
  <2>4. /\ UNCHANGED <<op, waited, codeSignal>>
        /\ cmd' = "waitCode" /\ left' = WaittingTime
    BY <1>3 DEF GetResultMsg, receiverVars
  <2>5. QED
    BY <2>1, <2>3, <2>4 DEF FullWaitInv, Granted
<1>4. CASE GetResultCode
  <2>1. waited \in Nat
    BY DEF IInv, TypeOK
  <2>2. UNCHANGED <<op, waited, codeSignal>> /\ cmd = "waitCode" /\ cmd' = "done"
    BY <1>4 DEF GetResultCode, receiverVars
  <2>3. \/ codeSignal # Unset /\ gotCode' = codeSignal
        \/ codeSignal = Unset /\ left = 0 /\ gotCode' = TimeOutCode
    BY <1>4 DEF GetResultCode
  <2>4. QED
    BY <2>1, <2>2, <2>3 DEF FullWaitInv, Granted
<1>5. CASE Tick
  <2>1. waited \in Nat /\ left \in Nat /\ left > 0
    BY <1>5 DEF Tick, IInv, TypeOK
  <2>2. /\ UNCHANGED <<op, cmd, codeSignal, gotCode>> /\ cmd # "done"
        /\ left' = left - 1 /\ waited' = waited + 1
    BY <1>5 DEF Tick, Waiting, receiverVars
  <2>3. QED
    BY <2>1, <2>2 DEF FullWaitInv, Granted
<1>6. CASE UNCHANGED vars
  BY <1>6 DEF vars, receiverVars, waiterVars, FullWaitInv, Granted
<1>7. QED
  BY <1>1, <1>2, <1>3, <1>4, <1>5, <1>6 DEF Next, Command

\* An operation that gives up has waited for all the time it grants.
THEOREM FullWait == Spec => []FullWaitInv
<1>1. Init => FullWaitInv
  BY DEF Init, FullWaitInv
<1>2. QED
  BY <1>1, FullWaitStep, Inductive, PTL DEF Spec

\* A cause that is there stays: only a step that leaves has to find one.
LEMMA CauseLasts ==
  ASSUME FailureHasItsCause,
         UNCHANGED <<ret, op>>, phase' = "returned" => phase = "returned" /\ UNCHANGED waited,
         request = "answered" => request' = "answered" /\ arg'[Service] = arg[Service],
         request = "refused" => request' = "refused",
         ~alive => ~alive'
  PROVE  FailureHasItsCause'
  BY DEF FailureHasItsCause, Translate

\* A code in the promise is accounted for as long as it is the same.
LEMMA CodeLasts ==
  ASSUME CauseInv, UNCHANGED <<codeSignal, arg, pc>>,
         request = "answered" => request' = "answered", ~alive => ~alive'
  PROVE  /\ pc'[Recipient] # "idle" => ~alive'
         /\ codeSignal' # Unset =>
              \/ request' = "answered" /\ codeSignal' = arg'[Service][1]
              \/ ~alive' /\ codeSignal' = Died
  BY DEF CauseInv

\* What happens before the service answers leaves the receiver and the command alone.
LEMMA PreludeCause ==
  ASSUME SessionInv, CauseInv, Register \/ Call \/ ServiceDecides \/ ServiceDies
  PROVE  CauseInv'
<1>1. UNCHANGED <<cmd, op, waited, ret>> /\ UNCHANGED <<codeSignal, arg, pc>>
  BY DEF Register, Call, ServiceDecides, ServiceDies, vars, receiverVars, waiterVars
<1>2. /\ request = "answered" => request' = "answered"
      /\ request = "refused" => request' = "refused"
  BY DEF Register, Call, ServiceDecides, ServiceDies, SessionInv, CallInv
<1>3. ~alive => ~alive'
  BY DEF Register, Call, ServiceDecides, ServiceDies
<1>4. phase' = phase \/ (phase \in {"register", "ipc"} /\ phase' \in {"ipc", "calling"})
  BY DEF Register, Call, ServiceDecides, ServiceDies
<1>5. FailureHasItsCause'
  BY <1>1, <1>2, <1>3, <1>4, CauseLasts DEF CauseInv
<1>6. /\ phase' \in {"register", "ipc", "calling"} => cmd' = "call"
      /\ phase' = "returned" => ~Waiting'
  BY <1>1, <1>4 DEF CauseInv, Waiting
<1>7. QED
  BY <1>1, <1>2, <1>3, <1>5, <1>6, CodeLasts DEF CauseInv

\* An install that is refused, or whose service died, leaves at once with what it was told.
LEMMA CallReturnsCause == ASSUME SessionInv, CauseInv, CallReturns PROVE CauseInv'
<1>1. PICK res \in CallResults : AfterCall(res)
  BY DEF CallReturns
<1>2. phase = "calling" /\ cmd = "call" /\ UNCHANGED <<alive, request>>
  BY DEF CallReturns, CauseInv
<1>3. UNCHANGED <<codeSignal, arg, pc>> /\ UNCHANGED op
  BY <1>1 DEF AfterCall, BeginWait, vars, receiverVars, waiterVars
<1>4. CASE phase' = "waiting"
  BY <1>2, <1>3, <1>4, CodeLasts DEF CauseInv, FailureHasItsCause
<1>5. CASE phase' # "waiting"
  <2>1. /\ op = "install" /\ res # Ok /\ UNCHANGED cmd
        /\ phase' = "returned" /\ ret' = Translate(res)
    BY <1>1, <1>5 DEF AfterCall, Leave, vars, waiterVars
  <2>2. (request = "refused" /\ res \in Refusals) \/ (~alive /\ res = IpcError)
    BY <1>1, <2>1 DEF CallResults
  <2>3. FailureHasItsCause'
    <3>1. CASE request = "refused" /\ res \in Refusals
      BY <1>2, <1>3, <2>1, <3>1 DEF FailureHasItsCause, Translate
    <3>2. CASE ~alive /\ res = IpcError
      <4>1. ret' = Translate(IpcError) /\ Translate(IpcError)' = Translate(IpcError)
        BY <2>1, <3>2 DEF Translate
      <4>2. QED
        BY <1>2, <1>3, <2>1, <3>2, <4>1 DEF FailureHasItsCause
    <3>3. QED
      BY <2>2, <3>1, <3>2
  <2>4. QED
    BY <1>2, <1>3, <2>1, <2>3, CodeLasts DEF CauseInv, Waiting
<1>6. QED
  BY <1>4, <1>5

\* The command waits in one phase only, and takes nothing from the promise there.
LEMMA WaitCause == ASSUME SessionInv, CauseInv, Wait \/ TimePasses PROVE CauseInv'
<1>1. phase = "waiting"
  <2>1. CASE Wait
    BY <2>1 DEF Wait
  <2>2. CASE TimePasses
    BY <2>2 DEF TimePasses, Tick, Waiting, CauseInv, SessionInv, SessionTypeOK
  <2>3. QED
    BY <2>1, <2>2
<1>2. UNCHANGED <<codeSignal, arg, pc>> /\ UNCHANGED <<phase, alive, request>>
  BY DEF Wait, TimePasses, GetResultMsg, GetResultCode, Tick, receiverVars, sessionVars
<1>3. QED
  BY <1>1, <1>2, CodeLasts DEF CauseInv, FailureHasItsCause

\* What is returned after the wait was in the promise, or all the time granted is spent.
LEMMA FinishCause == ASSUME FullWaitInv, CauseInv, Finish PROVE CauseInv'
<1>1. /\ cmd = "done" /\ phase' = "returned" /\ ret' = gotCode
      /\ UNCHANGED <<codeSignal, arg, pc>> /\ UNCHANGED <<alive, request, cmd, op, waited>>
  BY DEF Finish, Leave, vars, receiverVars, waiterVars
<1>2. CASE gotCode = codeSignal /\ gotCode # Unset
  <2>1. \/ request = "answered" /\ gotCode = arg[Service][1]
        \/ ~alive /\ gotCode = Died
    BY <1>2 DEF CauseInv
  <2>2. FailureHasItsCause'
    BY <1>1, <2>1 DEF FailureHasItsCause
  <2>3. QED
    BY <1>1, <2>2, CodeLasts DEF CauseInv, Waiting
<1>3. CASE gotCode = TimeOutCode /\ waited = Granted
  <2>1. FailureHasItsCause'
    BY <1>1, <1>3 DEF FailureHasItsCause, Granted
  <2>2. QED
    BY <1>1, <2>1, CodeLasts DEF CauseInv, Waiting
<1>4. QED
  BY <1>1, <1>2, <1>3 DEF FullWaitInv

\* The service answers while it lives, so that nobody else's code is in the promise.
LEMMA AnswerCause == ASSUME IInv, CauseInv, ServiceAnswers \/ DeathNotice PROVE CauseInv'
<1> USE SessionAssumption
<1>1. /\ UNCHANGED <<phase, alive, ret, codeSignal, cmd, op, waited>>
      /\ request' = request \/ request' = "answered"
  BY DEF ServiceAnswers, DeathNotice, sessionVars, Deliver, waiterVars
<1>2. CASE ServiceAnswers
  <2>1. alive /\ request = "accepted" /\ request' = "answered" /\ codeSignal = Unset
    BY <1>2 DEF ServiceAnswers, CauseInv
  <2>2. pc'[Recipient] = pc[Recipient]
    BY <1>2 DEF ServiceAnswers, Deliver, Goto, IInv, TypeOK
  <2>3. FailureHasItsCause'
    BY <1>1, <2>1, CauseLasts DEF CauseInv
  <2>4. QED
    BY <1>1, <2>1, <2>2, <2>3 DEF CauseInv, Waiting
<1>3. CASE DeathNotice
  <2>1. ~alive /\ UNCHANGED request /\ arg'[Service] = arg[Service]
    BY <1>3 DEF DeathNotice, sessionVars, Deliver, IInv, TypeOK
  <2>2. FailureHasItsCause'
    BY <1>1, <2>1, CauseLasts DEF CauseInv
  <2>3. QED
    BY <1>1, <2>1, <2>2 DEF CauseInv, Waiting
<1>4. QED
  BY <1>2, <1>3

\* The code is set by the service's thread or by the recipient's, to what each brings.
LEMMA BinderCause ==
  ASSUME SessionInv, IInv, CauseInv, NEW t \in Threads, Binder(t)
  PROVE  CauseInv'
<1> USE SessionAssumption
<1>1. /\ UNCHANGED <<phase, alive, request, ret>> /\ UNCHANGED <<cmd, op, waited>>
      /\ UNCHANGED arg /\ pc[t] # "idle" /\ \A u \in Threads : u # t => pc'[u] = pc[u]
  <2>1. UNCHANGED <<cmd, op, waited>>
    BY BinderFrame DEF Binder, waiterVars
  <2>2. UNCHANGED arg /\ pc[t] # "idle" /\ \A u \in Threads : u # t => pc'[u] = pc[u]
    BY DEF Binder, OnFinished, Lock, CheckIsSetValue, SetCode, SetMsg, Unlock, Goto, IInv, TypeOK
  <2>3. QED
    BY <2>1, <2>2 DEF Binder, sessionVars
<1>2. FailureHasItsCause'
  BY <1>1, CauseLasts DEF CauseInv
<1>3. pc'[Recipient] # "idle" => ~alive'
  BY <1>1 DEF CauseInv
<1>4. codeSignal' # Unset =>
        \/ request' = "answered" /\ codeSignal' = arg'[Service][1]
        \/ ~alive' /\ codeSignal' = Died
  <2>1. CASE UNCHANGED codeSignal
    BY <1>1, <2>1 DEF CauseInv
  <2>2. CASE SetCode(t) /\ codeSignal' # codeSignal
    <3>1. codeSignal' = arg[t][1] /\ t \in {Service, Recipient}
      BY <1>1, <2>2 DEF SetCode, SessionInv, AnswerInv
    <3>2. QED
      BY <1>1, <3>1 DEF SessionInv, AnswerInv, CauseInv
  <2>3. QED
    BY <2>1, <2>2 DEF Binder, OnFinished, Lock, CheckIsSetValue, SetMsg, Unlock
<1>5. QED
  BY <1>1, <1>2, <1>3, <1>4 DEF CauseInv, Waiting

\* CauseInv holds in every reachable state of a session.
LEMMA SessionCause == SessionSpec => []CauseInv
<1>1. SessionInit => CauseInv
  BY SessionAssumption, UnsetAssumption
     DEF SessionInit, Init, CauseInv, FailureHasItsCause, Waiting
<1>2. ASSUME SessionInv, IInv, FullWaitInv, CauseInv, [SessionNext]_allVars
      PROVE  CauseInv'
  <2>1. CASE SessionNext
    BY <1>2, <2>1, PreludeCause, CallReturnsCause, WaitCause, FinishCause, AnswerCause,
       BinderCause DEF SessionNext, Operation
  <2>2. CASE UNCHANGED allVars
    BY <1>2, <2>2, CauseLasts, CodeLasts
       DEF allVars, vars, receiverVars, waiterVars, sessionVars, CauseInv, Waiting
  <2>3. QED
    BY <1>2, <2>1, <2>2
<1>3. SessionSpec => []FullWaitInv
  BY SessionRefinement, FullWait, PTL DEF ImplementsReceiver
<1>4. QED
  BY <1>1, <1>2, <1>3, SessionInductive, SessionIInv, PTL DEF SessionSpec

\* A failure that is returned is the service's own, its death's, a refusal's or that of a
\* silence through the whole of the time granted.
THEOREM FailureIsExplained == SessionSpec => []FailureHasItsCause
<1>1. CauseInv => FailureHasItsCause
  BY DEF CauseInv
<1>2. QED
  BY <1>1, SessionCause, PTL
=============================================================================
