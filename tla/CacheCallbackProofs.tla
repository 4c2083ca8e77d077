-------------------------- MODULE CacheCallbackProofs --------------------------
(***************************************************************************)
(* What holds of CacheCallback for any number of binder threads, any codes *)
(* and values and any waiting time.  The command reads two fields, two of  *)
(* the four commands without the mutex; CacheInv says why both come from   *)
(* the same call: from the moment the promise is fulfilled nobody writes.  *)
(***************************************************************************)
EXTENDS CacheCallback, TLAPS

\* A thread in the callback carries an answer.
ArgInv == \A t \in Threads : pc[t] # "idle" => arg[t] \in Codes \X Values

\* The thread that was let in has raised the flag, and the promise waits for it; the
\* fields hold as much of its answer as it has written.
WritingInv ==
  \A t \in Threads :
    /\ pc[t] \in {"code", "value", "signal"} => complete /\ ~ready
    /\ pc[t] \in {"value", "signal"} => code = arg[t][1]
    /\ pc[t] = "signal" => value = arg[t][2]

\* Behind a fulfilled promise the fields hold one thread's answer.
PublishedInv ==
  ready =>
    /\ complete
    /\ \E t \in Threads : pc[t] \in {"unlock", "done"} /\ arg[t] = <<code, value>>

\* What the command has read is what the fields hold.
ReadInv ==
  /\ phase \in {"code", "value", "report"} => ready
  /\ phase \in {"value", "report"} => gotCode = code
  /\ phase = "report" => gotValue = value
  /\ phase # "done" => outcome = <<>>

CallbackInv == NoFutureError /\ ArgInv /\ WritingInv /\ PublishedInv

CacheInv == TypeOK /\ CallbackInv /\ ReadInv /\ OutcomeOfOneCallback

-----------------------------------------------------------------------------

USE CallbackAssumption

\* The fields a callback of a kind does not have keep values of their types.
LEMMA AnswersType == Answers \subseteq Codes \X Values
  BY DEF Answers

\* Nobody has called back when the command makes its call.
LEMMA InitCacheInv == Init => CacheInv
<1> SUFFICES ASSUME Init PROVE CacheInv
  OBVIOUS
<1> USE DEF Init
<1>1. TypeOK
  <2>1. pc \in [Threads -> {"idle", "lock", "check", "code", "value", "signal", "unlock", "done"}]
    OBVIOUS
  <2>2. arg \in [Threads -> (Codes \X Values) \cup {<<>>}]
    OBVIOUS
  <2>3. left \in 0 .. MaxWaitingTime
    OBVIOUS
  <2>4. QED
    BY <2>1, <2>2, <2>3 DEF TypeOK
<1>2. CallbackInv
  BY DEF CallbackInv, NoFutureError, ArgInv, WritingInv, PublishedInv
<1>3. ReadInv /\ OutcomeOfOneCallback
  BY DEF ReadInv, OutcomeOfOneCallback
<1>4. QED
  BY <1>1, <1>2, <1>3 DEF CacheInv

-----------------------------------------------------------------------------
(* What a step leaves alone it keeps true *)

\* The callback's part of the invariant speaks of the fields and the threads alone.
LEMMA CallbackFrame == ASSUME CallbackInv, UNCHANGED <<fields, threads>> PROVE CallbackInv'
<1> USE DEF CallbackInv, fields, threads
<1>1. NoFutureError' /\ ArgInv'
  BY DEF NoFutureError, ArgInv
<1>2. WritingInv' /\ PublishedInv'
  BY DEF WritingInv, PublishedInv
<1>3. QED
  BY <1>1, <1>2

\* What was read or reported stays true: fulfilled promises keep their fields, and a
\* thread that has published stays where its answer counts.
LEMMA CommandFrame ==
  ASSUME ReadInv, OutcomeOfOneCallback, UNCHANGED <<kind, command>>,
         ready => UNCHANGED <<ready, code, value>>,
         \A t \in Threads : pc[t] \in {"unlock", "done"} =>
           pc'[t] \in {"unlock", "done"} /\ arg'[t] = arg[t]
  PROVE  ReadInv' /\ OutcomeOfOneCallback'
<1>1. ReadInv'
  BY DEF ReadInv, command
<1>2. OutcomeOfOneCallback'
  BY DEF OutcomeOfOneCallback, GaveUp, command
<1>3. QED
  BY <1>1, <1>2

-----------------------------------------------------------------------------
(* The binder threads' steps *)

\* A service that calls back brings an answer of its own.
LEMMA DeliverKeeps == ASSUME NEW t \in Threads, CacheInv, Deliver(t) PROVE CacheInv'
<1> USE DEF CacheInv, Deliver, Goto, fields, command
<1>1. PICK a \in Codes \X Values : arg' = [arg EXCEPT ![t] = a]
  BY AnswersType
<1>2. TypeOK'
  BY <1>1 DEF TypeOK
<1>3. CallbackInv'
  BY <1>1 DEF TypeOK, CallbackInv, NoFutureError, ArgInv, WritingInv, PublishedInv
<1>4. ReadInv' /\ OutcomeOfOneCallback'
  BY <1>1, CommandFrame DEF TypeOK
<1>5. QED
  BY <1>2, <1>3, <1>4

\* A thread enters when nobody is inside.
LEMMA LockKeeps == ASSUME NEW t \in Threads, CacheInv, Lock(t) PROVE CacheInv'
<1> USE DEF CacheInv, Lock, Goto, fields, command
<1>1. TypeOK'
  BY DEF TypeOK
<1>2. CallbackInv'
  BY DEF TypeOK, CallbackInv, NoFutureError, ArgInv, WritingInv, PublishedInv
<1>3. ReadInv' /\ OutcomeOfOneCallback'
  BY CommandFrame DEF TypeOK
<1>4. QED
  BY <1>1, <1>2, <1>3

\* Only the first to come finds the flag down; then the promise is not fulfilled.
LEMMA CheckCompleteKeeps == ASSUME NEW t \in Threads, CacheInv, CheckComplete(t) PROVE CacheInv'
<1> USE DEF CacheInv, CheckComplete, Goto, fields, command
<1>1. TypeOK'
  BY DEF TypeOK
<1>2. CallbackInv'
  BY DEF TypeOK, CallbackInv, NoFutureError, ArgInv, WritingInv, PublishedInv
<1>3. ReadInv' /\ OutcomeOfOneCallback'
  BY CommandFrame DEF TypeOK
<1>4. QED
  BY <1>1, <1>2, <1>3

\* The other threads are outside while one writes.
LEMMA WriteCodeKeeps == ASSUME NEW t \in Threads, CacheInv, WriteCode(t) PROVE CacheInv'
<1> USE DEF CacheInv, WriteCode, Goto, fields, command
<1>1. arg[t] \in Codes \X Values /\ ~ready
  BY DEF CallbackInv, ArgInv, WritingInv
<1>2. TypeOK'
  BY <1>1 DEF TypeOK
<1>3. CallbackInv'
  BY <1>1 DEF TypeOK, CallbackInv, NoFutureError, ArgInv, WritingInv, PublishedInv
<1>4. ReadInv' /\ OutcomeOfOneCallback'
  BY <1>1, CommandFrame DEF TypeOK
<1>5. QED
  BY <1>2, <1>3, <1>4

\* The value joins the code of the same call.
LEMMA WriteValueKeeps == ASSUME NEW t \in Threads, CacheInv, WriteValue(t) PROVE CacheInv'
<1> USE DEF CacheInv, WriteValue, Goto, fields, command
<1>1. arg[t] \in Codes \X Values /\ ~ready
  BY DEF CallbackInv, ArgInv, WritingInv
<1>2. TypeOK'
  BY <1>1 DEF TypeOK
<1>3. CallbackInv'
  BY <1>1 DEF TypeOK, CallbackInv, NoFutureError, ArgInv, WritingInv, PublishedInv
<1>4. ReadInv' /\ OutcomeOfOneCallback'
  BY <1>1, CommandFrame DEF TypeOK
<1>5. QED
  BY <1>2, <1>3, <1>4

\* The promise is fulfilled last, with both fields written, and was not before.
LEMMA SetValueKeeps == ASSUME NEW t \in Threads, CacheInv, SetValue(t) PROVE CacheInv'
<1> USE DEF CacheInv, SetValue, Goto, fields, command
<1>1. /\ complete /\ ~ready /\ ~broken'
      /\ arg[t] \in Codes \X Values /\ code = arg[t][1] /\ value = arg[t][2]
  BY DEF CallbackInv, ArgInv, WritingInv, NoFutureError
<1>2. arg[t] = <<code, value>>
  BY <1>1
<1>3. TypeOK'
  BY <1>1 DEF TypeOK
<1>4. CallbackInv'
  BY <1>1, <1>2 DEF TypeOK, CallbackInv, NoFutureError, ArgInv, WritingInv, PublishedInv
<1>5. ReadInv' /\ OutcomeOfOneCallback'
  BY <1>1, CommandFrame DEF TypeOK
<1>6. QED
  BY <1>3, <1>4, <1>5

\* A thread that leaves has nothing left to write.
LEMMA UnlockKeeps == ASSUME NEW t \in Threads, CacheInv, Unlock(t) PROVE CacheInv'
<1> USE DEF CacheInv, Unlock, Goto, fields, command
<1>1. TypeOK'
  BY DEF TypeOK
<1>2. CallbackInv'
  BY DEF TypeOK, CallbackInv, NoFutureError, ArgInv, WritingInv, PublishedInv
<1>3. ReadInv' /\ OutcomeOfOneCallback'
  BY CommandFrame DEF TypeOK
<1>4. QED
  BY <1>1, <1>2, <1>3

-----------------------------------------------------------------------------
(* The command's steps *)

\* A call that fails is its own outcome.
LEMMA CallKeeps == ASSUME CacheInv, Call PROVE CacheInv'
<1> USE DEF CacheInv, Call, fields, threads
<1>1. TypeOK'
  BY DEF TypeOK
<1>2. CallbackInv'
  BY CallbackFrame
<1>3. ReadInv' /\ OutcomeOfOneCallback'
  BY DEF ReadInv, OutcomeOfOneCallback
<1>4. QED
  BY <1>1, <1>2, <1>3

\* The command gives up only when all its time has passed.
LEMMA WaitForCompletionKeeps == ASSUME CacheInv, WaitForCompletion PROVE CacheInv'
<1> USE DEF CacheInv, WaitForCompletion, fields, threads
<1>1. TypeOK'
  BY DEF TypeOK, GaveUp
<1>2. CallbackInv'
  BY CallbackFrame
<1>3. ReadInv' /\ OutcomeOfOneCallback'
  BY DEF ReadInv, OutcomeOfOneCallback, GaveUp
<1>4. QED
  BY <1>1, <1>2, <1>3

\* Time passes before there is an outcome.
LEMMA TickKeeps == ASSUME CacheInv, Tick PROVE CacheInv'
<1> USE DEF CacheInv, Tick, fields, threads
<1>1. TypeOK'
  BY DEF TypeOK
<1>2. CallbackInv'
  BY CallbackFrame
<1>3. ReadInv' /\ OutcomeOfOneCallback'
  BY DEF ReadInv, OutcomeOfOneCallback
<1>4. QED
  BY <1>1, <1>2, <1>3

\* Both getters find the fields of the promise that was waited for.
LEMMA ReadKeeps == ASSUME CacheInv, ReadCode \/ ReadValue PROVE CacheInv'
<1> USE DEF CacheInv, ReadCode, ReadValue, fields, threads
<1>1. TypeOK'
  BY DEF TypeOK
<1>2. CallbackInv'
  BY CallbackFrame
<1>3. ReadInv' /\ OutcomeOfOneCallback'
  BY DEF ReadInv, OutcomeOfOneCallback
<1>4. QED
  BY <1>1, <1>2, <1>3

\* The outcome is that of the thread whose answer the fields hold.
LEMMA ReportKeeps == ASSUME CacheInv, Report PROVE CacheInv'
<1> USE DEF CacheInv, Report, fields, threads
<1>1. TypeOK'
  BY DEF TypeOK
<1>2. CallbackInv'
  BY CallbackFrame
<1>3. ReadInv'
  BY DEF ReadInv
<1>4. PICK t \in Threads : pc[t] \in {"unlock", "done"} /\ arg[t] = <<gotCode, gotValue>>
  BY DEF ReadInv, CallbackInv, PublishedInv
<1>5. OutcomeOfOneCallback'
  BY <1>4 DEF OutcomeOfOneCallback
<1>6. QED
  BY <1>1, <1>2, <1>3, <1>5

-----------------------------------------------------------------------------
(* The invariant and what it gives *)

\* Every step of the callback and of the command keeps the invariant.
LEMMA NextCacheInv == CacheInv /\ [Next]_vars => CacheInv'
<1> SUFFICES ASSUME CacheInv, [Next]_vars PROVE CacheInv'
  OBVIOUS
<1>1. ASSUME NEW t \in Threads, Deliver(t) \/ Callback(t) PROVE CacheInv'
  BY <1>1, DeliverKeeps, LockKeeps, CheckCompleteKeeps, WriteCodeKeeps, WriteValueKeeps,
     SetValueKeeps, UnlockKeeps DEF Callback
<1>2. CASE Command \/ Tick
  BY <1>2, CallKeeps, WaitForCompletionKeeps, ReadKeeps, ReportKeeps, TickKeeps DEF Command
<1>3. CASE UNCHANGED vars
  <2> USE <1>3 DEF vars, CacheInv
  <2>1. TypeOK'
    BY DEF TypeOK, fields, threads, command
  <2>2. CallbackInv'
    BY CallbackFrame
  <2>3. ReadInv' /\ OutcomeOfOneCallback'
    BY CommandFrame DEF fields, threads
  <2>4. QED
    BY <2>1, <2>2, <2>3
<1>4. QED
  BY <1>1, <1>2, <1>3 DEF Next

\* The strengthening of the properties below holds in every reachable state.
THEOREM Inductive == Spec => []CacheInv
  BY InitCacheInv, NextCacheInv, PTL DEF Spec

\* The callback and its command keep their types, and the mutex has one holder, inside.
THEOREM TypeCorrect == Spec => []TypeOK
<1>1. CacheInv => TypeOK
  BY DEF CacheInv
<1>2. QED
  BY <1>1, Inductive, PTL

\* The promise is fulfilled once, however many threads the service calls back on.
THEOREM NeverThrows == Spec => []NoFutureError
<1>1. CacheInv => NoFutureError
  BY DEF CacheInv, CallbackInv
<1>2. QED
  BY <1>1, Inductive, PTL

\* No getter, locked or not, reads while a thread writes.
THEOREM NeverRaces == Spec => []NoRacyRead
<1>1. CacheInv => NoRacyRead
  BY DEF CacheInv, CallbackInv, ReadInv, WritingInv, NoRacyRead, Writing
<1>2. QED
  BY <1>1, Inductive, PTL

\* The code and the value that are reported are those of one call.
THEOREM OneCallback == Spec => []OutcomeOfOneCallback
<1>1. CacheInv => OutcomeOfOneCallback
  BY DEF CacheInv
<1>2. QED
  BY <1>1, Inductive, PTL

-----------------------------------------------------------------------------
(* The refinement of OneShot *)

\* What is abstractly published and reported depends on nothing else.
LEMMA PromiseFrame ==
  ASSUME UNCHANGED <<kind, ready, code, value, outcome>>
  PROVE  UNCHANGED <<Published, Outcome>>
  BY DEF Published, Outcome, GaveUp

\* The one thread that fulfils the promise publishes; whatever others do behind it, the
\* fields stay.
LEMMA CallbackRefines ==
  ASSUME CacheInv, NEW t \in Threads, Deliver(t) \/ Callback(t)
  PROVE  [Promise!Next]_<<Published, Outcome>>
<1>1. Outcome' = Outcome
  BY DEF Deliver, Callback, Lock, CheckComplete, WriteCode, WriteValue, SetValue, Unlock,
         command, Outcome, GaveUp
<1>2. CASE Deliver(t) \/ Lock(t) \/ CheckComplete(t) \/ Unlock(t)
  BY <1>2, PromiseFrame DEF Deliver, Lock, CheckComplete, Unlock, fields, command
<1>3. CASE WriteCode(t) \/ WriteValue(t)
  <2>1. ~ready /\ ~ready'
    BY <1>3 DEF WriteCode, WriteValue, Goto, CacheInv, CallbackInv, WritingInv
  <2>2. QED
    BY <1>1, <2>1 DEF Published
<1>4. CASE SetValue(t)
  <2>1. ~ready /\ ready' /\ code' = code /\ value' = value
    BY <1>4 DEF SetValue, Goto, CacheInv, CallbackInv, WritingInv
  <2>2. code \in Codes /\ value \in Values
    BY DEF CacheInv, TypeOK
  <2>3. Promise!Publish
    BY <1>1, <2>1, <2>2 DEF Promise!Publish, Promise!Answers, Published
  <2>4. QED
    BY <2>3 DEF Promise!Next
<1>5. QED
  BY <1>2, <1>3, <1>4 DEF Callback

\* The command leaves when it gives up or reports; both are permitted.
LEMMA CommandRefines ==
  ASSUME CacheInv, Command \/ Tick
  PROVE  [Promise!Next]_<<Published, Outcome>>
<1>1. Published' = Published
  BY DEF Command, Call, WaitForCompletion, ReadCode, ReadValue, Report, Tick, fields, Published
<1>2. CASE Call
  <2>1. Outcome = <<>> /\ Outcome' = <<>>
    BY <1>2 DEF Call, CacheInv, ReadInv, Outcome
  <2>2. QED
    BY <1>1, <2>1
<1>3. CASE UNCHANGED <<kind, outcome>>
  BY <1>1, <1>3 DEF Outcome, GaveUp
<1>4. CASE WaitForCompletion /\ outcome' = GaveUp
  <2>1. Outcome = <<>>
    BY <1>4 DEF WaitForCompletion, CacheInv, ReadInv, Outcome
  <2>2. Outcome' = <<TimeOut, NoValue>>
    BY <1>4 DEF WaitForCompletion, Outcome, GaveUp
  <2>3. Promise!Leave
    BY <1>1, <2>1, <2>2 DEF Promise!Leave, Promise!Permitted
  <2>4. QED
    BY <2>3 DEF Promise!Next
<1>5. CASE Report
  <2>1. Outcome = <<>> /\ ready /\ gotCode = code /\ gotValue = value
    BY <1>5 DEF Report, CacheInv, ReadInv, Outcome
  <2>2. Published = <<code, value>> /\ Published # <<>>
    BY <2>1 DEF Published
  <2>3. outcome' \in {<<code, NoValue>>, <<code, value>>}
    BY <1>5, <2>1 DEF Report
  <2>4. Outcome' \in {<<>>, <<TimeOut, NoValue>>, outcome'}
    BY DEF Outcome
  <2>5. Outcome' # <<>> => Promise!Leave
    BY <1>1, <2>1, <2>2, <2>3, <2>4 DEF Promise!Leave, Promise!Permitted
  <2>6. QED
    BY <1>1, <2>1, <2>5 DEF Promise!Next
<1>6. QED
  BY <1>2, <1>3, <1>4, <1>5 DEF Command, WaitForCompletion, ReadCode, ReadValue, Tick

\* Any number of callbacks and the command that waits for one implement the one-shot
\* promise.
THEOREM Refinement == Spec => ImplementsOneShot
<1>1. Init => Promise!Init
  BY DEF Init, Promise!Init, Published, Outcome
<1>2. CacheInv /\ [Next]_vars => [Promise!Next]_<<Published, Outcome>>
  <2>1. UNCHANGED vars => UNCHANGED <<Published, Outcome>>
    BY PromiseFrame DEF vars, fields, command
  <2>2. QED
    BY <2>1, CallbackRefines, CommandRefines DEF Next
<1>3. QED
  BY <1>1, <1>2, Inductive, PTL DEF Spec, ImplementsOneShot, Promise!Spec, Promise!vars
===============================================================================
