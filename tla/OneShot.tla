------------------------------- MODULE OneShot -------------------------------
(***************************************************************************)
(* What a one-shot receiver of an answer, a status receiver or a callback  *)
(* of the test tool, promises to the command that waits on it, whatever    *)
(* the number of parties that may answer: at most one answer is ever       *)
(* published, it never changes, and the command leaves exactly once with   *)
(* an outcome taken from that one answer, or with a timeout.  The message  *)
(* of an answer may be lost to the timeout of its own wait, or dropped     *)
(* with a code of failure; its code may not be replaced by the timeout     *)
(* once the message was seen.                                              *)
(***************************************************************************)
CONSTANTS
  Codes,        \* result codes a party may report
  Msgs,         \* result messages a party may report
  EmptyMsg,     \* the empty string
  TimeOutCode   \* ERR_OPERATION_TIME_OUT

VARIABLES
  answer,       \* <<>> until one answer <<code, msg>> is published
  outcome       \* <<>> until the command leaves with <<code, msg>>

vars == <<answer, outcome>>

Answers == Codes \X Msgs

(***************************************************************************)
(* The outcomes a command may leave with, given what has been published.   *)
(***************************************************************************)
Permitted(a) ==
  {<<TimeOutCode, EmptyMsg>>} \cup
  (IF a = <<>> THEN {} ELSE {<<a[1], EmptyMsg>>, <<a[1], a[2]>>})

Init == answer = <<>> /\ outcome = <<>>

Publish ==
  /\ answer = <<>>
  /\ answer' \in Answers
  /\ UNCHANGED outcome

Leave ==
  /\ outcome = <<>>
  /\ outcome' \in Permitted(answer)
  /\ UNCHANGED answer

Next == Publish \/ Leave

Spec == Init /\ [][Next]_vars
=============================================================================
