---------------------------- MODULE OhosCommandProofs ----------------------------
(***************************************************************************)
(* What holds of a run of ohos-bm with a command line of any length.       *)
(* LineInv says what a result in order, a message and a proxy tell of the  *)
(* options scanned so far; OutcomeInv what the record of a permission's    *)
(* use will be made of.                                                    *)
(***************************************************************************)
EXTENDS OhosCommand, TLAPS

\* The phases in which a RunAs function is at work.
Running == {"start", "scan", "scanned", "ready"}

CommandInv ==
  /\ cmd \in DOMAIN Syntax \cup {"--help", "unknown"}
  /\ granted \subseteq Range(Needed(cmd)) \cup Required(cmd)
  /\ phase \in Running \cup {"command", "record", "done", "aborted"}
  /\ phase \in Running \/ call # "none" => cmd \in DOMAIN Syntax

\* A line is ready for its operation when nothing is missing, or a message has kept the
\* command from looking for it.
Ready == Complete \/ (S.overwritten /\ refused # "no")

\* The result, the messages and the proxies at any moment of the line.
LineInv ==
  /\ phase \in {"command", "start"} => result = "ok" /\ output = "" /\ refused = "no"
  /\ phase \in Running =>
       /\ "bundleMgr" \in proxies
       /\ phase # "start" /\ S.installer => "installer" \in proxies
       /\ result = "ok" => refused # "last" /\ (~S.overwritten => refused = "no")
       /\ output # "" => refused # "no"
       /\ phase = "ready" => result = "ok" /\ Ready

\* A result in order is that of a success or of a request for help, but for the commands
\* that forget a failure.
OutcomeInv ==
  /\ phase \notin {"record", "done"} => call = "none" /\ ~succeeded
  /\ phase # "done" => report = NoReport
  /\ succeeded => result = "ok"
  /\ phase = "record" /\ result = "ok" =>
       \/ succeeded
       \/ call = "none" /\ output = "help"
       \/ cmd \in DOMAIN Syntax /\ S.forgets

RunInv ==
  /\ CommandInv /\ LineInv /\ OutcomeInv
  /\ RefusedLineCallsNothing /\ CallIsComplete /\ ReportTellsTheOutcome

-----------------------------------------------------------------------------
(* The tables *)

\* get-recoverable-apps needs nothing on its line and no further proxy.
LEMMA RecoverableAppsNeedNothing ==
  Syntax["getRecoverableApps"].needs = {} /\ ~Syntax["getRecoverableApps"].installer
  BY DEF Syntax, Usual

\* Of the commands whose permissions are recorded, only recover forgets a failure.
LEMMA OnlyRecoverForgets ==
  ASSUME NEW c \in DOMAIN Syntax, c \in DOMAIN SUBCOMMAND_PERMISSION_MAP, Syntax[c].forgets
  PROVE  c = "recover"
<1> USE DEF Usual
<1>1. c \in {"install", "uninstall", "dump", "publicDump", "dumpDependencies", "dumpShared",
             "clean", "setDisposedRule", "deleteDisposedRule", "getRecoverableApps", "recover"}
  BY DEF SUBCOMMAND_PERMISSION_MAP
<1>2. /\ Syntax["install"] = Install /\ Syntax["uninstall"] = Uninstall
      /\ Syntax["dump"] = Dump /\ Syntax["publicDump"] = PublicDump
      /\ Syntax["dumpDependencies"] = DumpSharedDependencies
      /\ Syntax["dumpShared"] = DumpShared /\ Syntax["clean"] = Clean
      /\ Syntax["setDisposedRule"] = SetDisposedRule
      /\ Syntax["deleteDisposedRule"] = DeleteDisposedRule
      /\ Syntax["getRecoverableApps"] = Usual
  BY DEF Syntax
<1>3. ~Install.forgets /\ ~Uninstall.forgets /\ ~Usual.forgets
  BY DEF Install, Uninstall
<1>4. ~PublicDump.forgets /\ ~Dump.forgets
  BY DEF PublicDump, Dump
<1>5. ~DumpSharedDependencies.forgets /\ ~DumpShared.forgets /\ ~Clean.forgets
  BY DEF DumpSharedDependencies, DumpShared, Clean
<1>6. ~SetDisposedRule.forgets /\ ~DeleteDisposedRule.forgets
  BY DEF SetDisposedRule, DeleteDisposedRule
<1>7. QED
  BY <1>1, <1>2, <1>3, <1>4, <1>5, <1>6

\* A command needs at most two permissions, each of which has a name.
LEMMA NeededPermissions ==
  ASSUME NEW c
  PROVE  DOMAIN Needed(c) \subseteq {1, 2} /\ "none" \notin Range(Needed(c))
<1>1. CASE c \notin DOMAIN SUBCOMMAND_PERMISSION_MAP
  BY <1>1 DEF Needed, Range
<1>2. CASE c \in DOMAIN SUBCOMMAND_PERMISSION_MAP
  <2>1. \/ Needed(c) = <<"INSTALL_BUNDLE", "ALLOW_INSTALL_DEBUG_HAP">>
        \/ \E p \in {"INSTALL_BUNDLE", "UNINSTALL_BUNDLE", "GET_INSTALLED_BUNDLE_LIST",
                    "GET_ALL_BUNDLE_INFO", "REMOVE_BUNDLE_DATA_AND_CACHE_FILES",
                    "MANAGE_DISPOSED_APP_STATUS"} : Needed(c) = <<p>>
    BY <1>2 DEF Needed, SUBCOMMAND_PERMISSION_MAP
  <2>2. QED
    BY <2>1 DEF Range
<1>3. QED
  BY <1>1, <1>2

\* A caller with the permissions config.json requires holds one that the shell's map lists,
\* but for the two commands the map does not have.
LEMMA RequiredIsListed ==
  ASSUME NEW c \in DOMAIN Syntax \ Unrecorded
  PROVE  Required(c) \cap Range(Needed(c)) # {}
<1>1. c \in DOMAIN SUBCOMMAND_PERMISSION_MAP /\ c \in DOMAIN requirePermissions
  BY DEF Syntax, Unrecorded, SUBCOMMAND_PERMISSION_MAP, requirePermissions
<1>2. Needed(c) = SUBCOMMAND_PERMISSION_MAP[c] /\ Required(c) = requirePermissions[c]
  BY <1>1 DEF Needed, Required
<1>3. CASE c = "install"
  <2>1. Needed(c) = <<"INSTALL_BUNDLE", "ALLOW_INSTALL_DEBUG_HAP">>
    BY <1>2, <1>3 DEF SUBCOMMAND_PERMISSION_MAP
  <2>2. Needed(c)[2] \in Required(c) /\ 2 \in DOMAIN Needed(c)
    BY <1>2, <1>3, <2>1 DEF requirePermissions
  <2>3. QED
    BY <2>2 DEF Range
<1>4. CASE c # "install"
  <2>1. \E p \in Required(c) : Needed(c) = <<p>>
    BY <1>1, <1>2, <1>4 DEF SUBCOMMAND_PERMISSION_MAP, requirePermissions
  <2>2. Needed(c)[1] \in Required(c) /\ 1 \in DOMAIN Needed(c)
    BY <2>1
  <2>3. QED
    BY <2>2 DEF Range
<1>5. QED
  BY <1>3, <1>4

\* The permission that is reported is one of the command that the caller holds.
LEMMA ReportedIsHeld ==
  ASSUME Range(Needed(cmd)) \cap granted # {}
  PROVE  /\ Reported(Needed(cmd)) \in granted \cap Range(Needed(cmd))
         /\ Reported(Needed(cmd)) # "none"
<1> DEFINE perms == Needed(cmd)
           held == {i \in DOMAIN perms : perms[i] \in granted}
<1>1. held # {} /\ held \subseteq {1, 2}
  BY NeededPermissions DEF Range
<1>2. \E i \in held : \A j \in held : i <= j
  BY <1>1
<1>3. Reported(perms) \in granted \cap Range(perms)
  BY <1>2 DEF Reported, Range
<1>4. QED
  BY <1>3, NeededPermissions

-----------------------------------------------------------------------------
(* The steps of a run *)

\* Nothing is scanned, called or recorded before the command word is looked up.
LEMMA InitRunInv == Init => RunInv
<1> SUFFICES ASSUME Init PROVE RunInv
  OBVIOUS
<1> USE DEF Init
<1>1. CommandInv
  BY DEF CommandInv, Running
<1>2. LineInv /\ OutcomeInv
  BY DEF LineInv, OutcomeInv, Running
<1>3. RefusedLineCallsNothing /\ CallIsComplete /\ ReportTellsTheOutcome
  BY DEF RefusedLineCallsNothing, CallIsComplete, ReportTellsTheOutcome
<1>4. QED
  BY <1>1, <1>2, <1>3 DEF RunInv

\* What has to be shown of a step after which the command is still at work.
LEMMA LineGoesOn ==
  ASSUME RunInv, UNCHANGED <<cmd, granted, call, succeeded, report>>,
         phase \in Running \cup {"command"}, phase' \in Running,
         cmd \in DOMAIN Syntax, "bundleMgr" \in proxies',
         phase' = "start" => result' = "ok" /\ output' = "" /\ refused' = "no",
         phase' # "start" /\ S.installer => "installer" \in proxies',
         result' = "ok" => refused' # "last" /\ (~S.overwritten => refused' = "no"),
         output' # "" => refused' # "no",
         phase' = "ready" => result' = "ok" /\ (Complete' \/ (S.overwritten /\ refused' # "no"))
  PROVE  RunInv'
<1>1. S' = S
  BY DEF S
<1>2. CommandInv'
  BY DEF RunInv, CommandInv, Needed, Required
<1>3. call' = "none" /\ ~succeeded' /\ report' = NoReport
  BY DEF RunInv, OutcomeInv, Running, NoReport
<1>4. LineInv'
  BY <1>1 DEF LineInv, Ready, Running
<1>5. OutcomeInv'
  BY <1>3 DEF OutcomeInv, Running, NoReport
<1>6. RefusedLineCallsNothing' /\ CallIsComplete' /\ ReportTellsTheOutcome'
  BY <1>3 DEF RefusedLineCallsNothing, CallIsComplete, ReportTellsTheOutcome, Running
<1>7. QED
  BY <1>2, <1>4, <1>5, <1>6 DEF RunInv

\* What has to be shown of a step that ends the command without a call.
LEMMA LineEnds ==
  ASSUME RunInv, UNCHANGED <<cmd, granted, call, succeeded, report>>,
         phase \in Running \cup {"command"}, phase' \in {"record", "done", "aborted"},
         phase' = "record" /\ result' = "ok" => output' = "help"
  PROVE  RunInv'
<1>1. CommandInv'
  BY DEF RunInv, CommandInv, OutcomeInv, Needed, Required, Running
<1>2. call' = "none" /\ ~succeeded' /\ report' = NoReport
  BY DEF RunInv, OutcomeInv, Running, NoReport
<1>3. LineInv' /\ OutcomeInv'
  BY <1>2 DEF LineInv, OutcomeInv, Running, NoReport
<1>4. RefusedLineCallsNothing' /\ CallIsComplete'
  BY <1>2 DEF RefusedLineCallsNothing, CallIsComplete
<1>5. ReportTellsTheOutcome'
  BY <1>2 DEF ReportTellsTheOutcome, NoReport
<1>6. QED
  BY <1>1, <1>3, <1>4, <1>5 DEF RunInv

\* What is not a command has its help printed; without the bundle manager nothing runs.
LEMMA OnCommandKeeps == ASSUME RunInv, OnCommand PROVE RunInv'
<1> USE DEF OnCommand
<1>1. CASE phase' = "start"
  BY <1>1, LineGoesOn DEF RunInv, CommandInv, LineInv, Running, line
<1>2. CASE phase' # "start"
  BY <1>2, LineEnds DEF RunInv, CommandInv, LineInv, Running, line
<1>3. QED
  BY <1>1, <1>2

\* A function without options, or without its installer, ends.
LEMMA StartKeeps ==
  ASSUME RunInv, NoOption \/ InitInstaller \/ StartScan PROVE RunInv'
<1> USE DEF NoOption, InitInstaller, StartScan, Fail, line
<1>1. cmd \in DOMAIN Syntax /\ "bundleMgr" \in proxies
  BY DEF RunInv, CommandInv, LineInv, Running
<1>2. CASE phase' = "scan"
  BY <1>1, <1>2, LineGoesOn DEF RunInv, LineInv, Running
<1>3. CASE phase' # "scan"
  BY <1>3, LineEnds DEF Running
<1>4. QED
  BY <1>2, <1>3

\* get-recoverable-apps needs nothing for its operation.
LEMMA GetRecoverableAppsKeeps == ASSUME RunInv, GetRecoverableApps PROVE RunInv'
<1> USE DEF GetRecoverableApps, Fail, line
<1>1. /\ cmd \in DOMAIN Syntax /\ "bundleMgr" \in proxies
      /\ result = "ok" /\ output = "" /\ refused = "no"
  BY DEF RunInv, CommandInv, LineInv, Running
<1>2. CASE phase' = "ready"
  <2>1. Complete' /\ ~S.installer
    BY <1>2, RecoverableAppsNeedNothing DEF Complete, Needs, S
  <2>2. QED
    BY <1>1, <1>2, <2>1, LineGoesOn DEF Running
<1>3. CASE phase' # "ready"
  BY <1>1, <1>3, LineEnds DEF Running
<1>4. QED
  BY <1>2, <1>3

-----------------------------------------------------------------------------
(* The scan *)

\* What is known wherever the options are looked at.
LEMMA WhileScanning ==
  ASSUME RunInv, phase \in {"scan", "scanned"}
  PROVE  /\ cmd \in DOMAIN Syntax /\ "bundleMgr" \in proxies
         /\ S.installer => "installer" \in proxies
         /\ result = "ok" => refused # "last" /\ (~S.overwritten => refused = "no")
         /\ output # "" => refused # "no"
  BY DEF RunInv, CommandInv, LineInv, Running

\* An option that is in order mends the result only where it is overwritten.
LEMMA AcceptKeeps ==
  ASSUME RunInv, phase = "scan", phase' \in {"scan", "scanned"}, Accept
  PROVE  RunInv'
<1> USE DEF Accept
<1>1. refused' # "last" /\ (refused' = "no" <=> refused = "no")
  OBVIOUS
<1>2. result' = "ok" => S.overwritten \/ result = "ok"
  OBVIOUS
<1>3. QED
  BY <1>1, <1>2, WhileScanning, LineGoesOn DEF Running

\* The options that are in order; -w of install when it finds an argument.
LEMMA OptionKeeps == ASSUME RunInv, Flag \/ Text \/ Value \/ Swallowed PROVE RunInv'
  BY AcceptKeeps DEF Flag, Text, Value, Swallowed, Scanning

\* After an option that is refused the line goes on without a result in order, or ends.
LEMMA RefuseKeeps ==
  ASSUME RunInv, phase \in {"scan", "scanned"}, phase' \in {"scan", "scanned", "record"},
         Refuse
  PROVE  RunInv'
<1> USE DEF Refuse
<1>1. CASE phase' = "record"
  BY <1>1, LineEnds DEF Running
<1>2. CASE phase' # "record"
  BY <1>2, WhileScanning, LineGoesOn DEF Running
<1>3. QED
  BY <1>1, <1>2

\* The options that are refused.
LEMMA RefusedKeeps ==
  ASSUME RunInv, BadValue \/ Help \/ Unused \/ Unknown \/ BadFurtherPath PROVE RunInv'
  BY RefuseKeeps DEF BadValue, Help, Unused, Unknown, BadFurtherPath, Scanning

\* The help that ends the command.
LEMMA HelpEndsKeeps == ASSUME RunInv, HelpEnds PROVE RunInv'
  BY LineEnds DEF HelpEnds, Scanning, Running

\* -w of install without an argument ends the process, is refused or counts.
LEMMA ShortWaitKeeps == ASSUME RunInv, ShortWait PROVE RunInv'
<1>1. CASE phase' = "aborted"
  BY <1>1, LineEnds DEF ShortWait, Scanning, Running, Refuse, Accept
<1>2. CASE phase' # "aborted"
  BY <1>2, AcceptKeeps, RefuseKeeps DEF ShortWait, Scanning
<1>3. QED
  BY <1>1, <1>2

\* The end of the line changes nothing of it.
LEMMA OptionsEndKeeps == ASSUME RunInv, OptionsEnd PROVE RunInv'
  BY WhileScanning, LineGoesOn DEF OptionsEnd, Running

-----------------------------------------------------------------------------
(* The end of the line *)

\* A line with a result in order is ready if nothing is missing, or if a message kept the
\* command from looking, which an overwritten refusal has left.
LEMMA CheckLineKeeps == ASSUME RunInv, CheckLine PROVE RunInv'
<1> USE DEF CheckLine
<1>1. CASE MayCall
  <2>1. Complete' = Complete
    BY DEF Complete, Needs, S, line
  <2>2. Complete \/ (S.overwritten /\ refused # "no")
    BY <1>1, WhileScanning DEF MayCall
  <2>3. QED
    BY <1>1, <2>1, <2>2, WhileScanning, LineGoesOn DEF MayCall, Running
<1>2. CASE ~MayCall
  BY <1>2, LineEnds DEF Running
<1>3. QED
  BY <1>1, <1>2

\* The rules need one more proxy.
LEMMA InitAppControlProxyKeeps == ASSUME RunInv, InitAppControlProxy PROVE RunInv'
<1> USE DEF InitAppControlProxy, Fail
<1>1. CASE phase' = "record"
  BY <1>1, LineEnds DEF Running
<1>2. CASE phase' # "record"
  <2>1. Complete' = Complete
    BY DEF Complete, Needs, S, line
  <2>2. UNCHANGED <<phase, refused, result, output>> /\ proxies \subseteq proxies'
    BY <1>2
  <2>3. QED
    BY <1>2, <2>1, <2>2, LineGoesOn DEF RunInv, CommandInv, LineInv, Ready, Running, line
<1>3. QED
  BY <1>1, <1>2

\* The operation has what it needs, and its failure is forgotten by three commands only.
LEMMA OperationKeeps == ASSUME RunInv, Operation PROVE RunInv'
<1> USE DEF Operation
<1>1. CASE ChoosesNothing
  BY <1>1, LineEnds DEF Fail, Running
<1>2. CASE ~ChoosesNothing
  <2>1. PICK ok \in BOOLEAN :
          /\ call' = cmd /\ succeeded' = ok
          /\ phase' = "record"
          /\ result' = Returned(ok)
          /\ output' = IF ok THEN "success" ELSE "error"
    BY <1>2
  <2>2. /\ phase = "ready" /\ cmd \in DOMAIN Syntax /\ "bundleMgr" \in proxies
        /\ S.installer => "installer" \in proxies
        /\ result = "ok" /\ Ready /\ report = NoReport
        /\ refused # "last" /\ (~S.overwritten => refused = "no")
    BY DEF RunInv, CommandInv, LineInv, OutcomeInv, Running
  <2>3. S' = S /\ Complete' = Complete
    BY DEF S, Complete, Needs, line
  <2>4. CommandInv' /\ LineInv'
    BY <2>1 DEF RunInv, CommandInv, LineInv, Needed, Required, Running
  <2>5. OutcomeInv'
    BY <2>1, <2>2, <2>3 DEF OutcomeInv, Returned, NoReport
  <2>6. RefusedLineCallsNothing' /\ CallIsComplete'
    BY <2>2, <2>3 DEF RefusedLineCallsNothing, CallIsComplete, Ready
  <2>7. ReportTellsTheOutcome'
    BY <2>1 DEF ReportTellsTheOutcome
  <2>8. QED
    BY <2>4, <2>5, <2>6, <2>7 DEF RunInv
<1>3. QED
  BY <1>1, <1>2

\* The record is made of what the function returned.
LEMMA ReportKeeps == ASSUME RunInv, ReportPermissionUsedRecord PROVE RunInv'
<1> USE DEF ReportPermissionUsedRecord
<1>1. S' = S /\ Complete' = Complete
  BY DEF S, Complete, Needs, line
<1>2. CommandInv' /\ LineInv' /\ OutcomeInv'
  BY DEF RunInv, CommandInv, LineInv, OutcomeInv, Needed, Required, Running
<1>3. RefusedLineCallsNothing' /\ CallIsComplete'
  BY <1>1 DEF RunInv, RefusedLineCallsNothing, CallIsComplete
<1>4. ReportTellsTheOutcome'
  <2>1. CASE Range(Needed(cmd)) \cap granted = {}
    <3>1. report' = NoReport /\ ~report'.success
      BY <2>1 DEF NoReport
    <3>2. call # "none" /\ cmd \notin Unrecorded => ~(Required(cmd) \subseteq granted)
      BY <2>1, RequiredIsListed DEF RunInv, CommandInv
    <3>3. QED
      BY <2>1, <3>1, <3>2 DEF ReportTellsTheOutcome, Entitled, Needed, Required
  <2>2. CASE Range(Needed(cmd)) \cap granted # {}
    <3>1. /\ report' = [permission |-> Reported(Needed(cmd)), success |-> result = "ok"]
          /\ report'.permission = Reported(Needed(cmd))
          /\ report'.success <=> result = "ok"
      BY <2>2
    <3>2. report'.permission \in granted \cap Range(Needed(cmd)) /\ report' # NoReport
      BY <2>2, <3>1, ReportedIsHeld DEF NoReport
    <3>3. cmd \in DOMAIN SUBCOMMAND_PERMISSION_MAP
      BY <2>2 DEF Needed, Range
    <3>4. result = "ok" /\ cmd # "recover" => succeeded \/ (call = "none" /\ output = "help")
      BY <3>3, OnlyRecoverForgets DEF RunInv, OutcomeInv, S
    <3>5. succeeded => result = "ok"
      BY DEF RunInv, OutcomeInv
    <3>6. UNCHANGED <<cmd, granted, Needed(cmd)>>
      BY DEF Needed
    <3>7. QED
      BY <3>1, <3>2, <3>4, <3>5, <3>6 DEF ReportTellsTheOutcome
  <2>3. QED
    BY <2>1, <2>2
<1>5. QED
  BY <1>2, <1>3, <1>4 DEF RunInv

-----------------------------------------------------------------------------
(* The invariant and what it gives *)

\* Every step of a run keeps the invariant.
LEMMA NextRunInv == RunInv /\ [Next]_vars => RunInv'
<1> SUFFICES ASSUME RunInv, [Next]_vars PROVE RunInv'
  OBVIOUS
<1>1. CASE UNCHANGED vars
  <2> USE <1>1 DEF vars, line, RunInv
  <2>1. S' = S /\ Complete' = Complete
    BY DEF S, Complete, Needs
  <2>2. CommandInv' /\ LineInv' /\ OutcomeInv'
    BY <2>1 DEF CommandInv, LineInv, OutcomeInv, Ready, Needed, Required, NoReport
  <2>3. RefusedLineCallsNothing' /\ CallIsComplete'
    BY <2>1 DEF RefusedLineCallsNothing, CallIsComplete
  <2>4. ReportTellsTheOutcome'
    BY DEF ReportTellsTheOutcome, Entitled, Needed, Required
  <2>5. QED
    BY <2>2, <2>3, <2>4
<1>2. QED
  BY <1>1, OnCommandKeeps, StartKeeps, GetRecoverableAppsKeeps, OptionKeeps, RefusedKeeps,
     HelpEndsKeeps, ShortWaitKeeps, OptionsEndKeeps, CheckLineKeeps, InitAppControlProxyKeeps,
     OperationKeeps, ReportKeeps DEF Next

\* The strengthening of the properties below holds in every reachable state.
THEOREM Inductive == Spec => []RunInv
  BY InitRunInv, NextRunInv, PTL DEF Spec

\* However long the line, nothing is called after an option that was refused, but where the
\* next option overwrites the result.
THEOREM RefusedLine == Spec => []RefusedLineCallsNothing
<1>1. RunInv => RefusedLineCallsNothing
  BY DEF RunInv
<1>2. QED
  BY <1>1, Inductive, PTL

\* However long the line, an operation has its values and its proxies.
THEOREM CompleteCall == Spec => []CallIsComplete
<1>1. RunInv => CallIsComplete
  BY DEF RunInv
<1>2. QED
  BY <1>1, Inductive, PTL

\* The record of a permission's use names one that is held and tells what became of it.
THEOREM TrueReport == Spec => []ReportTellsTheOutcome
<1>1. RunInv => ReportTellsTheOutcome
  BY DEF RunInv
<1>2. QED
  BY <1>1, Inductive, PTL
=============================================================================
