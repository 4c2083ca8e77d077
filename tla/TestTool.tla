------------------------------- MODULE TestTool -------------------------------
(***************************************************************************)
(* One run of bundle_test_tool: what all its commands do with a command    *)
(* line, whose differences TestToolSyntax records                          *)
(* (frameworks/src/bundle_test_tool.cpp, shell_command.cpp).  OnCommand    *)
(* looks the command up and connects to the services; the RunAs function   *)
(* lets getopt_long scan the options, looks for what is missing, assumes   *)
(* the identity and the token the call is to be made with, gets a further  *)
(* proxy, makes the call and prints what came of it.                       *)
(*                                                                         *)
(* The letters of which nothing but their being in order matters are not   *)
(* remembered, and the options are counted only where the code looks at    *)
(* their number, so that a command line may have any length.  The          *)
(* operations are one step here: installing, the quick fix callback, check *)
(* and the caches have modules of their own.  Identities below zero, which *)
(* setuid refuses, are left out.                                           *)
(***************************************************************************)
EXTENDS Naturals, TestToolSyntax

CONSTANT Uids   \* the identities that an option may name

\* Two words stand for something else: no identity, and that of the bundle that is named.
ASSUME UidsAssumption == Uids \cap {"none", "bundle"} = {}

VARIABLES
  cmd,            \* cmd_: a command, "help", or a word that is no command
  phase,          \* "command", "start", "scan", "scanned", "ready", "assumed", "listening",
                  \* "done", "aborted"
  proxies,        \* the proxies that are not null
  counter,        \* options scanned; 1 stands for any number where the code sets no limit
  filled,         \* the letters of Matters whose variable holds a value that counts
  identity,       \* the variable of the letter S.who, or "none" as long as it is not set
  result,         \* the ErrCode of the RunAs function: "ok", "invalid" or "failed"
  output,         \* what resultReceiver_ ends with: "", "help", "error" or "success"
  uid,            \* the process's identity; "shell" cannot change it
  tokenReloaded,  \* whether ReloadNativeTokenInfo gave the process its native token
  enterprise,     \* whether the device's parameter IS_ENTERPRISE_DEVICE was set
  registered,     \* whether the service holds an event callback of the process
  call,           \* the operation that was called, or "none"
  succeeded,      \* whether it succeeded
  refused,        \* history: "last" if the last option was refused or asked for help, else
                  \* "earlier" if one before it was, else "ended" if the scan ended with an
                  \* unknown one, "overlooked" if a bad value was overlooked, else "no"
  asked           \* history: the first identity asked for other than the tool's own, and
                  \* the last

caller == <<uid, tokenReloaded, enterprise>>
outcome == <<call, succeeded, registered>>
vars == <<cmd, phase, proxies, counter, filled, identity, result, output, caller, outcome,
          refused, asked>>

Commands == DOMAIN CreateCommandMap
S == CreateCommandMap[cmd]
Callbacks == {"eventCB", "pluginCallback"}

\* The letters that something depends on after the scan.
Matters ==
  UNION S.needs \cup
  (CASE S.token \in {"asked", "unset"} -> {"p"}
     [] cmd \in Callbacks -> {"o"}
     [] cmd = "getContinueBundleName" -> {"u"}
     [] cmd = "uninstallPreInstallBundle" -> {"f"}
     [] OTHER -> {})

Init ==
  /\ cmd \in Commands \cup {"help", "unknown"}
  /\ phase = "command" /\ proxies = {} /\ counter = 0
  /\ filled = {} /\ identity = "none"
  /\ result = "ok" /\ output = ""
  /\ uid \in {"root", "shell"} /\ tokenReloaded = FALSE /\ enterprise = FALSE
  /\ registered = FALSE /\ call = "none" /\ succeeded = FALSE
  /\ refused = "no" /\ asked = [first |-> "none", last |-> "none"]

\* Only root may become another user, and then no more.
SetUid(u) == IF uid = "root" THEN u ELSE uid

-----------------------------------------------------------------------------
(* Before the scan *)

\* Init gets the proxies of the bundle manager, the installer and the resources, whatever
\* the command.  A word that is no command runs as help.
OnCommand ==
  /\ phase = "command"
  /\ \/ /\ phase' = "done" /\ result' = "invalid" /\ output' = "error"
        /\ UNCHANGED proxies
     \/ /\ proxies' = {"bundleMgr", "bundleInstaller", "bundleResource"}
        /\ IF cmd \in Commands THEN phase' = "start" /\ UNCHANGED output
                               ELSE phase' = "done" /\ output' = "help"
        /\ UNCHANGED result
  /\ UNCHANGED <<cmd, counter, filled, identity, caller, outcome, refused, asked>>

StartScan ==
  /\ phase = "start"
  /\ phase' = "scan"
  /\ tokenReloaded' = (S.token = "first")
  /\ UNCHANGED <<cmd, proxies, counter, filled, identity, result, output, uid, enterprise,
                 outcome, refused, asked>>

-----------------------------------------------------------------------------
(* The scan: one action for each kind of option that getopt_long may return *)

Scanning ==
  /\ phase = "scan"
  /\ S.limit > 0 => counter < S.limit
  /\ counter' = IF S.limit > 0 THEN counter + 1 ELSE 1

\* What an option that is in order makes of the result.
AcceptForgiving ==
  /\ result' = "ok"
  /\ refused' = IF refused = "last" THEN "earlier" ELSE refused
  /\ UNCHANGED <<cmd, phase, proxies, output, tokenReloaded, enterprise, outcome>>

Accept ==
  /\ result' = IF S.overwritten THEN "ok" ELSE result
  /\ refused' = IF refused = "last" THEN "earlier" ELSE refused
  /\ UNCHANGED <<cmd, phase, proxies, output, tokenReloaded, enterprise, outcome>>

\* A value replaces the one before it, and may count as none: an empty string, a zero, a
\* number outside its range.
Fill(l, counts) ==
  filled' = IF l \in Matters /\ counts THEN filled \cup {l} ELSE filled \ {l}

Flag ==
  /\ Scanning
  /\ \E l \in S.flags : Fill(l, TRUE)
  /\ Accept
  /\ UNCHANGED <<identity, uid, asked>>

Text ==
  /\ Scanning
  /\ \E l \in S.texts, counts \in BOOLEAN : Fill(l, counts)
  /\ Accept
  /\ UNCHANGED <<identity, uid, asked>>

\* The elements of a list are added to those before.
ListText ==
  /\ Scanning
  /\ \E l \in S.lists, counts \in BOOLEAN : filled' = filled \cup (IF counts THEN {l} ELSE {})
  /\ Accept
  /\ UNCHANGED <<identity, uid, asked>>

\* The paths of install are not empty.
Number ==
  /\ Scanning
  /\ \E l \in (S.numbers \cup S.unnoticed) \ {S.who} :
       \E counts \in IF cmd = "install" THEN {TRUE} ELSE BOOLEAN : Fill(l, counts)
  /\ Accept
  /\ UNCHANGED <<identity, uid, asked>>

\* The number is an identity.
Who ==
  /\ Scanning
  /\ S.who # "none"
  /\ \E u \in Uids :
       /\ identity' = u
       /\ uid' = IF S.early THEN SetUid(u) ELSE uid
       /\ asked' = [first |-> IF asked.first = "none" /\ u # "root" THEN u ELSE asked.first,
                    last |-> u]
  /\ Accept
  /\ UNCHANGED filled

\* What an option that is refused leaves; not every one has a message of its own.
Refuse ==
  /\ result' = "invalid"
  /\ refused' = "last"
  /\ output' \in {output, "error"}
  /\ UNCHANGED <<cmd, proxies, filled, identity, caller, outcome, asked>>

BadNumber ==
  /\ Scanning
  /\ S.numbers # {}
  /\ Refuse
  /\ phase' = IF S.onBad = "return" THEN "scanned" ELSE "scan"

\* The value is kept as it was, and the scan goes on.
Overlooked ==
  /\ Scanning
  /\ S.unnoticed # {}
  /\ refused' = IF refused \in {"no", "overlooked"} THEN "overlooked" ELSE "earlier"
  /\ UNCHANGED <<cmd, phase, proxies, filled, identity, result, output, caller, outcome,
                 asked>>

\* An option of another command with the same option string.
Unused ==
  /\ Scanning
  /\ S.unused # {}
  /\ Refuse
  /\ phase' = IF S.onUnknown = "end" THEN "scanned" ELSE "scan"

\* An unknown option, or one without its value.
Unknown ==
  /\ Scanning
  /\ S.onUnknown # "end"
  /\ Refuse
  /\ phase' = IF S.onUnknown = "note" THEN "scan" ELSE "scanned"

\* The scan ends as if there was nothing more: refused are the commands' own options
\* without their value, except those of setBundleFirstLaunch, and, with a getopt_long that
\* moves the command's word behind it, the first option.
UnknownEnds ==
  /\ Scanning
  /\ S.onUnknown = "end"
  /\ \/ UNCHANGED <<result, output>>
     \/ /\ counter = 0 \/ cmd # "setBundleFirstLaunch"
        /\ result' = "invalid" /\ output' = "error"
  /\ refused' = IF refused = "no" THEN "ended" ELSE refused
  /\ phase' = "scanned"
  /\ UNCHANGED <<cmd, proxies, filled, identity, caller, outcome, asked>>

Help ==
  /\ Scanning
  /\ S.onHelp # "ends"
  /\ Refuse
  /\ phase' = IF S.onHelp = "note" THEN "scan" ELSE "scanned"

HelpEnds ==
  /\ Scanning
  /\ S.onHelp = "ends"
  /\ phase' = "done" /\ result' = "ok" /\ output' = "help" /\ refused' = "last"
  /\ UNCHANGED <<cmd, proxies, filled, identity, caller, outcome, asked>>

\* The option string of install says "s" and not "s:", so that getopt_long gives -s no
\* argument: optarg is null, or with another libc still that of an earlier option.
ShortShared ==
  /\ cmd = "install"
  /\ Scanning
  /\ \/ /\ phase' = "aborted"
        /\ UNCHANGED <<cmd, proxies, filled, identity, result, output, caller, outcome,
                       refused, asked>>
     \/ /\ counter > 0
        /\ Fill("s", TRUE)
        /\ Accept
        /\ UNCHANGED <<identity, uid, asked>>
     \/ /\ counter > 0
        /\ Refuse
        /\ phase' = "scanned"

OptionsEnd ==
  /\ phase = "scan"
  /\ phase' = "scanned"
  /\ IF counter = 0 /\ ~S.bare
       THEN result' = "invalid" /\ output' = "error"
       ELSE UNCHANGED <<result, output>>
  /\ UNCHANGED <<cmd, proxies, counter, filled, identity, caller, outcome, refused, asked>>

-----------------------------------------------------------------------------
(* Between the scan and the call *)

Complete == \A need \in S.needs : need \cap filled # {}

MayCallUnchecked == result = "ok"
MayCall == result = "ok" /\ (Complete \/ (S.quiet /\ output # ""))

CheckLine ==
  /\ phase = "scanned"
  /\ IF MayCall
       THEN phase' = "ready" /\ UNCHANGED <<result, output>>
       ELSE /\ phase' = "done"
            /\ result' = IF result = "ok" /\ S.lenient THEN "ok" ELSE "invalid"
            /\ output' \in {output, "error"}
  /\ UNCHANGED <<cmd, proxies, counter, filled, identity, caller, outcome, refused, asked>>

WantedByDefault == S.uid

\* getContinueBundleName disguises itself only if no user was given.
Wanted ==
  IF identity # "none" THEN identity
  ELSE IF cmd = "getContinueBundleName" /\ "u" \in filled THEN "root"
  ELSE S.uid

\* The verdicts on the native token; installEnterpriseResignCert reads a variable that
\* nothing but -p sets.
Tokens ==
  CASE S.token \in {"first", "parsed"} -> {TRUE}
    [] S.token = "asked" -> {"p" \in filled}
    [] S.token = "unset" -> IF "p" \in filled THEN {TRUE} ELSE BOOLEAN
    [] OTHER -> {FALSE}

\* setuid, or seteuid, whose verdict is not looked at: the bundle of resetAOTCompileStatus
\* may have no identity.  uninstallPreInstallBundle -f makes the device an enterprise's.
\* What the commands do after the call to be root again changes nothing: as root they never
\* ceased to be, as another user they may not.
Assume ==
  /\ phase = "ready"
  /\ phase' = "assumed"
  /\ uid' \in {SetUid(Wanted)} \cup (IF Wanted = "bundle" THEN {uid} ELSE {})
  /\ tokenReloaded' \in Tokens
  /\ enterprise' = (cmd = "uninstallPreInstallBundle" /\ "f" \in filled)
  /\ UNCHANGED <<cmd, proxies, counter, filled, identity, result, output, outcome, refused,
                 asked>>

\* Some commands get the proxy before they change their identity, which makes no difference.
GetProxy ==
  /\ phase = "assumed"
  /\ S.proxy \ proxies # {}
  /\ \/ proxies' = proxies \cup S.proxy /\ UNCHANGED <<phase, result, output>>
     \/ /\ phase' = "done" /\ result' = "failed" /\ output' \in {output, "error"}
        /\ UNCHANGED proxies
  /\ UNCHANGED <<cmd, counter, filled, identity, caller, outcome, refused, asked>>

\* A list that cannot be converted, a further path that is empty, a file that cannot be
\* opened.
LateRefusal ==
  /\ phase = "assumed"
  /\ S.late
  /\ phase' = "done"
  /\ refused' = "last"
  /\ result' = IF S.lenient THEN "ok" ELSE "invalid"
  /\ output' \in {output, "error"}
  /\ UNCHANGED <<cmd, proxies, counter, filled, identity, caller, outcome, asked>>

-----------------------------------------------------------------------------
(* The call *)

\* What is printed at the end.
ToldSuccess(ok) == {"success"}
Told(ok) ==
  IF S.telling = "nothing" \/ cmd = "pluginCallback" THEN {output}
  ELSE IF S.telling = "success" \/ ok THEN {"success"}
  ELSE IF S.telling = "maybe" THEN {output, "error"}
  ELSE {"error"}

\* The event callbacks with -o unregister an object that was never registered.
Operation ==
  /\ phase = "assumed"
  /\ S.proxy \subseteq proxies
  /\ cmd \in Callbacks => "o" \in filled
  /\ \E ok \in BOOLEAN :
       /\ call' = cmd /\ succeeded' = ok
       /\ result' = IF ok \/ S.forgets THEN "ok" ELSE "failed"
       /\ output' \in Told(ok)
  /\ phase' = "done"
  /\ UNCHANGED <<cmd, proxies, counter, filled, identity, caller, registered, refused, asked>>

Register ==
  /\ phase = "assumed"
  /\ cmd \in Callbacks /\ "o" \notin filled
  /\ call' = cmd
  /\ \/ /\ registered' = TRUE /\ output' = "success" /\ phase' = "listening"
        /\ UNCHANGED result
     \/ /\ phase' = "done" /\ result' = "failed" /\ output' = "error"
        /\ UNCHANGED registered
  /\ UNCHANGED <<cmd, proxies, counter, filled, identity, caller, succeeded, refused, asked>>

\* After a while of listening.
Unregister ==
  /\ phase = "listening"
  /\ phase' = "done"
  /\ \/ /\ registered' = FALSE /\ succeeded' = TRUE /\ output' = "success"
        /\ UNCHANGED result
     \/ /\ result' = "failed" /\ output' = "error"
        /\ UNCHANGED <<registered, succeeded>>
  /\ UNCHANGED <<cmd, proxies, counter, filled, identity, caller, call, refused, asked>>

Next ==
  \/ OnCommand \/ StartScan
  \/ Flag \/ Text \/ ListText \/ Number \/ Who \/ BadNumber \/ Overlooked \/ Unused
  \/ Unknown \/ UnknownEnds \/ Help \/ HelpEnds \/ ShortShared \/ OptionsEnd
  \/ CheckLine \/ Assume \/ GetProxy \/ LateRefusal
  \/ Operation \/ Register \/ Unregister

Spec == Init /\ [][Next]_vars

-----------------------------------------------------------------------------
(* Properties *)

\* The commands that carry on with a bad number as if it had not been given.
Overlooking ==
  {"check", "addAppInstallRule", "getAppInstallRule", "deleteAppInstallRule",
   "cleanAppInstallRule", "addAppRunningRule", "deleteAppRunningRule", "cleanAppRunningRule",
   "getAppRunningControlRule", "getAppRunningControlRuleResult", "deleteDisposedRules",
   "getDisposedRules", "cleanBundleCacheFilesAutomatic", "getOdid",
   "updateAppEncryptedStatus", "getAppIdentifierAndAppIndex", "installEnterpriseResignCert"}

\* The commands that take an unknown option for the end of the line.
EndedByTheUnknown ==
  {"deployQuickFix", "switchQuickFix", "deleteQuickFix", "setDebugMode",
   "setBundleFirstLaunch"}

\* A line with a request for help, or with an option that is unknown or has a bad value,
\* calls nothing and leaves the device's parameter alone, whatever options follow.  The
\* commands of the two sets are lenient, each in its way only; getUninstalledBundleInfo and
\* implicitQuerySkillUriInfo go by the last option.
RefusedLineCallsNothing ==
  (call # "none" \/ enterprise) =>
    \/ refused = "no"
    \/ refused = "overlooked" /\ cmd \in Overlooking
    \/ refused = "ended" /\ cmd \in EndedByTheUnknown
    \/ refused = "earlier" /\ cmd \in {"getUninstalledBundleInfo", "implicitQuerySkillUriInfo"}

\* An operation gets every value its command insists on, the last of them if an option is
\* repeated, and proxies that are not null: that the missing values are looked for only as
\* long as nothing was printed lets none through.
CallIsComplete ==
  call # "none" =>
    /\ Complete
    /\ {"bundleMgr", "bundleInstaller", "bundleResource"} \cup S.proxy \subseteq proxies

\* A tool that runs as root makes its call under the identity last asked for, or else under
\* the command's own, which getContinueBundleName does without for a given user and
\* resetAOTCompileStatus for a bundle that has none; the two commands that change it with
\* each option are stuck with the first one other than root.
CallerIsAsAsked ==
  (call # "none" /\ uid # "shell") =>
    IF S.early
      THEN uid = IF asked.first = "none" THEN "root" ELSE asked.first
    ELSE IF asked.last # "none" THEN uid = asked.last
    ELSE \/ uid = S.uid
         \/ uid = "root" /\ (S.uid = "bundle" \/ cmd = "getContinueBundleName")

\* What is printed last tells what came of it: a success is reported only of a call that
\* succeeded, a failed call is not passed over in silence, and a callback stays registered
\* only with an error.  getrm takes what it could not find out for an answer; check,
\* pluginCallback -o, resetAOTCompileStatus and sendCommonEvent print nothing of the call,
\* getTopNLargestItemsInAppDataDir perhaps nothing.
OutcomeIsTold ==
  phase = "done" =>
    /\ output = "success" => succeeded \/ (cmd = "getrm" /\ call # "none")
    /\ (call # "none" /\ ~succeeded) =>
         \/ output = "error"
         \/ cmd \in {"getrm", "check", "pluginCallback", "resetAOTCompileStatus",
                     "sendCommonEvent", "getTopNLargestItemsInAppDataDir"}
    /\ registered => output = "error" /\ result = "failed"
=============================================================================
