------------------------------ MODULE OhosCommand ------------------------------
(***************************************************************************)
(* One run of ohos-bm, from the command word to the record of what the     *)
(* caller's permission was used for (ohos_bm/src/shell_command.cpp and     *)
(* bundle_command.cpp).  OnCommand looks the command up, connects to the   *)
(* bundle manager and runs the command; its RunAs function connects to     *)
(* what else it needs, lets getopt_long scan the options, looks for what   *)
(* is missing and calls one operation; ReportPermissionUsedRecord then     *)
(* counts a success or a failure, by what the function returned.           *)
(*                                                                         *)
(* Syntax records how the commands differ:                                 *)
(*  - the letters that take no value, or one that nothing looks at         *)
(*    ("flags"), a string that may turn out to be empty ("texts"), a value *)
(*    that is checked at once ("checked");                                 *)
(*  - the letters that getopt_long knows and the command does not          *)
(*    ("unused");                                                          *)
(*  - the letters of which one each must be there ("needs"), and whether   *)
(*    the installer's proxy must;                                          *)
(*  - whether every option overwrites the result ("overwritten"), whether  *)
(*    -h ends the command with success ("helpEnds"), and whether the       *)
(*    function returns the scan's result when the operation has failed     *)
(*    ("forgets").                                                         *)
(*                                                                         *)
(* The operations are one step here: those of the installer and of clean   *)
(* have modules of their own.  Left out: JSON that cannot be printed.      *)
(***************************************************************************)
EXTENDS Naturals, Sequences, Functions

CONSTANT MaxOptions   \* bound: the options of one command line

ASSUME LineAssumption == MaxOptions \in Nat

\* Without the prefix of the names; a command that is not here needs none, or is not recorded.
SUBCOMMAND_PERMISSION_MAP ==
  [install |-> <<"INSTALL_BUNDLE", "ALLOW_INSTALL_DEBUG_HAP">>,
   uninstall |-> <<"UNINSTALL_BUNDLE">>,
   dump |-> <<"GET_INSTALLED_BUNDLE_LIST">>, publicDump |-> <<"GET_ALL_BUNDLE_INFO">>,
   dumpDependencies |-> <<"GET_INSTALLED_BUNDLE_LIST">>,
   dumpShared |-> <<"GET_INSTALLED_BUNDLE_LIST">>,
   clean |-> <<"REMOVE_BUNDLE_DATA_AND_CACHE_FILES">>,
   setDisposedRule |-> <<"MANAGE_DISPOSED_APP_STATUS">>,
   deleteDisposedRule |-> <<"MANAGE_DISPOSED_APP_STATUS">>,
   getRecoverableApps |-> <<"GET_INSTALLED_BUNDLE_LIST">>,
   recover |-> <<"INSTALL_BUNDLE">>]

\* What config.json requires of the caller of a command; the shell's map has neither
\* RECOVER_BUNDLE nor MANAGE_SANDBOX_BUNDLE.
requirePermissions ==
  [install |-> {"ALLOW_INSTALL_DEBUG_HAP"}, uninstall |-> {"UNINSTALL_BUNDLE"},
   dump |-> {"GET_INSTALLED_BUNDLE_LIST"}, publicDump |-> {"GET_ALL_BUNDLE_INFO"},
   dumpDependencies |-> {"GET_INSTALLED_BUNDLE_LIST"},
   dumpShared |-> {"GET_INSTALLED_BUNDLE_LIST"},
   clean |-> {"REMOVE_BUNDLE_DATA_AND_CACHE_FILES"},
   setDisposedRule |-> {"MANAGE_DISPOSED_APP_STATUS"},
   deleteDisposedRule |-> {"MANAGE_DISPOSED_APP_STATUS"},
   getRecoverableApps |-> {"GET_INSTALLED_BUNDLE_LIST"},
   recover |-> {"INSTALL_BUNDLE", "RECOVER_BUNDLE"},
   createCliSandboxApp |-> {"MANAGE_SANDBOX_BUNDLE"},
   destroyCliSandboxApp |-> {"MANAGE_SANDBOX_BUNDLE"}]

Usual == [flags |-> {}, texts |-> {}, checked |-> {}, swallowed |-> {}, unused |-> {},
          needs |-> {}, installer |-> FALSE, overwritten |-> FALSE, helpEnds |-> FALSE,
          forgets |-> FALSE]

Install == [Usual EXCEPT !.flags = {"r"}, !.checked = {"p", "u", "w"}, !.installer = TRUE,
                         !.needs = {{"p"}}]

\* A long -k or -s with an argument it does not take ends the scan, and counts.
Uninstall == [Usual EXCEPT !.flags = {"k", "s"}, !.texts = {"n"}, !.checked = {"v"},
                           !.swallowed = {"k", "s"}, !.installer = TRUE,
                           !.needs = {{"n"}}]

\* The name is needed only for the shortcuts and for another device: see Needs.
PublicDump == [Usual EXCEPT !.flags = {"a", "g", "l", "s"}, !.texts = {"n"}, !.unused = {"i"}]
Dump == [PublicDump EXCEPT !.texts = {"n", "d"}]

DumpSharedDependencies ==
  [Usual EXCEPT !.texts = {"n", "m"}, !.overwritten = TRUE, !.needs = {{"n"}, {"m"}}]
DumpShared ==
  [Usual EXCEPT !.texts = {"n"}, !.flags = {"a"}, !.overwritten = TRUE, !.needs = {{"a", "n"}}]

Clean == [Usual EXCEPT !.flags = {"c", "d"}, !.texts = {"n"}, !.checked = {"i"},
                       !.needs = {{"n"}, {"c", "d"}}]

\* wantParams stands for the strings, the integers and the booleans.
SetDisposedRule ==
  [Usual EXCEPT !.flags = {"appId", "wantBundleName", "wantModuleName", "wantAbilityName"},
                !.checked = {"appIndex", "priority", "componentType", "disposedType",
                             "controlType", "elements", "wantParams"},
                !.needs = {{"appId"}, {"priority"}, {"componentType"}, {"disposedType"},
                           {"controlType"}, {"wantBundleName"}, {"wantAbilityName"}},
                !.helpEnds = TRUE]
DeleteDisposedRule ==
  [Usual EXCEPT !.flags = {"appId"}, !.checked = {"appIndex"}, !.needs = {{"appId"}},
                !.helpEnds = TRUE]

Recover ==
  [Usual EXCEPT !.texts = {"n"}, !.installer = TRUE, !.needs = {{"n"}}, !.forgets = TRUE]
CreateCliSandboxApp == [Recover EXCEPT !.texts = {"n", "c"}, !.needs = {{"n"}, {"c"}}]
DestroyCliSandboxApp ==
  [Recover EXCEPT !.texts = {"n", "c"}, !.checked = {"i"}, !.needs = {{"n"}, {"i"}}]

Syntax ==
  [install |-> Install, uninstall |-> Uninstall, dump |-> Dump, publicDump |-> PublicDump,
   dumpDependencies |-> DumpSharedDependencies, dumpShared |-> DumpShared, clean |-> Clean,
   setDisposedRule |-> SetDisposedRule, deleteDisposedRule |-> DeleteDisposedRule,
   getRecoverableApps |-> Usual, recover |-> Recover,
   createCliSandboxApp |-> CreateCliSandboxApp,
   destroyCliSandboxApp |-> DestroyCliSandboxApp]

VARIABLES
  cmd,          \* cmd_: a command, "--help", or a word that is no command
  granted,      \* the permissions of the caller's token that matter to the command
  phase,        \* "command", "start", "scan", "scanned", "ready", "record", "done", "aborted"
  proxies,      \* the proxies that are not null
  counter,      \* options scanned
  result,       \* "ok", "invalid" or "failed"
  output,       \* what resultReceiver_ holds: "", "help", "error" or "success"
  given,        \* the options whose variable is set
  empty,        \* those of them whose argument counts as missing
  call,         \* the operation that was called, or "none"
  succeeded,    \* whether it succeeded
  report,       \* what was told to PrivacyKit, or NoReport
  refused       \* history: "last" if the last option was refused or asked for help, else
                \* "earlier" if one before it was, else "no"

line == <<counter, given, empty>>
vars == <<cmd, granted, phase, proxies, line, result, output, call, succeeded, report,
          refused>>

NoReport == [permission |-> "none", success |-> FALSE]

Needed(c) ==
  IF c \in DOMAIN SUBCOMMAND_PERMISSION_MAP THEN SUBCOMMAND_PERMISSION_MAP[c] ELSE << >>

Required(c) == IF c \in DOMAIN requirePermissions THEN requirePermissions[c] ELSE {}

Init ==
  /\ cmd \in DOMAIN Syntax \cup {"--help", "unknown"}
  /\ granted \in SUBSET (Range(Needed(cmd)) \cup Required(cmd))
  /\ phase = "command" /\ proxies = {} /\ counter = 0
  /\ result = "ok" /\ output = "" /\ given = {} /\ empty = {}
  /\ call = "none" /\ succeeded = FALSE /\ report = NoReport /\ refused = "no"

S == Syntax[cmd]

-----------------------------------------------------------------------------
(* Before the scan *)

\* The bundle manager is looked for before every command but --help.  An unknown command
\* runs as --help, whose text replaces the error message.
OnCommand ==
  /\ phase = "command"
  /\ \/ /\ cmd = "--help"
        /\ phase' = "record" /\ output' = "help"
        /\ UNCHANGED <<proxies, result>>
     \/ /\ cmd # "--help"
        /\ proxies' = {"bundleMgr"}
        /\ IF cmd = "unknown" THEN phase' = "record" /\ output' = "help"
                              ELSE phase' = "start" /\ UNCHANGED output
        /\ UNCHANGED result
     \/ /\ cmd # "--help"
        /\ phase' = "done" /\ result' = "invalid" /\ output' = "error"
        /\ UNCHANGED proxies
  /\ UNCHANGED <<cmd, granted, line, call, succeeded, report, refused>>

\* A RunAs function leaves with an error of its own.
Fail(result_) ==
  /\ phase' = "record"
  /\ result' = result_
  /\ output' = "error"

\* Without an argument every command but get-recoverable-apps is refused.
NoOption ==
  /\ phase = "start"
  /\ cmd # "getRecoverableApps"
  /\ Fail("invalid")
  /\ UNCHANGED <<cmd, granted, proxies, line, call, succeeded, report, refused>>

InitInstaller ==
  /\ phase = "start"
  /\ S.installer
  /\ \/ proxies' = proxies \cup {"installer"} /\ phase' = "scan" /\ UNCHANGED <<result, output>>
     \/ Fail("invalid") /\ UNCHANGED proxies
  /\ UNCHANGED <<cmd, granted, line, call, succeeded, report, refused>>

StartScan ==
  /\ phase = "start"
  /\ ~S.installer
  /\ cmd # "getRecoverableApps"
  /\ phase' = "scan"
  /\ UNCHANGED <<cmd, granted, proxies, line, result, output, call, succeeded, report, refused>>

\* get-recoverable-apps looks at its first argument only.
GetRecoverableApps ==
  /\ phase = "start"
  /\ cmd = "getRecoverableApps"
  /\ \/ phase' = "ready" /\ UNCHANGED <<result, output, refused>>
     \/ phase' = "record" /\ output' = "help" /\ refused' = "last" /\ UNCHANGED result
     \/ Fail("invalid") /\ refused' = "last"
  /\ UNCHANGED <<cmd, granted, proxies, line, call, succeeded, report>>

-----------------------------------------------------------------------------
(* The scan: one action for each kind of option that getopt_long may return *)

Scanning == phase = "scan" /\ counter < MaxOptions /\ counter' = counter + 1

AcceptForgiving ==
  /\ result' = "ok"
  /\ refused' = IF refused = "no" THEN "no" ELSE "earlier"
  /\ UNCHANGED <<cmd, granted, proxies, output, call, succeeded, report>>

\* What an option that is in order makes of the result.
Accept ==
  /\ result' = IF S.overwritten THEN "ok" ELSE result
  /\ refused' = IF refused = "no" THEN "no" ELSE "earlier"
  /\ UNCHANGED <<cmd, granted, proxies, output, call, succeeded, report>>

Flag ==
  /\ Scanning
  /\ \E l \in S.flags : given' = given \cup {l}
  /\ Accept
  /\ UNCHANGED <<phase, empty>>

\* An argument replaces the one before it, and may be the empty string.
Text ==
  /\ Scanning
  /\ \E l \in S.texts : given' = given \cup {l} /\ empty' \in {empty \cup {l}, empty \ {l}}
  /\ Accept
  /\ UNCHANGED phase

\* destroy-cli-sandbox-app takes any number for its index; one that is not positive counts
\* as missing.
Value ==
  /\ Scanning
  /\ \E l \in S.checked :
       /\ given' = given \cup {l}
       /\ IF cmd = "destroyCliSandboxApp" THEN empty' \in {empty \cup {l}, empty \ {l}}
                                          ELSE UNCHANGED empty
  /\ Accept
  /\ UNCHANGED phase

\* What an option that is refused leaves.
Refuse ==
  /\ result' = "invalid"
  /\ refused' = "last"
  /\ UNCHANGED <<cmd, granted, proxies, given, empty, call, succeeded, report>>

BadValue ==
  /\ Scanning
  /\ S.checked # {}
  /\ Refuse
  /\ output' = "error"
  /\ phase' = "record"

Help ==
  /\ Scanning
  /\ ~S.helpEnds
  /\ Refuse
  /\ output' = "help"
  /\ UNCHANGED phase

HelpEnds ==
  /\ Scanning
  /\ S.helpEnds
  /\ phase' = "record" /\ output' = "help" /\ refused' = "last"
  /\ UNCHANGED <<cmd, granted, proxies, result, given, empty, call, succeeded, report>>

Unused ==
  /\ Scanning
  /\ S.unused # {}
  /\ Refuse
  /\ UNCHANGED <<phase, output>>

\* An unknown option, or one without its argument.
Unknown ==
  /\ Scanning
  /\ Refuse
  /\ output' = "error"
  /\ phase' = "scanned"

Swallowed ==
  /\ Scanning
  /\ \E l \in S.swallowed : given' = given \cup {l}
  /\ phase' = "scanned"
  /\ Accept
  /\ UNCHANGED empty

\* The option string of install says "w" and not "w:", so that getopt_long gives -w no
\* argument: optarg is null, or with another libc still that of an earlier option.
ShortWait ==
  /\ Scanning
  /\ cmd = "install"
  /\ \/ phase' = "aborted"
        /\ UNCHANGED <<cmd, granted, proxies, given, empty, result, output, call, succeeded,
                       report, refused>>
     \/ given \cap S.checked # {} /\ Refuse /\ output' = "error" /\ phase' = "record"
     \/ /\ given \cap S.checked # {}
        /\ given' = given \cup {"w"}
        /\ Accept
        /\ UNCHANGED <<phase, empty>>

OptionsEnd ==
  /\ phase = "scan"
  /\ phase' = "scanned"
  /\ UNCHANGED <<cmd, granted, proxies, line, result, output, call, succeeded, report, refused>>

-----------------------------------------------------------------------------
(* After the scan *)

\* The letters of which an operation needs one each.
Needs ==
  IF cmd \in {"dump", "publicDump"}
  THEN IF {"s", "d"} \cap given # {} THEN {{"n"}} ELSE {}
  ELSE S.needs

Complete == \A need \in Needs : need \cap (given \ empty) # {}

\* dump chooses by its flags; with none of these it fails without a call.
ChoosesNothing ==
  cmd \in {"dump", "publicDump"} /\ {"s", "d", "a", "g", "n"} \cap given = {}

\* install takes the arguments after -p for further paths: one that is empty refuses the
\* line.
BadFurtherPath ==
  /\ phase = "scanned"
  /\ cmd = "install" /\ "p" \in given
  /\ Refuse
  /\ output' = "error"
  /\ UNCHANGED <<phase, counter>>

MayCallUnchecked == result = "ok"

\* What is missing is looked for only as long as nothing was printed.
MayCall == result = "ok" /\ (Complete \/ output # "")

CheckLine ==
  /\ phase = "scanned"
  /\ IF MayCall
       THEN phase' = "ready" /\ UNCHANGED <<result, output>>
       ELSE /\ phase' = "record" /\ result' = "invalid"
            /\ output' = IF output = "" \/ S.helpEnds THEN "error" ELSE output
  /\ UNCHANGED <<cmd, granted, proxies, line, call, succeeded, report, refused>>

\* The rules are not for user 0, and need the proxy of the application control.
InitAppControlProxy ==
  /\ phase = "ready"
  /\ S.helpEnds /\ "appControl" \notin proxies
  /\ \/ Fail("invalid") /\ UNCHANGED proxies
     \/ proxies' = proxies \cup {"appControl"} /\ UNCHANGED <<phase, result, output>>
  /\ UNCHANGED <<cmd, granted, line, call, succeeded, report, refused>>

ReturnedScan(ok) == "ok"

\* recover and the two sandbox commands print a failure and return the scan's result.
Returned(ok) ==
  IF ok \/ S.forgets THEN "ok" ELSE "failed"

Operation ==
  /\ phase = "ready"
  /\ S.helpEnds => "appControl" \in proxies
  /\ IF ChoosesNothing
       THEN Fail("invalid") /\ UNCHANGED <<call, succeeded>>
       ELSE \E ok \in BOOLEAN :
              /\ call' = cmd /\ succeeded' = ok
              /\ phase' = "record"
              /\ result' = Returned(ok)
              /\ output' = IF ok THEN "success" ELSE "error"
  /\ UNCHANGED <<cmd, granted, proxies, line, report, refused>>

\* The first permission of the command that the caller holds.
Reported(perms) ==
  LET held == {i \in DOMAIN perms : perms[i] \in granted}
  IN  perms[CHOOSE i \in held : \A j \in held : i <= j]

ReportPermissionUsedRecord ==
  /\ phase = "record"
  /\ phase' = "done"
  /\ report' = IF Range(Needed(cmd)) \cap granted = {} THEN NoReport
               ELSE [permission |-> Reported(Needed(cmd)), success |-> result = "ok"]
  /\ UNCHANGED <<cmd, granted, proxies, line, result, output, call, succeeded, refused>>

Next ==
  \/ OnCommand \/ NoOption \/ InitInstaller \/ StartScan \/ GetRecoverableApps
  \/ Flag \/ Text \/ Value \/ BadValue \/ Help \/ HelpEnds \/ Unused \/ Unknown \/ Swallowed
  \/ ShortWait \/ OptionsEnd
  \/ BadFurtherPath \/ CheckLine \/ InitAppControlProxy \/ Operation
  \/ ReportPermissionUsedRecord

Spec == Init /\ [][Next]_vars

-----------------------------------------------------------------------------
(* Properties *)

\* A line with an option that was refused, or with a request for help, calls nothing; the
\* commands that overwrite the result with every option go by the last one, and an option
\* that stopped the scan is the last.
RefusedLineCallsNothing ==
  call # "none" => refused # "last" /\ (~S.overwritten => refused = "no")

\* An operation gets the names, paths and values it needs and a proxy that is not null, in
\* whatever order and however often the options are given; where the result is
\* overwritten, if no option was refused.
CallIsComplete ==
  call # "none" =>
    /\ Complete \/ (S.overwritten /\ refused # "no")
    /\ "bundleMgr" \in proxies
    /\ S.installer => "installer" \in proxies
    /\ S.helpEnds => "appControl" \in proxies

\* The commands that require a permission and have no entry in the shell's map.
Unrecorded == {"createCliSandboxApp", "destroyCliSandboxApp"}

\* The caller holds what config.json requires of it, or a permission of the map.
Entitled == Required(cmd) \subseteq granted \/ Range(Needed(cmd)) \cap granted # {}

\* The record of a permission's use says what became of it.  It names a permission of the
\* command that the caller holds, and is a success only if the operation succeeded or
\* nothing but help was asked for: recover, which returns the result of the scan, is the
\* exception, for its failures are recorded as successes.  Whoever holds what config.json
\* requires is recorded when the operation is called, although the record is made from
\* another table: here the sandbox commands are the exception, for theirs is never recorded.
ReportTellsTheOutcome ==
  phase = "done" =>
    /\ report # NoReport =>
         report.permission \in granted \cap Range(Needed(cmd)) /\ (succeeded => report.success)
    /\ (report.success /\ cmd # "recover") =>
         succeeded \/ (call = "none" /\ output = "help")
    /\ (call # "none" /\ Entitled /\ cmd \notin Unrecorded) => report # NoReport

\* "'ohos-bm install -w <waitting-time>'" (ohos_bm/src/bundle_command.cpp:490): -w takes a
\* waiting time, so that reading it does not end the process.
ShortWaitHasItsArgument == phase # "aborted"
=============================================================================
