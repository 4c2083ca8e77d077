------------------------------ MODULE CommandLine ------------------------------
(***************************************************************************)
(* The command line of bm (frameworks/src/bundle_command.cpp): each RunAs  *)
(* function lets getopt_long scan its options into local variables, checks *)
(* what is missing, and either prints its help or calls one operation.     *)
(* OnCommand of frameworks/src/shell_command.cpp comes first.              *)
(*                                                                         *)
(* Syntax records how the commands differ:                                 *)
(*  - in most of them result is only ever set to ERR_INVALID_VALUE; in     *)
(*    those that parse an option in a function of its own, result is       *)
(*    overwritten by every option ("overwritten");                         *)
(*  - an unknown option, or one without its argument, ends the scan in all *)
(*    of them but get and the plugin commands ("stops");                   *)
(*  - a bad value of some options ends the command at once ("fatal"), and  *)
(*    so does a line that is too long for a "short" command.               *)
(*                                                                         *)
(* quickfix walks over its arguments itself.                               *)
(*                                                                         *)
(* getopt_long returns any option with any kind of argument at any turn,   *)
(* at most MaxOptions of them.  clean has a module of its own,             *)
(* CleanCommand.                                                           *)
(***************************************************************************)
EXTENDS Naturals

CONSTANTS
  MaxOptions,   \* bound: the options of one command line
  Waits         \* the values tried as the argument of -w

ASSUME LineAssumption == MaxOptions \in Nat /\ Waits \subseteq Nat

MINIMUM_WAITTING_TIME == 180
MAXIMUM_WAITTING_TIME == 600

Usual == [gate |-> "none", flags |-> {}, texts |-> {}, fatal |-> {}, swallowed |-> {},
          overwritten |-> FALSE, stops |-> TRUE, short |-> FALSE]

\* -p and -s want paths, -u and -w numbers.
Install == [Usual EXCEPT !.flags = {"r", "d", "g"}, !.fatal = {"p", "s", "u", "w"}]

\* A long -k or -s with an argument it does not take ends the scan, and counts.
Uninstall == [Usual EXCEPT !.flags = {"k", "s"}, !.texts = {"n", "m"},
                           !.fatal = {"u", "v"}, !.swallowed = {"k", "s"}]

Dump == [Usual EXCEPT !.flags = {"a", "l", "g", "s"}, !.texts = {"n", "d"},
                      !.fatal = {"u"}]

\* -m stands with its mode and the name after it; -a is unknown to getopt_long, and counts.
Compile == [Usual EXCEPT !.flags = {"m", "r"}, !.swallowed = {"a"}]

CopyAp == [Usual EXCEPT !.gate = "rootOrDeveloper", !.flags = {"a"}, !.texts = {"n"},
                        !.overwritten = TRUE]

Enable == [Usual EXCEPT !.gate = "root", !.texts = {"n", "a"}, !.fatal = {"u"}]
Disable == Enable

Get == [Usual EXCEPT !.flags = {"u"}, !.stops = FALSE, !.short = TRUE]

DumpOverlay == [Usual EXCEPT !.texts = {"b", "m", "t"}, !.fatal = {"u"}, !.short = TRUE]
DumpTargetOverlay == [Usual EXCEPT !.texts = {"b", "m"}, !.fatal = {"u"}, !.short = TRUE]

DumpSharedDependencies == [Usual EXCEPT !.texts = {"n", "m"}, !.overwritten = TRUE]
DumpShared == [Usual EXCEPT !.texts = {"n"}, !.flags = {"a"}, !.overwritten = TRUE]

\* The plugin commands scan on after an unknown option, and forget it.
UninstallPlugin ==
  [Usual EXCEPT !.texts = {"n", "p"}, !.overwritten = TRUE, !.stops = FALSE]
InstallPlugin == [UninstallPlugin EXCEPT !.texts = {"n"}, !.flags = {"p"}]

Syntax ==
  [install |-> Install, uninstall |-> Uninstall, dump |-> Dump, compile |-> Compile,
   copyAp |-> CopyAp, enable |-> Enable, disable |-> Disable, get |-> Get,
   dumpOverlay |-> DumpOverlay, dumpTargetOverlay |-> DumpTargetOverlay,
   dumpDependencies |-> DumpSharedDependencies, dumpShared |-> DumpShared,
   installPlugin |-> InstallPlugin, uninstallPlugin |-> UninstallPlugin,
   quickfix |-> Usual]

VARIABLES
  cmd,          \* cmd_
  mode,         \* "user", "developer" or "root"
  phase,        \* "command", "start", "scan" ("walk" and "files" in quickfix), "scanned",
                \* "done"
  counter,      \* options scanned
  valid,        \* result == ERR_OK
  printed,      \* resultReceiver_ is not empty
  given,        \* the options whose variable is set
  empty,        \* those of them whose argument is the empty string
  waittingTime,
  call,         \* the operation that was called with all it needs, or "none"
  refused,      \* history: options that were refused, or asked for help
  unknown,      \* history: an unknown option, or one without its argument, was seen
  lastRefused   \* history: so was the last one

arguments == <<given, empty, waittingTime>>
vars == <<cmd, mode, phase, counter, valid, printed, arguments, call, refused, unknown,
          lastRefused>>

Init ==
  /\ cmd \in DOMAIN Syntax
  /\ mode \in {"user", "developer", "root"}
  /\ phase = "command" /\ counter = 0 /\ valid = TRUE /\ printed = FALSE
  /\ given = {} /\ empty = {} /\ waittingTime = MINIMUM_WAITTING_TIME /\ call = "none"
  /\ refused = FALSE /\ unknown = FALSE /\ lastRefused = FALSE

S == Syntax[cmd]

\* ShellCommand::OnCommand: without the services nothing runs; enable and disable are in the
\* table in root mode only, and the help runs instead of a command that is not there.
OnCommand ==
  /\ phase = "command"
  /\ \/ phase' = "done" /\ valid' = FALSE /\ printed' = TRUE
     \/ /\ S.gate = "root" => mode = "root"
        /\ phase' = "start"
        /\ UNCHANGED <<valid, printed>>
     \/ /\ S.gate = "root" /\ mode # "root"
        /\ phase' = "done" /\ printed' = TRUE
        /\ UNCHANGED valid
  /\ UNCHANGED <<cmd, mode, counter, arguments, call, refused, unknown, lastRefused>>

\* enable and disable need root mode, copy-ap developer mode at least; else silence.
Start ==
  /\ phase = "start"
  /\ phase' = IF \/ S.gate = "root" /\ mode # "root"
                 \/ S.gate = "rootOrDeveloper" /\ mode = "user"
              THEN "done" ELSE IF cmd = "quickfix" THEN "walk" ELSE "scan"
  /\ UNCHANGED <<cmd, mode, counter, valid, printed, arguments, call, refused, unknown,
                 lastRefused>>

Scanning == phase = "scan" /\ counter < MaxOptions /\ counter' = counter + 1

AcceptedForgiving ==
  /\ lastRefused' = FALSE
  /\ valid' = TRUE
  /\ UNCHANGED <<cmd, mode, printed, call, refused, unknown>>

\* What an option that is in order makes of the result.
Accepted ==
  /\ lastRefused' = FALSE
  /\ valid' = (valid \/ S.overwritten)
  /\ UNCHANGED <<cmd, mode, printed, call, refused, unknown>>

Flag ==
  /\ Scanning
  /\ \E l \in S.flags : given' = given \cup {l}
  /\ Accepted
  /\ UNCHANGED <<phase, empty, waittingTime>>

\* An argument replaces the one before it, and may be the empty string.
Text ==
  /\ Scanning
  /\ \E l \in S.texts : given' = given \cup {l} /\ empty' \in {empty \cup {l}, empty \ {l}}
  /\ Accepted
  /\ UNCHANGED <<phase, waittingTime>>

\* A path, a user, a version or a waiting time, when it is in order.
Value ==
  /\ Scanning
  /\ \E l \in S.fatal :
       /\ given' = given \cup {l}
       /\ IF l = "w"
            THEN waittingTime' \in Waits \cap (MINIMUM_WAITTING_TIME .. MAXIMUM_WAITTING_TIME)
            ELSE UNCHANGED waittingTime
  /\ Accepted
  /\ UNCHANGED <<phase, empty>>

\* What an option that is refused leaves.
Refuse ==
  /\ valid' = FALSE
  /\ refused' = TRUE /\ lastRefused' = TRUE
  /\ UNCHANGED <<cmd, mode, call>>

BadValue ==
  /\ Scanning
  /\ \E l \in S.fatal :
       IF l = "w"
         THEN waittingTime' \in Waits \ (MINIMUM_WAITTING_TIME .. MAXIMUM_WAITTING_TIME)
         ELSE UNCHANGED waittingTime
  /\ Refuse
  /\ printed' = TRUE
  /\ phase' = "done"
  /\ UNCHANGED <<given, empty, unknown>>

\* get takes one argument, the overlay commands six.
TooLong ==
  /\ phase = "scan" /\ counter = 0
  /\ S.short
  /\ Refuse
  /\ printed' = TRUE
  /\ phase' = "done"
  /\ UNCHANGED <<counter, arguments, unknown>>

\* GetPluginPath: an empty path, or one that is an option, is refused; the scan goes on.
BadPluginPath ==
  /\ Scanning
  /\ cmd = "installPlugin"
  /\ Refuse
  /\ printed' = TRUE
  /\ UNCHANGED <<phase, arguments, unknown>>

\* -h, an option that getopt_long knows and the command does not, or compile -m without a
\* name: nothing is printed yet.
HelpOrUnused ==
  /\ Scanning
  /\ Refuse
  /\ UNCHANGED <<phase, printed, arguments, unknown>>

Unknown ==
  /\ Scanning
  /\ Refuse
  /\ printed' = TRUE
  /\ unknown' = TRUE
  /\ phase' = IF S.stops THEN "scanned" ELSE "scan"
  /\ UNCHANGED arguments

Swallowed ==
  /\ Scanning
  /\ \E l \in S.swallowed : given' = given \cup {l}
  /\ phase' = "scanned"
  /\ Accepted
  /\ UNCHANGED <<empty, waittingTime>>

\* getopt_long returns -1; without any option at all every command is refused.
OptionsEnd ==
  /\ phase = "scan"
  /\ phase' = "scanned"
  /\ valid' = (valid /\ counter > 0)
  /\ printed' = (printed \/ counter = 0)
  /\ UNCHANGED <<cmd, mode, counter, arguments, call, refused, unknown,
                 lastRefused>>

-----------------------------------------------------------------------------
(* The arguments of quickfix *)

Walking(p) == phase = p /\ counter < MaxOptions /\ counter' = counter + 1

\* What an argument leaves alone that is read and not refused.
Read ==
  UNCHANGED <<cmd, mode, valid, printed, waittingTime, call, refused, unknown, lastRefused>>

WalkHelp ==
  /\ Walking("walk")
  /\ refused' = TRUE /\ lastRefused' = TRUE
  /\ printed' = TRUE
  /\ phase' = "done"
  /\ UNCHANGED <<cmd, mode, valid, arguments, call, unknown>>

\* An argument that is no option, -a, -q or -r with less than two more after it, or the end
\* of a line that has chosen nothing.
WalkRefused ==
  /\ phase = "walk"
  /\ Refuse
  /\ printed' = TRUE
  /\ phase' = "done"
  /\ UNCHANGED <<counter, arguments, unknown>>

\* -q and -r take two arguments whatever they are, and nothing more is read.  The second one
\* is the bundle's name only if the first is -b.
WalkBundle ==
  /\ Walking("walk")
  /\ \E l \in {"q", "r"} :
       \/ given' = {l} /\ UNCHANGED empty
       \/ given' = {l, "b"} /\ empty' \in {{}, {"b"}}
  /\ phase' = "scanned"
  /\ Read

\* -a skips two arguments unless the first is -f.
WalkApply ==
  /\ Walking("walk")
  /\ phase' \in {"walk", "files"}
  /\ UNCHANGED <<given, empty>>
  /\ Read

\* After -f whatever is not -d, -t or -o, or one of the options that end the list, is a file.
FileArgument ==
  /\ Walking("files")
  /\ \/ \E l \in {"f", "d", "o"} : given' = given \cup {l} /\ UNCHANGED empty
     \/ given' = given \cup {"t"} /\ empty' \in {{}, {"t"}}
  /\ UNCHANGED phase
  /\ Read

\* The list ends with the line, with a -t that has no path, or at -q, -b, -a or -f, after
\* which nothing is read.
FilesEnd ==
  /\ phase = "files"
  /\ phase' = "scanned"
  /\ UNCHANGED <<counter, given, empty>>
  /\ Read

-----------------------------------------------------------------------------
(* After the scan *)

\* The letters of which an operation needs one each.
Needs ==
  CASE cmd = "install" -> {{"p", "s"}}
    [] cmd \in {"uninstall", "enable", "disable"} -> {{"n"}}
    [] cmd = "dump" /\ {"s", "d"} \cap given # {} -> {{"n"}}
    [] cmd = "dumpDependencies" -> {{"n"}, {"m"}}
    [] cmd = "dumpShared" -> {{"a", "n"}}
    [] cmd \in {"installPlugin", "uninstallPlugin"} -> {{"n"}, {"p"}}
    [] cmd \in {"dumpOverlay", "dumpTargetOverlay"} -> {{"b"}}
    [] cmd = "quickfix" -> IF {"q", "r"} \cap given # {} THEN {{"b"}} ELSE {{"f"}}
    [] OTHER -> {}

Filled == given \ empty

Complete == \A need \in Needs : need \cap Filled # {}

\* The operation that the options choose, or "none".
Chosen ==
  CASE cmd = "uninstall" -> IF "s" \in given THEN "UninstallShared" ELSE "Uninstall"
    [] cmd = "dump" -> IF "s" \in given THEN "DumpShortcutInfos"
                       ELSE IF "d" \in given THEN "DumpDistributedBundleInfo"
                       ELSE IF "a" \in given /\ "l" \notin given THEN "DumpBundleList"
                       ELSE IF "g" \in given THEN "DumpDebugBundleList"
                       ELSE IF "n" \in given /\ "l" \notin given THEN "DumpBundleInfo"
                       ELSE IF "a" \in given THEN "DumpAllLabel"
                       ELSE IF "n" \in given THEN "DumpBundleLabel" ELSE "none"
    [] cmd = "compile" -> IF "m" \in given THEN "CompileProcessAot"
                          ELSE IF "r" \in given THEN "CompileReset" ELSE "none"
    [] cmd = "dumpShared" -> IF "a" \in given THEN "DumpSharedAll" ELSE "DumpShared"
    [] cmd = "dumpOverlay" /\ {"m", "t"} \subseteq Filled -> "none"
    [] cmd = "quickfix" -> IF "q" \in given THEN "GetApplyedQuickFixInfo"
                           ELSE IF "r" \in given THEN "DeleteQuickFix"
                           ELSE IF "t" \in Filled THEN "DeployQuickFixDisable"
                           ELSE "ApplyQuickFix"
    [] OTHER -> cmd

\* The operations of quickfix that are called whatever is missing.
Unchecked == {"DeleteQuickFix", "DeployQuickFixDisable"}

Overlay == cmd \in {"dumpOverlay", "dumpTargetOverlay"}

MayCallUnchecked == valid

\* The overlay operations look at their own arguments, and so do a query and an apply of
\* quickfix; for the others what is missing is looked for as long as nothing was printed.
MayCall == valid /\ (Complete \/ (printed /\ ~Overlay) \/ Chosen \in Unchecked)

\* install collects the arguments after -p and -s as further paths: one that is empty or
\* an option refuses the line.
BadFurtherPath ==
  /\ phase = "scanned" /\ valid
  /\ cmd = "install" /\ {"p", "s"} \cap given # {}
  /\ valid' = FALSE /\ printed' = TRUE
  /\ refused' = TRUE
  /\ UNCHANGED <<cmd, mode, phase, counter, arguments, call, unknown,
                 lastRefused>>

Dispatch ==
  /\ phase = "scanned"
  /\ phase' = "done"
  /\ call' = IF MayCall THEN Chosen ELSE "none"
  /\ valid' = (valid /\ (MayCall \/ Overlay))
  /\ printed' = TRUE
  /\ UNCHANGED <<cmd, mode, counter, arguments, refused, unknown, lastRefused>>

Next ==
  \/ OnCommand \/ Start
  \/ Flag \/ Text \/ Value \/ BadValue \/ TooLong \/ BadPluginPath \/ HelpOrUnused \/ Unknown
  \/ Swallowed \/ OptionsEnd
  \/ WalkHelp \/ WalkRefused \/ WalkBundle \/ WalkApply \/ FileArgument \/ FilesEnd
  \/ BadFurtherPath \/ Dispatch

Spec == Init /\ [][Next]_vars

-----------------------------------------------------------------------------
(* Properties *)

\* An operation is called only for a line that was in order: no option of it refused
\* where the result is kept, none unknown where an unknown option ends the scan, and
\* never when the last option was refused.
RefusedLineRunsNothing ==
  call # "none" =>
    /\ ~lastRefused
    /\ ~S.overwritten => ~refused
    /\ S.stops => ~unknown

\* An operation gets the names and paths it needs, in whatever order and however often
\* they are given; for the plugin commands, if no option was unknown or refused.  The two
\* operations of quickfix that are called without a check are the exception, against what
\* README_zh.md:338 and 340 ask for.
OperationHasItsArguments ==
  call \notin Unchecked \cup {"none"} /\ (cmd \in {"installPlugin", "uninstallPlugin"} => ~refused)
    => Complete

\* What the plugin commands print of themselves: "you must specify a plugin path with
\* '-p' ... and a host bundle name with '-n'" (frameworks/include/bundle_command.h:209).
PluginHasItsArguments ==
  call \in {"installPlugin", "uninstallPlugin"} => {"n", "p"} \subseteq Filled
=============================================================================
