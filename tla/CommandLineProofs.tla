---------------------------- MODULE CommandLineProofs ----------------------------
(***************************************************************************)
(* What holds of the command lines of bm of any length and with any        *)
(* waiting times.  An operation is called at the end of a line, if the     *)
(* result is in order then and nothing is missing, and what is missing is  *)
(* looked for only as long as nothing was printed; LineInv says what a     *)
(* result in order, and a message, tell of the options scanned so far.     *)
(***************************************************************************)
EXTENDS CommandLine, TLAPS

PluginCommands == {"installPlugin", "uninstallPlugin"}

\* The result at any moment of the line, for the options up to then.
ResultInv ==
  phase # "done" =>
    /\ call = "none"
    /\ valid => ~lastRefused /\ (~S.overwritten => ~refused)
    /\ unknown /\ S.stops => phase = "scanned" /\ ~valid

\* A line goes on after a message only in the plugin commands, where the next option may
\* overwrite the result.
PrintedInv ==
  phase # "done" /\ printed =>
    /\ valid => refused /\ S.overwritten /\ ~S.stops
    /\ phase \in {"command", "start", "scan"} => refused /\ ~S.stops

LineInv ==
  /\ cmd \in DOMAIN Syntax
  /\ ResultInv /\ PrintedInv
  /\ RefusedLineRunsNothing /\ OperationHasItsArguments

-----------------------------------------------------------------------------
(* The table and the line *)

\* Only the plugin commands both overwrite the result and scan on after an unknown option.
LEMMA ForgivingCommands ==
  /\ \A c \in DOMAIN Syntax : Syntax[c].overwritten /\ ~Syntax[c].stops => c \in PluginCommands
  /\ ~Syntax["installPlugin"].stops
<1> USE DEF Usual
<1>1. DOMAIN Syntax =
        {"install", "uninstall", "dump", "compile", "copyAp", "enable", "disable", "get",
         "dumpOverlay", "dumpTargetOverlay", "dumpDependencies", "dumpShared",
         "installPlugin", "uninstallPlugin", "quickfix"}
  BY DEF Syntax
<1>2. /\ Syntax["install"] = Install /\ Syntax["uninstall"] = Uninstall
      /\ Syntax["dump"] = Dump /\ Syntax["compile"] = Compile
      /\ Syntax["copyAp"] = CopyAp /\ Syntax["enable"] = Enable
      /\ Syntax["disable"] = Disable /\ Syntax["get"] = Get
      /\ Syntax["dumpOverlay"] = DumpOverlay
      /\ Syntax["dumpTargetOverlay"] = DumpTargetOverlay
      /\ Syntax["dumpDependencies"] = DumpSharedDependencies
      /\ Syntax["dumpShared"] = DumpShared
      /\ Syntax["installPlugin"] = InstallPlugin
      /\ Syntax["uninstallPlugin"] = UninstallPlugin /\ Syntax["quickfix"] = Usual
  BY DEF Syntax
<1>3. ~Install.overwritten /\ ~Uninstall.overwritten /\ ~Dump.overwritten
  BY DEF Install, Uninstall, Dump
<1>4. ~Compile.overwritten /\ ~Enable.overwritten /\ ~Disable.overwritten
  BY DEF Compile, Enable, Disable
<1>5. ~DumpOverlay.overwritten /\ ~DumpTargetOverlay.overwritten /\ ~Usual.overwritten
  BY DEF DumpOverlay, DumpTargetOverlay
<1>6. ~Get.overwritten
  BY DEF Get
<1>7. CopyAp.stops /\ DumpSharedDependencies.stops /\ DumpShared.stops
  BY DEF CopyAp, DumpSharedDependencies, DumpShared
<1>8. ~InstallPlugin.stops
  BY DEF InstallPlugin, UninstallPlugin
<1>9. QED
  BY <1>1, <1>2, <1>3, <1>4, <1>5, <1>6, <1>7, <1>8 DEF PluginCommands

\* No command has scanned anything before it starts.
LEMMA InitLineInv == Init => LineInv
  BY DEF Init, LineInv, ResultInv, PrintedInv, RefusedLineRunsNothing, OperationHasItsArguments

\* A line that ends without a call has nothing to answer for.
LEMMA EndsWithoutCall ==
  ASSUME LineInv, UNCHANGED cmd, phase' = "done", call' = "none"
  PROVE  LineInv'
  BY DEF LineInv, ResultInv, PrintedInv, RefusedLineRunsNothing, OperationHasItsArguments

\* What has to be shown of a step after which the line goes on.
LEMMA LineGoesOn ==
  ASSUME LineInv, UNCHANGED <<cmd, call>>, phase # "done",
         valid' => ~lastRefused' /\ (~S.overwritten => ~refused'),
         unknown' /\ S.stops => phase' = "scanned" /\ ~valid',
         printed' /\ valid' => refused' /\ S.overwritten /\ ~S.stops,
         printed' /\ phase' \in {"command", "start", "scan"} => refused' /\ ~S.stops
  PROVE  LineInv'
<1>1. S' = S
  BY DEF S
<1>2. call' = "none"
  BY DEF LineInv, ResultInv
<1>3. ResultInv' /\ PrintedInv'
  BY <1>1, <1>2 DEF ResultInv, PrintedInv
<1>4. QED
  BY <1>2, <1>3 DEF LineInv, RefusedLineRunsNothing, OperationHasItsArguments

-----------------------------------------------------------------------------
(* Before the scan *)

\* Nothing is scanned before the command starts.
LEMMA StartKeeps == ASSUME LineInv, OnCommand \/ Start PROVE LineInv'
<1> USE DEF OnCommand, Start
<1>1. CASE phase' = "done"
  BY <1>1, EndsWithoutCall DEF LineInv, ResultInv
<1>2. CASE phase' # "done"
  BY <1>2, LineGoesOn DEF LineInv, ResultInv, PrintedInv
<1>3. QED
  BY <1>1, <1>2

-----------------------------------------------------------------------------
(* The scan *)

\* An option that is in order mends the result only where it is overwritten.
LEMMA AcceptedKeeps ==
  ASSUME LineInv, phase = "scan", phase' \in {"scan", "scanned"}, Accepted
  PROVE  LineInv'
<1> USE DEF Accepted
<1>1. valid' => valid \/ S.overwritten
  OBVIOUS
<1>2. ~(unknown /\ S.stops)
  BY DEF LineInv, ResultInv
<1>3. printed => refused /\ ~S.stops
  BY DEF LineInv, PrintedInv
<1>4. printed /\ valid' => S.overwritten
  BY <1>1 DEF LineInv, PrintedInv
<1>5. valid' => (~S.overwritten => ~refused)
  BY <1>1 DEF LineInv, ResultInv
<1>6. QED
  BY <1>2, <1>3, <1>4, <1>5, LineGoesOn

\* The options that are in order.
LEMMA OptionKeeps == ASSUME LineInv, Flag \/ Text \/ Value \/ Swallowed PROVE LineInv'
  BY AcceptedKeeps DEF Flag, Text, Value, Swallowed, Scanning

\* A refusal after which the line goes on: what was printed before it is accounted for.
LEMMA RefusedKeeps == ASSUME LineInv, BadPluginPath \/ HelpOrUnused \/ Unknown PROVE LineInv'
<1> USE DEF Refuse, Scanning
<1>1. CASE BadPluginPath
  <2>1. ~S.stops
    BY <1>1, ForgivingCommands DEF BadPluginPath, S
  <2>2. QED
    BY <1>1, <2>1, LineGoesOn DEF BadPluginPath
<1>2. CASE HelpOrUnused
  <2>1. ~(unknown /\ S.stops)
    BY <1>2 DEF HelpOrUnused, LineInv, ResultInv
  <2>2. QED
    BY <1>2, <2>1, LineGoesOn DEF HelpOrUnused, LineInv, PrintedInv
<1>3. CASE Unknown
  BY <1>3, LineGoesOn DEF Unknown
<1>4. QED
  BY <1>1, <1>2, <1>3

\* A refusal that ends the command.
LEMMA RefusedEnds == ASSUME LineInv, BadValue \/ TooLong PROVE LineInv'
<1>1. UNCHANGED <<cmd, call>> /\ phase = "scan" /\ phase' = "done"
  BY DEF BadValue, TooLong, Refuse, Scanning
<1>2. QED
  BY <1>1, EndsWithoutCall DEF LineInv, ResultInv

\* A line without options is refused like any other.
LEMMA OptionsEndKeeps == ASSUME LineInv, OptionsEnd PROVE LineInv'
<1> USE DEF OptionsEnd
<1>1. valid' => valid /\ counter > 0
  OBVIOUS
<1>2. printed' => printed \/ counter = 0
  OBVIOUS
<1>3. printed' /\ valid' => printed /\ valid
  BY <1>1, <1>2
<1>4. QED
  BY <1>1, <1>3, LineGoesOn DEF LineInv, ResultInv, PrintedInv

-----------------------------------------------------------------------------
(* The arguments of quickfix *)

\* An argument that is refused, or asks for help, ends the command.
LEMMA WalkEnds == ASSUME LineInv, WalkHelp \/ WalkRefused PROVE LineInv'
<1>1. UNCHANGED <<cmd, call>> /\ phase = "walk" /\ phase' = "done"
  BY DEF WalkHelp, WalkRefused, Refuse, Walking
<1>2. QED
  BY <1>1, EndsWithoutCall DEF LineInv, ResultInv

\* One that is read leaves the result as it is.
LEMMA WalkKeeps ==
  ASSUME LineInv, WalkBundle \/ WalkApply \/ FileArgument \/ FilesEnd PROVE LineInv'
<1>1. Read /\ phase \in {"walk", "files"} /\ phase' \in {"walk", "files", "scanned"}
  BY DEF WalkBundle, WalkApply, FileArgument, FilesEnd, Walking
<1>2. QED
  BY <1>1, LineGoesOn DEF Read, LineInv, ResultInv, PrintedInv

-----------------------------------------------------------------------------
(* The end of the line *)

\* A further path that is refused makes the result invalid.
LEMMA BadFurtherPathKeeps == ASSUME LineInv, BadFurtherPath PROVE LineInv'
  BY LineGoesOn DEF BadFurtherPath, LineInv, ResultInv

\* What was called for has a line in order behind it and all it needs.
LEMMA DispatchKeeps == ASSUME LineInv, Dispatch PROVE LineInv'
<1> USE DEF Dispatch
<1>1. CASE ~MayCall
  BY <1>1, EndsWithoutCall
<1>2. CASE MayCall
  <2>1. valid /\ phase = "scanned" /\ UNCHANGED <<cmd, refused, unknown, lastRefused>>
    BY <1>2 DEF MayCall
  <2>2. S' = S /\ Complete' = Complete
    BY DEF S, Complete, Filled, Needs, arguments
  <2>3. RefusedLineRunsNothing'
    BY <2>1, <2>2 DEF LineInv, ResultInv, RefusedLineRunsNothing
  <2>4. ASSUME ~Complete, Chosen \notin Unchecked PROVE cmd \in PluginCommands /\ refused
    <3>1. printed
      BY <1>2, <2>4 DEF MayCall
    <3>2. refused /\ S.overwritten /\ ~S.stops
      BY <2>1, <3>1 DEF LineInv, PrintedInv
    <3>3. QED
      BY <3>2, ForgivingCommands DEF LineInv, S
  <2>5. OperationHasItsArguments'
    <3>1. call' = Chosen
      BY <1>2
    <3>2. QED
      BY <2>1, <2>2, <2>4, <3>1 DEF OperationHasItsArguments, PluginCommands
  <2>6. QED
    BY <2>1, <2>3, <2>5 DEF LineInv, ResultInv, PrintedInv
<1>3. QED
  BY <1>1, <1>2

-----------------------------------------------------------------------------
(* The invariant and what it gives *)

\* Every step of a command line keeps the invariant.
LEMMA NextLineInv == LineInv /\ [Next]_vars => LineInv'
<1> SUFFICES ASSUME LineInv, [Next]_vars PROVE LineInv'
  OBVIOUS
<1>1. CASE UNCHANGED vars
  <2> USE <1>1 DEF vars, arguments
  <2>1. S' = S /\ Complete' = Complete
    BY DEF S, Complete, Filled, Needs
  <2>2. QED
    BY <2>1 DEF LineInv, ResultInv, PrintedInv, RefusedLineRunsNothing,
                OperationHasItsArguments
<1>2. QED
  BY <1>1, StartKeeps, OptionKeeps, RefusedKeeps, RefusedEnds, OptionsEndKeeps, WalkEnds,
     WalkKeeps, BadFurtherPathKeeps, DispatchKeeps DEF Next

\* The strengthening of the properties below holds in every reachable state.
THEOREM Inductive == Spec => []LineInv
  BY InitLineInv, NextLineInv, PTL DEF Spec

\* However long the line, an option that is refused is not forgotten when the operation is
\* called, but by the commands that overwrite the result, and not by those if it is the last.
THEOREM RefusedLine == Spec => []RefusedLineRunsNothing
<1>1. LineInv => RefusedLineRunsNothing
  BY DEF LineInv
<1>2. QED
  BY <1>1, Inductive, PTL

\* However long the line, an operation is called with all it needs, but for the plugin
\* commands after a refused option and the two operations of quickfix that nothing checks.
THEOREM ItsArguments == Spec => []OperationHasItsArguments
<1>1. LineInv => OperationHasItsArguments
  BY DEF LineInv
<1>2. QED
  BY <1>1, Inductive, PTL
=============================================================================
