----------------------------- MODULE CleanCommand -----------------------------
(***************************************************************************)
(* RunAsCleanCommand of bm and of ohos-bm: the options are scanned one by  *)
(* one, then the cache or the data of one bundle is cleaned.  The cache is *)
(* cleaned by the bundle manager, which answers through                    *)
(* CleanCacheCallbackImpl within three seconds or is given up; the data by *)
(* the ability manager and, for bm, by the bundle manager after it.        *)
(*                                                                         *)
(* getopt_long returns any option at any turn; a run has at most           *)
(* MaxOptions.  The foreground user may be switched while the command      *)
(* runs.  Whatever the bundle manager has accepted it may still do after   *)
(* the command has given it up.                                            *)
(***************************************************************************)
EXTENDS Naturals

CONSTANTS
  Users,            \* users of the device
  Unspecified,      \* UNSPECIFIED_USERID, also what a failing account service leaves
  NoUser,
  CallErrors,       \* errors of CleanBundleCacheFiles
  MaxOptions,       \* bound: the options of one command line
  MaxWaitingTime    \* MAX_WAITING_TIME, in ticks

ASSUME CleanAssumption ==
  /\ Unspecified \notin Users /\ NoUser \notin Users \cup {Unspecified}
  /\ CallErrors \cap {"ok", "unknown", "timeout", "none"} = {}
  /\ MaxOptions \in Nat /\ MaxWaitingTime \in Nat \ {0}

VARIABLES
  tool,         \* "bm" or "ohos-bm"
  permitted,    \* bm: root mode or developer mode
  phase,        \* where the command is
  counter,      \* options scanned
  valid,        \* result == ERR_OK
  named,        \* bundleName is not empty
  cleanCache, cleanData,
  currentUser, userId,
  warned,       \* the users <<currentUser, asked>> the warning names, or <<>>
  foreground,   \* the account service's foreground user
  cacheCall,    \* the bundle manager's view of CleanBundleCacheFiles
  signal,       \* the promise of CleanCacheCallbackImpl
  left,         \* ticks until GetResultCode gives up
  files,        \* what has become of the bundle's "cache", "ams" and "bms" files
  cleaned,      \* the user whose files the services were asked to clean
  report,       \* what the command said of the cache and of the data
  seenForeground, \* history: the users that were in the foreground
  seenBad       \* history: an option was refused, or asked for help

scan == <<counter, valid, named, cleanCache, cleanData, userId, warned>>
service == <<cacheCall, signal, files>>
given == <<tool, permitted, currentUser>>
history == <<seenForeground, seenBad>>
vars == <<given, phase, scan, foreground, service, left, cleaned, report, history>>

Init ==
  /\ tool \in {"bm", "ohos-bm"}
  /\ permitted \in BOOLEAN
  /\ phase = "start"
  /\ counter = 0 /\ valid = TRUE /\ named = FALSE
  /\ cleanCache = FALSE /\ cleanData = FALSE
  /\ currentUser = NoUser /\ userId = NoUser /\ warned = <<>>
  /\ foreground \in Users
  /\ cacheCall = "none" /\ signal = "none" /\ left = MaxWaitingTime
  /\ files = [f \in {"cache", "ams", "bms"} |-> "untouched"]
  /\ cleaned = NoUser
  /\ report = [cache |-> "none", data |-> "none"]
  /\ seenForeground = {foreground} /\ seenBad = FALSE

-----------------------------------------------------------------------------
(* Scanning the options *)

\* GetCurrentUserId, built with ACCOUNT_ENABLE: the account service may fail.
GetCurrentUserId(u) == IF u = Unspecified THEN {foreground, Unspecified} ELSE {u}

\* bm clean is refused silently in user mode; ohos-bm cleans for the user it runs as,
\* and would pass on an invalid one like any other.
Start ==
  /\ phase = "start"
  /\ \/ /\ tool = "bm" /\ ~permitted
        /\ phase' = "done" /\ UNCHANGED <<currentUser, userId>>
     \/ /\ tool = "bm" => permitted
        /\ phase' = "scan"
        /\ currentUser' \in (IF tool = "bm" THEN GetCurrentUserId(Unspecified) ELSE Users)
        /\ userId' = currentUser'
  /\ UNCHANGED <<tool, permitted, counter, valid, named, cleanCache, cleanData, warned,
                 foreground, service, left, cleaned, report, history>>

Scanning == phase = "scan" /\ counter < MaxOptions /\ counter' = counter + 1

\* -n with a name, or with an empty one.
OptionName ==
  /\ Scanning
  /\ named' \in BOOLEAN
  /\ UNCHANGED <<given, phase, valid, cleanCache, cleanData, userId, warned, foreground,
                 service, left, cleaned, report, history>>

OptionCacheAlways ==
  /\ Scanning
  /\ cleanCache' = TRUE
  /\ UNCHANGED <<given, phase, valid, named, cleanData, userId, warned, foreground,
                 service, left, cleaned, report, history>>

\* -c and -d exclude each other: the first one stays.
OptionCache ==
  /\ Scanning
  /\ cleanCache' = ~cleanData
  /\ UNCHANGED <<given, phase, valid, named, cleanData, userId, warned, foreground,
                 service, left, cleaned, report, history>>

OptionData ==
  /\ Scanning
  /\ cleanData' = ~cleanCache
  /\ UNCHANGED <<given, phase, valid, named, cleanCache, userId, warned, foreground,
                 service, left, cleaned, report, history>>

OptionUserTrusting ==
  /\ Scanning
  /\ tool = "bm"
  /\ \E u \in Users : userId' = u /\ UNCHANGED warned
  /\ UNCHANGED <<given, phase, valid, named, cleanCache, cleanData, foreground,
                 service, left, cleaned, report, history>>

\* -u of bm: a user who is not in the foreground is warned of and replaced.
\* IsUserForeground is FALSE, too, when the account service fails.
OptionUser ==
  /\ Scanning
  /\ tool = "bm"
  /\ \E u \in Users :
       \/ u = foreground /\ userId' = u /\ UNCHANGED warned
       \/ warned' = <<currentUser, u>> /\ userId' \in GetCurrentUserId(Unspecified)
  /\ UNCHANGED <<given, phase, valid, named, cleanCache, cleanData, foreground,
                 service, left, cleaned, report, history>>

OptionHelpIgnored ==
  /\ Scanning
  /\ seenBad' = TRUE
  /\ UNCHANGED <<given, phase, valid, named, cleanCache, cleanData, userId, warned,
                 foreground, service, left, cleaned, report, seenForeground>>

\* -h makes the result invalid; the scan goes on.
OptionHelp ==
  /\ Scanning
  /\ valid' = FALSE
  /\ seenBad' = TRUE
  /\ UNCHANGED <<given, phase, named, cleanCache, cleanData, userId, warned, foreground,
                 service, left, cleaned, report, seenForeground>>

\* An unknown option or one without its argument ends the scan; a bad value of -u or -i
\* ends the command.
OptionRefused ==
  /\ Scanning
  /\ valid' = FALSE
  /\ seenBad' = TRUE
  /\ phase' \in {"scanned", "done"}
  /\ UNCHANGED <<given, named, cleanCache, cleanData, userId, warned, foreground,
                 service, left, cleaned, report, seenForeground>>

\* getopt_long returns -1.
OptionsEnd ==
  /\ phase = "scan"
  /\ phase' = "scanned"
  /\ UNCHANGED <<given, scan, foreground, service, left, cleaned, report, history>>

\* Without a name, or without -c or -d, nothing is cleaned.
Dispatch ==
  /\ phase = "scanned"
  /\ phase' = IF ~valid \/ ~named THEN "done"
              ELSE IF cleanCache THEN "cache"
              ELSE IF cleanData THEN "ams" ELSE "done"
  /\ UNCHANGED <<given, scan, foreground, service, left, cleaned, report, history>>

-----------------------------------------------------------------------------
(* CleanBundleCacheFilesOperation *)

\* ohos-bm leaves when the cache was not cleaned; bm would go on to the data.
ReportCache(r) ==
  /\ report' = [report EXCEPT !.cache = r]
  /\ phase' = IF cleanData /\ (tool = "bm" \/ r = "ok") THEN "ams" ELSE "done"

\* The user is resolved once more before the call.
CallCache ==
  /\ phase = "cache"
  /\ cleaned' \in GetCurrentUserId(userId)
  /\ \/ cacheCall' = "accepted" /\ phase' = "wait" /\ UNCHANGED report
     \/ cacheCall' = "refused" /\ \E e \in CallErrors : ReportCache(e)
  /\ UNCHANGED <<given, scan, foreground, signal, files, left, history>>

GetResultCodeForEver ==
  /\ phase = "wait"
  /\ signal # "none" /\ ReportCache(signal)
  /\ UNCHANGED <<given, scan, foreground, service, left, cleaned, history>>

GetResultCode ==
  /\ phase = "wait"
  /\ \/ signal # "none" /\ ReportCache(signal)
     \/ signal = "none" /\ left = 0 /\ ReportCache("timeout")
  /\ UNCHANGED <<given, scan, foreground, service, left, cleaned, history>>

Tick ==
  /\ phase = "wait" /\ left > 0
  /\ left' = left - 1
  /\ UNCHANGED <<given, phase, scan, foreground, service, cleaned, report, history>>

\* The bundle manager cleans the cache, or fails to; it may also never do either.
ServiceCleansCache ==
  /\ cacheCall = "accepted"
  /\ \E r \in {"cleaned", "failed"} :
       cacheCall' = r /\ files' = [files EXCEPT !["cache"] = r]
  /\ UNCHANGED <<given, phase, scan, foreground, signal, left, cleaned, report, history>>

OnCleanCacheFinished ==
  /\ cacheCall \in {"cleaned", "failed"}
  /\ signal' = IF cacheCall = "cleaned" THEN "ok" ELSE "unknown"
  /\ cacheCall' = "answered"
  /\ UNCHANGED <<given, phase, scan, foreground, files, left, cleaned, report, history>>

-----------------------------------------------------------------------------
(* CleanBundleDataFilesOperation *)

\* The ability manager clears its part, and its failure stops nothing in bm.
ClearUpApplicationData ==
  /\ phase = "ams"
  /\ cleaned' \in GetCurrentUserId(userId)
  /\ \E r \in {"cleaned", "failed"} :
       /\ files' = [files EXCEPT !["ams"] = r]
       /\ \/ tool = "bm" /\ phase' = "bms" /\ UNCHANGED report
          \/ /\ tool = "ohos-bm" /\ phase' = "done"
             /\ report' = [report EXCEPT !.data = IF r = "cleaned" THEN "ok" ELSE "failed"]
  /\ UNCHANGED <<given, scan, foreground, cacheCall, signal, left, history>>

CleanBundleDataFilesLastOnly ==
  /\ phase = "bms"
  /\ \E r \in {"cleaned", "failed"} :
       /\ files' = [files EXCEPT !["bms"] = r]
       /\ report' = [report EXCEPT !.data = IF r = "cleaned" THEN "ok" ELSE "failed"]
  /\ phase' = "done"
  /\ UNCHANGED <<given, scan, foreground, cacheCall, signal, left, cleaned, history>>

\* The bundle manager is asked whatever the ability manager said; both must succeed.
CleanBundleDataFiles ==
  /\ phase = "bms"
  /\ \E r \in {"cleaned", "failed"} :
       /\ files' = [files EXCEPT !["bms"] = r]
       /\ report' = [report EXCEPT !.data =
                       IF files["ams"] = "cleaned" /\ r = "cleaned" THEN "ok" ELSE "failed"]
  /\ phase' = "done"
  /\ UNCHANGED <<given, scan, foreground, cacheCall, signal, left, cleaned, history>>

-----------------------------------------------------------------------------
SwitchUser ==
  /\ foreground' \in Users \ {foreground}
  /\ seenForeground' = seenForeground \cup {foreground'}
  /\ UNCHANGED <<given, phase, scan, service, left, cleaned, report, seenBad>>

ScanOption ==
  \/ OptionName \/ OptionCache \/ OptionData \/ OptionUser \/ OptionHelp \/ OptionRefused

Command ==
  \/ Start \/ OptionsEnd \/ Dispatch
  \/ CallCache \/ GetResultCode \/ ClearUpApplicationData \/ CleanBundleDataFiles

Next ==
  \/ ScanOption \/ Command \/ Tick
  \/ ServiceCleansCache \/ OnCleanCacheFinished
  \/ SwitchUser

(***************************************************************************)
(* The command runs, its calls return, a command line ends and time        *)
(* passes; the bundle manager need never answer through the callback.      *)
(***************************************************************************)
Spec == Init /\ [][Next]_vars
FairSpec == Spec /\ WF_vars(Command) /\ WF_vars(Tick)

-----------------------------------------------------------------------------
(* Properties *)

\* No file of a bundle is touched by a command line any option of which was refused or
\* asked for help, however many valid options came before or after it, nor by a tool
\* that may not clean.
BadLineCleansNothing ==
  cacheCall # "none" \/ cleaned # NoUser =>
    ~seenBad /\ named /\ (tool = "bm" => permitted)

\* One command cleans the cache or the data, never both, in whatever order -c and -d
\* are given and repeated.
CleansOneKind == cacheCall = "none" \/ files["ams"] = "untouched"

\* What is reported as cleaned has been cleaned: all of it that the tool asks for, and
\* before the report, whatever answer came late.
SuccessIsTrue ==
  /\ report.cache = "ok" => files["cache"] = "cleaned"
  /\ report.data = "ok" => /\ files["ams"] = "cleaned"
                           /\ tool = "bm" => files["bms"] = "cleaned"

\* The files that bm cleans belong to a user who was in the foreground at some moment of
\* the command, even if -u named another or the user was switched meanwhile; the user
\* is left to the services only when the account service failed.
CleansForegroundUser ==
  tool = "bm" => cleaned \in seenForeground \cup {Unspecified, NoUser}

\* The command returns, whether or not the bundle manager answers.
CommandReturns == <>(phase = "done")
=============================================================================
