--------------------------- MODULE CleanCommandProofs ---------------------------
(***************************************************************************)
(* What holds of CleanCommand for any users, errors, length of the command *)
(* line and waiting time.  CleanInv follows one command line: which lines  *)
(* get as far as a service, that -c and -d never both do, what the         *)
(* callback's promise says of the files, and where a user came from.       *)
(***************************************************************************)
EXTENDS CleanCommand, TLAPS

Files == {"cache", "ams", "bms"}

TypeInv ==
  /\ tool \in {"bm", "ohos-bm"}
  /\ phase \in {"start", "scan", "scanned", "cache", "wait", "ams", "bms", "done"}
  /\ counter \in 0 .. MaxOptions /\ left \in 0 .. MaxWaitingTime
  /\ cacheCall \in {"none", "refused", "accepted", "cleaned", "failed", "answered"}
  /\ signal \in {"none", "ok", "unknown"}
  /\ files \in [Files -> {"untouched", "cleaned", "failed"}]
  /\ report \in [cache : CallErrors \cup {"none", "ok", "unknown", "timeout"},
                 data : {"none", "ok", "failed"}]
  /\ {currentUser, userId, cleaned} \subseteq Users \cup {Unspecified, NoUser}
  /\ foreground \in Users /\ seenForeground \subseteq Users

\* A line that gets past the scan is valid, and so is one a service has heard of.
LineInv ==
  /\ valid => ~seenBad
  /\ phase \in {"cache", "wait", "ams", "bms"} => valid /\ named
  /\ phase \notin {"start", "done"} => (tool = "bm" => permitted)
  /\ cacheCall # "none" \/ cleaned # NoUser =>
       /\ phase \in {"wait", "ams", "bms", "done"}
       /\ valid /\ named /\ (tool = "bm" => permitted)

\* At most one of -c and -d stays, and only its files are asked for.
KindInv ==
  /\ ~(cleanCache /\ cleanData)
  /\ phase \in {"cache", "wait"} \/ cacheCall # "none" => cleanCache
  /\ phase \in {"ams", "bms"} \/ files["ams"] # "untouched" => cleanData
  /\ files["ams"] # "untouched" => phase \in {"bms", "done"}

\* The promise of the callback tells what has become of the cache.
CacheInv ==
  /\ cacheCall = "cleaned" \/ signal = "ok" => files["cache"] = "cleaned"
  /\ signal # "none" \/ report.cache = "ok" => cacheCall = "answered"
  /\ report.cache = "ok" => files["cache"] = "cleaned"

\* The data are reported on at the end.
DataInv ==
  /\ phase # "done" => report.data = "none"
  /\ report.data = "ok" => files["ams"] = "cleaned" /\ (tool = "bm" => files["bms"] = "cleaned")

\* bm takes every user it goes on with from the account service.
UserInv ==
  /\ foreground \in seenForeground
  /\ tool = "bm" => {userId, cleaned} \subseteq seenForeground \cup {Unspecified, NoUser}

CleanInv == TypeInv /\ LineInv /\ KindInv /\ CacheInv /\ DataInv /\ UserInv

-----------------------------------------------------------------------------

USE CleanAssumption

\* Nothing is scanned, asked for or reported when a command starts.
LEMMA InitCleanInv == Init => CleanInv
<1> SUFFICES ASSUME Init PROVE CleanInv
  OBVIOUS
<1> USE DEF Init
<1>1. TypeInv
  <2>1. files \in [Files -> {"untouched", "cleaned", "failed"}]
    BY DEF Files
  <2>2. counter \in 0 .. MaxOptions /\ left \in 0 .. MaxWaitingTime
    OBVIOUS
  <2>3. QED
    BY <2>1, <2>2 DEF TypeInv
<1>2. LineInv /\ KindInv
  BY DEF LineInv, KindInv
<1>3. CacheInv /\ DataInv /\ UserInv
  BY DEF CacheInv, DataInv, UserInv
<1>4. QED
  BY <1>1, <1>2, <1>3 DEF CleanInv

\* A user is resolved to the one in the foreground, to itself, or not at all.
LEMMA CurrentUser ==
  ASSUME NEW u, NEW v \in GetCurrentUserId(u)
  PROVE  v \in {foreground, Unspecified, u}
  BY DEF GetCurrentUserId

-----------------------------------------------------------------------------
(* Scanning the options *)

\* An option may spoil the line, never mend it, and no service has heard of it yet.
LEMMA ScanKeeps ==
  ASSUME CleanInv, TypeInv', phase = "scan", phase' \in {"scan", "scanned", "done"},
         UNCHANGED <<given, foreground, service, left, cleaned, report, seenForeground>>,
         valid' => valid /\ ~seenBad',
         ~(cleanCache' /\ cleanData'),
         tool = "bm" => userId' \in {userId, foreground, Unspecified}
  PROVE  CleanInv'
<1> USE DEF CleanInv, given, service
<1>1. cacheCall = "none" /\ cleaned = NoUser /\ files["ams"] = "untouched"
  BY DEF LineInv, KindInv
<1>2. LineInv'
  BY <1>1 DEF LineInv
<1>3. KindInv'
  BY <1>1 DEF KindInv
<1>4. CacheInv' /\ DataInv'
  BY DEF CacheInv, DataInv
<1>5. UserInv'
  BY DEF UserInv
<1>6. QED
  BY <1>2, <1>3, <1>4, <1>5

\* A name, or none.
LEMMA OptionNameKeeps == ASSUME CleanInv, OptionName PROVE CleanInv'
<1> USE DEF OptionName, Scanning
<1>1. TypeInv'
  BY DEF CleanInv, TypeInv, given, service, history
<1>2. QED
  BY <1>1, ScanKeeps DEF CleanInv, LineInv, KindInv, given, service, history

\* -c and -d exclude each other.
LEMMA OptionKindKeeps == ASSUME CleanInv, OptionCache \/ OptionData PROVE CleanInv'
<1> USE DEF OptionCache, OptionData, Scanning
<1>1. TypeInv'
  BY DEF CleanInv, TypeInv, given, service, history
<1>2. ~(cleanCache' /\ cleanData')
  BY Zenon DEF CleanInv, KindInv
<1>3. QED
  BY <1>1, <1>2, ScanKeeps DEF CleanInv, LineInv, given, service, history

\* -u does not choose a user who is not in the foreground.
LEMMA OptionUserKeeps == ASSUME CleanInv, OptionUser PROVE CleanInv'
<1> USE DEF OptionUser, Scanning
<1>1. userId' \in {foreground, Unspecified}
  BY CurrentUser
<1>2. TypeInv'
  BY <1>1 DEF CleanInv, TypeInv, given, service, history
<1>3. QED
  BY <1>1, <1>2, ScanKeeps DEF CleanInv, LineInv, KindInv, given, service, history

\* A line that asks for help or has a bad option is not valid any more.
LEMMA OptionBadKeeps == ASSUME CleanInv, OptionHelp \/ OptionRefused PROVE CleanInv'
<1> USE DEF OptionHelp, OptionRefused, Scanning
<1>1. TypeInv'
  BY DEF CleanInv, TypeInv, given, service
<1>2. QED
  BY <1>1, ScanKeeps DEF CleanInv, KindInv, given, service

\* The end of the line changes nothing of it.
LEMMA OptionsEndKeeps == ASSUME CleanInv, OptionsEnd PROVE CleanInv'
<1> USE DEF OptionsEnd
<1>1. TypeInv'
  BY DEF CleanInv, TypeInv, given, scan, service, history
<1>2. QED
  BY <1>1, ScanKeeps DEF CleanInv, LineInv, KindInv, given, scan, service, history

-----------------------------------------------------------------------------
(* The command's steps *)

\* bm goes on only with a permission, and with the user the account service names.
LEMMA StartKeeps == ASSUME CleanInv, Start PROVE CleanInv'
<1> USE DEF CleanInv, Start, service, history
<1>1. userId' = userId \/ (tool = "bm" => userId' \in {foreground, Unspecified})
  BY CurrentUser
<1>2. TypeInv'
  <2>1. {currentUser', userId'} \subseteq Users \cup {Unspecified, NoUser}
    BY CurrentUser DEF TypeInv
  <2>2. QED
    BY <2>1 DEF TypeInv
<1>3. LineInv'
  BY DEF LineInv
<1>4. KindInv' /\ CacheInv' /\ DataInv'
  BY DEF KindInv, CacheInv, DataInv, LineInv
<1>5. UserInv'
  BY <1>1 DEF UserInv
<1>6. QED
  BY <1>2, <1>3, <1>4, <1>5

\* Only a valid line with a name goes to a service, by the one option that stayed.
LEMMA DispatchKeeps == ASSUME CleanInv, Dispatch PROVE CleanInv'
<1> USE DEF CleanInv, Dispatch, given, scan, service, history
<1>1. TypeInv'
  BY DEF TypeInv
<1>2. LineInv'
  BY DEF LineInv
<1>3. KindInv'
  BY DEF KindInv
<1>4. CacheInv' /\ DataInv' /\ UserInv'
  BY DEF CacheInv, DataInv, UserInv
<1>5. QED
  BY <1>1, <1>2, <1>3, <1>4

\* After the cache the command is over: there is no -d on the line.
LEMMA ReportCacheEnds ==
  ASSUME CleanInv, phase \in {"cache", "wait"}, NEW r, ReportCache(r)
  PROVE  phase' = "done" /\ report' = [report EXCEPT !.cache = r]
  BY DEF CleanInv, KindInv, ReportCache

\* The call is made once; when it is refused the command ends.
LEMMA CallCacheKeeps == ASSUME CleanInv, CallCache PROVE CleanInv'
<1> USE DEF CleanInv, CallCache, given, scan, history
<1>1. cleaned' \in {foreground, Unspecified, userId}
  BY CurrentUser
<1>2. \/ cacheCall' = "accepted" /\ phase' = "wait" /\ UNCHANGED report
      \/ /\ cacheCall' = "refused" /\ phase' = "done"
         /\ \E e \in CallErrors : report' = [report EXCEPT !.cache = e]
  BY ReportCacheEnds
<1>3. report'.cache \in CallErrors \cup {report.cache} /\ report'.data = report.data
  BY <1>2 DEF TypeInv
<1>4. TypeInv'
  BY <1>1, <1>2 DEF TypeInv
<1>5. LineInv'
  BY <1>2 DEF LineInv
<1>6. KindInv'
  BY <1>2 DEF KindInv
<1>7. cacheCall = "none"
  BY DEF LineInv
<1>8. CacheInv'
  BY <1>3, <1>7 DEF CacheInv
<1>9. DataInv'
  BY <1>2, <1>3 DEF DataInv
<1>10. UserInv'
  BY <1>1 DEF UserInv
<1>11. QED
  BY <1>4, <1>5, <1>6, <1>8, <1>9, <1>10

\* What is reported of the cache is what the promise says, or that it said nothing.
LEMMA GetResultCodeKeeps == ASSUME CleanInv, GetResultCode PROVE CleanInv'
<1> USE DEF CleanInv, GetResultCode, given, scan, service, history
<1>1. PICK r \in {signal, "timeout"} :
        /\ r # "none" /\ ReportCache(r)
        /\ r = "ok" => signal = "ok"
  OBVIOUS
<1>2. phase' = "done" /\ report' = [report EXCEPT !.cache = r]
  BY <1>1, ReportCacheEnds
<1>3. report'.cache = r /\ report'.data = report.data
  BY <1>2 DEF TypeInv
<1>4. TypeInv'
  BY <1>2 DEF TypeInv
<1>5. LineInv' /\ KindInv'
  BY <1>2 DEF LineInv, KindInv
<1>6. CacheInv'
  BY <1>1, <1>3 DEF CacheInv
<1>7. DataInv' /\ UserInv'
  BY <1>2, <1>3 DEF DataInv, UserInv
<1>8. QED
  BY <1>4, <1>5, <1>6, <1>7

\* Time passes only while the command waits.
LEMMA TickKeeps == ASSUME CleanInv, Tick PROVE CleanInv'
<1> USE DEF CleanInv, Tick, given, scan, service, history
<1>1. TypeInv'
  BY DEF TypeInv
<1>2. LineInv' /\ KindInv'
  BY DEF LineInv, KindInv
<1>3. CacheInv' /\ DataInv' /\ UserInv'
  BY DEF CacheInv, DataInv, UserInv
<1>4. QED
  BY <1>1, <1>2, <1>3

\* ohos-bm reports on the ability manager's part, bm goes on to the bundle manager's.
LEMMA ClearUpKeeps == ASSUME CleanInv, ClearUpApplicationData PROVE CleanInv'
<1> USE DEF CleanInv, ClearUpApplicationData, given, scan, history
<1>1. cleaned' \in {foreground, Unspecified, userId}
  BY CurrentUser
<1>2. PICK r \in {"cleaned", "failed"} :
        /\ files' = [files EXCEPT !["ams"] = r]
        /\ \/ tool = "bm" /\ phase' = "bms" /\ UNCHANGED report
           \/ /\ tool = "ohos-bm" /\ phase' = "done"
              /\ report' = [report EXCEPT !.data = IF r = "cleaned" THEN "ok" ELSE "failed"]
  OBVIOUS
<1>3. files'["ams"] = r /\ files'["cache"] = files["cache"]
  BY <1>2 DEF TypeInv, Files
<1>4. /\ report'.cache = report.cache
      /\ report'.data = "ok" => report.data = "ok" \/ (tool = "ohos-bm" /\ r = "cleaned")
      /\ phase' # "done" => report'.data = report.data
  BY <1>2 DEF TypeInv
<1>5. TypeInv'
  <2>1. files' \in [Files -> {"untouched", "cleaned", "failed"}]
    BY <1>2 DEF TypeInv
  <2>2. report' \in [cache : CallErrors \cup {"none", "ok", "unknown", "timeout"},
                     data : {"none", "ok", "failed"}]
    BY <1>2 DEF TypeInv
  <2>3. QED
    BY <1>1, <1>2, <2>1, <2>2 DEF TypeInv
<1>6. LineInv'
  BY <1>2 DEF LineInv
<1>7. KindInv'
  BY <1>2, <1>3 DEF KindInv
<1>8. CacheInv'
  BY <1>3, <1>4 DEF CacheInv
<1>9. DataInv'
  BY <1>2, <1>3, <1>4 DEF DataInv
<1>10. UserInv'
  BY <1>1 DEF UserInv
<1>11. QED
  BY <1>5, <1>6, <1>7, <1>8, <1>9, <1>10

\* bm reports success only when both managers have succeeded.
LEMMA CleanDataKeeps == ASSUME CleanInv, CleanBundleDataFiles PROVE CleanInv'
<1> USE DEF CleanInv, CleanBundleDataFiles, given, scan, history
<1>1. PICK r \in {"cleaned", "failed"} :
        /\ files' = [files EXCEPT !["bms"] = r]
        /\ report' = [report EXCEPT !.data =
                        IF files["ams"] = "cleaned" /\ r = "cleaned" THEN "ok" ELSE "failed"]
  OBVIOUS
<1>2. files'["bms"] = r /\ files'["ams"] = files["ams"] /\ files'["cache"] = files["cache"]
  BY <1>1 DEF TypeInv, Files
<1>3. /\ report'.cache = report.cache
      /\ report'.data = "ok" => files["ams"] = "cleaned" /\ r = "cleaned"
  BY <1>1 DEF TypeInv
<1>4. TypeInv'
  BY <1>1 DEF TypeInv
<1>5. LineInv'
  BY DEF LineInv
<1>6. KindInv'
  BY <1>2 DEF KindInv
<1>7. CacheInv'
  BY <1>2, <1>3 DEF CacheInv
<1>8. DataInv' /\ UserInv'
  BY <1>2, <1>3 DEF DataInv, UserInv
<1>9. QED
  BY <1>4, <1>5, <1>6, <1>7, <1>8

-----------------------------------------------------------------------------
(* The bundle manager and the account service *)

\* The bundle manager cleans what it has accepted, perhaps after the command has left.
LEMMA ServiceCleansKeeps == ASSUME CleanInv, ServiceCleansCache PROVE CleanInv'
<1> USE DEF CleanInv, ServiceCleansCache, given, scan, history
<1>1. PICK r \in {"cleaned", "failed"} : cacheCall' = r /\ files' = [files EXCEPT !["cache"] = r]
  OBVIOUS
<1>2. /\ files'["cache"] = r
      /\ files'["ams"] = files["ams"] /\ files'["bms"] = files["bms"]
  BY <1>1 DEF TypeInv, Files
<1>3. TypeInv'
  BY <1>1 DEF TypeInv
<1>4. LineInv' /\ KindInv'
  BY <1>1, <1>2 DEF LineInv, KindInv
<1>5. CacheInv'
  BY <1>1, <1>2 DEF CacheInv
<1>6. DataInv' /\ UserInv'
  BY <1>2 DEF DataInv, UserInv
<1>7. QED
  BY <1>3, <1>4, <1>5, <1>6

\* The callback tells what the bundle manager did.
LEMMA OnCleanCacheFinishedKeeps == ASSUME CleanInv, OnCleanCacheFinished PROVE CleanInv'
<1> USE DEF CleanInv, OnCleanCacheFinished, given, scan, history
<1>1. TypeInv'
  BY DEF TypeInv
<1>2. LineInv' /\ KindInv'
  BY DEF LineInv, KindInv
<1>3. CacheInv' /\ DataInv' /\ UserInv'
  BY DEF CacheInv, DataInv, UserInv
<1>4. QED
  BY <1>1, <1>2, <1>3

\* A user who was in the foreground stays one who was.
LEMMA SwitchUserKeeps == ASSUME CleanInv, SwitchUser PROVE CleanInv'
<1> USE DEF CleanInv, SwitchUser, given, scan, service
<1>1. TypeInv'
  BY DEF TypeInv
<1>2. LineInv' /\ KindInv'
  BY DEF LineInv, KindInv
<1>3. CacheInv' /\ DataInv'
  BY DEF CacheInv, DataInv
<1>4. UserInv'
  BY DEF UserInv
<1>5. QED
  BY <1>1, <1>2, <1>3, <1>4

-----------------------------------------------------------------------------
(* The invariant and what it gives *)

\* Every step of the command and of the services keeps the invariant.
LEMMA NextCleanInv == CleanInv /\ [Next]_vars => CleanInv'
<1> SUFFICES ASSUME CleanInv, [Next]_vars PROVE CleanInv'
  OBVIOUS
<1>1. CASE ScanOption
  BY <1>1, OptionNameKeeps, OptionKindKeeps, OptionUserKeeps, OptionBadKeeps DEF ScanOption
<1>2. CASE Command \/ Tick
  BY <1>2, StartKeeps, OptionsEndKeeps, DispatchKeeps, CallCacheKeeps, GetResultCodeKeeps,
     ClearUpKeeps, CleanDataKeeps, TickKeeps DEF Command
<1>3. CASE ServiceCleansCache \/ OnCleanCacheFinished \/ SwitchUser
  BY <1>3, ServiceCleansKeeps, OnCleanCacheFinishedKeeps, SwitchUserKeeps
<1>4. CASE UNCHANGED vars
  <2> USE <1>4 DEF vars, given, scan, service, history, CleanInv
  <2>1. TypeInv'
    BY DEF TypeInv
  <2>2. LineInv' /\ KindInv'
    BY DEF LineInv, KindInv
  <2>3. CacheInv' /\ DataInv' /\ UserInv'
    BY DEF CacheInv, DataInv, UserInv
  <2>4. QED
    BY <2>1, <2>2, <2>3
<1>5. QED
  BY <1>1, <1>2, <1>3, <1>4 DEF Next

\* The strengthening of the properties below holds in every reachable state.
THEOREM Inductive == Spec => []CleanInv
  BY InitCleanInv, NextCleanInv, PTL DEF Spec

\* No service hears of a line that has a bad option, of however many.
THEOREM BadLine == Spec => []BadLineCleansNothing
<1>1. CleanInv => BadLineCleansNothing
  BY DEF CleanInv, LineInv, BadLineCleansNothing
<1>2. QED
  BY <1>1, Inductive, PTL

\* One line cleans the cache or the data, however often -c and -d are repeated.
THEOREM OneKind == Spec => []CleansOneKind
<1>1. CleanInv => CleansOneKind
  BY DEF CleanInv, KindInv, CleansOneKind
<1>2. QED
  BY <1>1, Inductive, PTL

\* A success that is reported has happened, at every manager the tool asks.
THEOREM TrueSuccess == Spec => []SuccessIsTrue
<1>1. CleanInv => SuccessIsTrue
  BY DEF CleanInv, CacheInv, DataInv, SuccessIsTrue
<1>2. QED
  BY <1>1, Inductive, PTL

\* bm cleans for a user who was in the foreground, or leaves the choice to the services.
THEOREM ForegroundUser == Spec => []CleansForegroundUser
<1>1. CleanInv => CleansForegroundUser
  BY DEF CleanInv, UserInv, CleansForegroundUser
<1>2. QED
  BY <1>1, Inductive, PTL
=============================================================================
