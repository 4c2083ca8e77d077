---------------------------- MODULE TestToolSyntax ----------------------------
(***************************************************************************)
(* What the commands of bundle_test_tool differ in, as far as TestTool     *)
(* goes into it: one record for each entry of the command map              *)
(* (frameworks/src/bundle_test_tool.cpp).                                  *)
(*                                                                         *)
(* The letters getopt_long may return:                                     *)
(*   flags      take no value                                              *)
(*   texts      take a string as it is, which may be empty                 *)
(*   lists      add to a list, and an empty value adds nothing             *)
(*   numbers    take a value that is checked, most of them a number        *)
(*   unnoticed  the same, but what becomes of the check goes unnoticed     *)
(*   unused     belong to another command with the same option string      *)
(* What an option does that is not in order:                               *)
(*   onBad      a bad value of numbers: "note" it and scan on, or "return" *)
(*   onHelp     -h likewise; or it "ends" the command with success         *)
(*   onUnknown  an unknown option, or a value that is not there: "note",   *)
(*              "return", "stop" the scan and note it, or "end" the scan   *)
(*              as if the line were over                                   *)
(*   bare       a line without options is in order                         *)
(*   overwritten  each option replaces the result of the one before        *)
(*   limit      the options that are read, or 0 for all of them            *)
(* What comes between the scan and the call:                               *)
(*   needs      one letter of each set must have a value that counts       *)
(*   quiet      this is looked at only as long as nothing was printed      *)
(*   lenient    a line that is refused for its values returns success      *)
(*   late       a list is converted, or a file opened, after the scan      *)
(*   proxy      the proxies to get, other than those of Init               *)
(*   token      native token reloaded "first", "parsed" (after the scan),  *)
(*              if "asked" for with -p, or by an "unset" variable          *)
(*   uid        the caller's identity by default; "root" is the tool's own *)
(*   who        the letter that sets the identity; "early": at once        *)
(* What is returned:                                                       *)
(*   forgets    the result of the scan, whatever came of the call          *)
(*   telling    the "truth", always "success", "nothing", or "maybe"       *)
(*              nothing of a failure                                       *)
(***************************************************************************)

Usual ==
  [flags |-> {}, texts |-> {}, lists |-> {}, numbers |-> {}, unnoticed |-> {}, unused |-> {},
   onBad |-> "note", onHelp |-> "note", onUnknown |-> "note", bare |-> FALSE,
   overwritten |-> FALSE, limit |-> 0, needs |-> {}, quiet |-> FALSE, lenient |-> FALSE,
   late |-> FALSE, proxy |-> {}, token |-> "own", uid |-> "root", who |-> "none",
   early |-> FALSE, forgets |-> FALSE, telling |-> "truth"]

\* Any refusal ends the command.
Returning == [Usual EXCEPT !.onBad = "return", !.onHelp = "return", !.onUnknown = "return"]

\* The commands split into a Parse and an Execute function.
Parsing == [Usual EXCEPT !.onBad = "return", !.onUnknown = "return"]

-----------------------------------------------------------------------------
(* Modules, sandboxes, resources by identifier *)

\* What is found out is printed by the callback: see CheckAbility.
CheckCommand ==
  [Returning EXCEPT !.texts = {"n", "m", "a", "d"}, !.unnoticed = {"u"}, !.forgets = TRUE,
                    !.telling = "nothing"]

SetRemovable ==
  [Usual EXCEPT !.texts = {"n", "m"}, !.numbers = {"i"}, !.unused = {"a", "d", "u"},
                !.onUnknown = "stop", !.needs = {{"n"}, {"m"}}, !.quiet = TRUE,
                !.forgets = TRUE]
GetRemovable ==
  [SetRemovable EXCEPT !.numbers = {}, !.unused = {"a", "d", "u", "i"}, !.telling = "success"]

InstallSandbox ==
  [Usual EXCEPT !.texts = {"n"}, !.numbers = {"u", "d"}, !.unused = {"a"},
                !.onUnknown = "stop", !.needs = {{"n"}}, !.forgets = TRUE]
UninstallSandbox == [InstallSandbox EXCEPT !.numbers = {"u", "a"}, !.unused = {"d"}]
DumpSandbox == UninstallSandbox

UninstallEnterpriseReSignCert ==
  [Usual EXCEPT !.texts = {"c"}, !.numbers = {"u", "p"}, !.token = "asked", !.forgets = TRUE]
GetEnterpriseReSignCert == [UninstallEnterpriseReSignCert EXCEPT !.texts = {}]

GetProxyData == [Usual EXCEPT !.texts = {"n", "m"}, !.numbers = {"u"}]
GetAllProxyData == [Usual EXCEPT !.numbers = {"u"}, !.bare = TRUE]
GetString ==
  [Usual EXCEPT !.texts = {"n", "m"}, !.numbers = {"u", "i"}, !.unused = {"d"},
                !.forgets = TRUE]
GetIcon == [GetString EXCEPT !.numbers = {"u", "i", "d"}, !.unused = {}]
SetExtNameOrMIMEToApp == [Usual EXCEPT !.texts = {"n", "m", "a", "e", "t"}]
DelExtNameOrMIMEToApp == SetExtNameOrMIMEToApp

-----------------------------------------------------------------------------
(* The rules of the application control *)

\* The verdict of a number is kept in a local variable that is not returned.
Rule ==
  [Returning EXCEPT !.unnoticed = {"e", "u"}, !.proxy = {"appControl"}, !.uid = "service",
                    !.who = "e"]

GetInstallRule == [Rule EXCEPT !.unnoticed = {"e", "t", "u"}]
AddInstallRule == [GetInstallRule EXCEPT !.texts = {"a"}]
DeleteInstallRule == AddInstallRule
CleanInstallRule == GetInstallRule
AddAppRunningRule == [Rule EXCEPT !.numbers = {"c"}]
DeleteAppRunningRule == AddAppRunningRule
CleanAppRunningRule == Rule
GetAppRunningControlRule == Rule
GetAppRunningControlRuleResult == [Rule EXCEPT !.texts = {"n"}]

DeleteDisposedRules ==
  [Rule EXCEPT !.texts = {"a"}, !.unnoticed = {"c", "i", "u"}, !.token = "first",
               !.uid = "root", !.who = "c"]
GetDisposedRules == [DeleteDisposedRules EXCEPT !.texts = {}, !.unnoticed = {"u", "c"}]

-----------------------------------------------------------------------------
(* Caches, quick fixes, statistics *)

CleanBundleCacheFilesAutomatic ==
  [Returning EXCEPT !.unnoticed = {"s"}, !.numbers = {"t"}]
CleanBundlePartialCacheAutomatic ==
  [Returning EXCEPT !.texts = {"n"}, !.flags = {"p"}, !.numbers = {"u", "a", "s"},
                    !.token = "asked"]

\* Nothing tells an option that is unknown from the end of the line.
DeployQuickFix ==
  [Returning EXCEPT !.texts = {"p"}, !.numbers = {"d"}, !.unused = {"n", "e"},
                    !.onUnknown = "end", !.lenient = TRUE, !.late = TRUE,
                    !.proxy = {"quickFix"}]
SwitchQuickFix ==
  [DeployQuickFix EXCEPT !.texts = {"n"}, !.numbers = {"e"}, !.unused = {"p", "d"},
                         !.needs = {{"e"}}, !.late = FALSE]
DeleteQuickFix ==
  [SwitchQuickFix EXCEPT !.numbers = {}, !.unused = {"p", "e", "d"}, !.needs = {},
                         !.lenient = FALSE]
SetDebugMode ==
  [Returning EXCEPT !.numbers = {"e"}, !.onUnknown = "end", !.needs = {{"e"}}]

BundleNameAndUserIdCommonFunc ==
  [Usual EXCEPT !.texts = {"n"}, !.numbers = {"u", "a"}, !.onBad = "return",
                !.onUnknown = "stop", !.needs = {{"n"}}, !.quiet = TRUE]
GetContinueBundleName == [BundleNameAndUserIdCommonFunc EXCEPT !.uid = "service"]
GetBundleStats == [BundleNameAndUserIdCommonFunc EXCEPT !.forgets = TRUE]
GetBundleInodeCount == GetBundleStats
GetAppProvisionInfo == BundleNameAndUserIdCommonFunc
QueryDataGroupInfos == BundleNameAndUserIdCommonFunc
GetTopNLargestItemsInAppDataDir == [GetBundleStats EXCEPT !.telling = "maybe"]
GetBundleStatsAsync == [GetBundleStats EXCEPT !.numbers = {"u", "a", "s"}]

BatchBundleNameAndUserIdCommonFunc ==
  [Usual EXCEPT !.lists = {"n"}, !.numbers = {"u"}, !.unused = {"s"}, !.onBad = "return",
                !.onUnknown = "stop", !.needs = {{"n"}}]
BatchGetBundleStats == [BatchBundleNameAndUserIdCommonFunc EXCEPT !.forgets = TRUE]
BatchBundleNameCommonFunc ==
  [BatchBundleNameAndUserIdCommonFunc EXCEPT !.numbers = {}, !.unused = {}]
BatchGetCompatibleDeviceType == [BatchBundleNameCommonFunc EXCEPT !.token = "first"]

UserIdCommonFunc ==
  [Usual EXCEPT !.numbers = {"u"}, !.onBad = "return", !.onUnknown = "stop"]
GetAllBundleStats == [UserIdCommonFunc EXCEPT !.forgets = TRUE]
GetEachBundleCacheStat == GetAllBundleStats

GetDistributedBundleName ==
  [Returning EXCEPT !.numbers = {"n", "a"}, !.needs = {{"n"}, {"a"}}]

\* The caches of all bundles: at most two options, and each sets the identity.
GetAllBundleCacheStat ==
  [Usual EXCEPT !.numbers = {"u"}, !.bare = TRUE, !.limit = 2, !.who = "u", !.early = TRUE]
CleanAllBundleCache == GetAllBundleCacheStat

-----------------------------------------------------------------------------
(* Callbacks, events, profiles, identifiers *)

EventCallback ==
  [Returning EXCEPT !.flags = {"o"}, !.numbers = {"u"}, !.bare = TRUE, !.uid = "service",
                    !.who = "u"]
PluginEventCallback == EventCallback
ResetAOTCompileStatus ==
  [Returning EXCEPT !.texts = {"b", "m"}, !.numbers = {"t", "u"}, !.bare = TRUE,
                    !.uid = "bundle", !.who = "u", !.forgets = TRUE, !.telling = "nothing"]
SendCommonEvent == [Usual EXCEPT !.bare = TRUE, !.forgets = TRUE, !.telling = "nothing"]

GetGroupDir == [Returning EXCEPT !.numbers = {"d"}]
GetAssetAccessGroups ==
  [Usual EXCEPT !.texts = {"n"}, !.unused = {"p", "m", "u"}, !.forgets = TRUE]
SetAppDistributionTypes ==
  [Usual EXCEPT !.texts = {"a"}, !.token = "first", !.late = TRUE, !.forgets = TRUE]
GetJsonProfile ==
  [Usual EXCEPT !.texts = {"n", "m"}, !.numbers = {"p", "u"}, !.forgets = TRUE]
GetUidByBundleName ==
  [Usual EXCEPT !.texts = {"n"}, !.numbers = {"u", "a"}, !.forgets = TRUE]
GetApiTargetVersionByUid ==
  [Usual EXCEPT !.numbers = {"u", "p"}, !.token = "asked", !.forgets = TRUE]
GetUninstalledBundleInfo ==
  [Usual EXCEPT !.numbers = {"n"}, !.overwritten = TRUE, !.forgets = TRUE]
GetOdid ==
  [Returning EXCEPT !.unnoticed = {"u"}, !.bare = TRUE, !.who = "u"]
GetOdidResetCount ==
  [Returning EXCEPT !.texts = {"n"}, !.flags = {"p"}, !.needs = {{"n"}}, !.token = "asked"]
UpdateAppEncryptedStatus ==
  [Returning EXCEPT !.texts = {"n"}, !.unnoticed = {"e", "a"}, !.bare = TRUE,
                    !.uid = "service"]

-----------------------------------------------------------------------------
(* Queries, resources *)

ImplicitQuerySkillUriInfo ==
  [Usual EXCEPT !.texts = {"n", "a", "e", "u", "t"}, !.overwritten = TRUE]
QueryAbilityInfoByContinueType == [Usual EXCEPT !.texts = {"n", "c"}, !.numbers = {"u"}]
QueryAbilityInfo ==
  [Parsing EXCEPT !.texts = {"n", "m", "a"}, !.numbers = {"f", "u"}, !.onUnknown = "stop",
                  !.needs = {{"n"}}]
BatchQueryAbilityInfos ==
  [Parsing EXCEPT !.numbers = {"w", "f", "u"}, !.needs = {{"w"}}]
ImplicitQueryInfos ==
  [Parsing EXCEPT !.texts = {"n", "a", "e", "r", "t"}, !.numbers = {"f", "u", "d"},
                  !.needs = {{"n"}}]
GetCloneBundleInfoExt ==
  [Parsing EXCEPT !.texts = {"n"}, !.numbers = {"f", "a", "u"}, !.needs = {{"n"}},
                  !.uid = "service"]
AddResourceInfoByBundleName ==
  [Parsing EXCEPT !.texts = {"n"}, !.numbers = {"u"}, !.needs = {{"n"}}, !.token = "parsed"]
AddResourceInfoByAbility ==
  [AddResourceInfoByBundleName EXCEPT !.texts = {"n", "m", "a"},
                                      !.needs = {{"n"}, {"m"}, {"a"}}]
DeleteResourceInfo ==
  [AddResourceInfoByBundleName EXCEPT !.texts = {"k"}, !.numbers = {}, !.needs = {{"k"}}]
GetDirByBundleNameAndAppIndex == [Usual EXCEPT !.texts = {"n"}, !.numbers = {"a"}]
GetAllBundleDirs == [Usual EXCEPT !.numbers = {"u"}]
GetAllJsonProfile == [Usual EXCEPT !.numbers = {"p", "u"}]
IsBundleInstalled == [Usual EXCEPT !.texts = {"n"}, !.numbers = {"u", "a"}]
GetCompatibleDeviceType == [Usual EXCEPT !.texts = {"n"}]
QuerySandboxCloneAbilityInfo ==
  [Parsing EXCEPT !.texts = {"c", "n", "m", "a"}, !.numbers = {"f", "i", "u"},
                  !.needs = {{"c"}}]
QueryExtensionAbilityInfoOptimal ==
  [Parsing EXCEPT !.texts = {"n", "b", "a", "e", "r", "t"}, !.numbers = {"f", "u"},
                  !.needs = {{"n", "b", "a", "e", "r", "t"}}, !.uid = "service"]
GetSandboxExtAbilityInfoOptimal ==
  [QueryExtensionAbilityInfoOptimal EXCEPT
     !.numbers = {"f", "i", "u"}, !.needs = {{"n", "b", "a", "e", "r", "t"}, {"i"}}]
BatchGetBundleInfo ==
  [Parsing EXCEPT !.lists = {"n"}, !.numbers = {"f", "u"}, !.onUnknown = "stop",
                  !.needs = {{"n"}}]
GetMainAndCloneBundleInfo == [BatchGetBundleInfo EXCEPT !.lists = {}, !.texts = {"n"}]

-----------------------------------------------------------------------------
(* Applications *)

SetApplicationDisableForbidden ==
  [Returning EXCEPT !.texts = {"n"}, !.numbers = {"u", "a", "f", "c"}, !.who = "c"]
SetDefaultApplicationForCustom ==
  [Returning EXCEPT !.texts = {"t", "n", "m", "a"}, !.numbers = {"u", "c"},
                    !.token = "first", !.proxy = {"defaultApp"}, !.who = "c"]

\* Both indexes must be there, and differ, which the scan does not look at.
BatchSetApplicationEnabled ==
  [Returning EXCEPT !.flags = {"k", "s"}, !.numbers = {"u", "e", "d", "i"},
                    !.needs = {{"e"}, {"d"}}, !.late = TRUE, !.token = "parsed", !.who = "i"]
GetSimpleAppInfoForUid == [Returning EXCEPT !.numbers = {"u"}, !.limit = 2]
GetBundleNameByAppId == [Returning EXCEPT !.texts = {"a"}]
GetBundleNamesForUidExt == [Returning EXCEPT !.texts = {"u"}, !.late = TRUE]
GetAssetGroupsInfo == [Usual EXCEPT !.numbers = {"u"}, !.bare = TRUE, !.forgets = TRUE]

\* The check returns an ErrCode as a bool, which turns a bad number into a good one.
GetAppIdentifierAndAppIndex == [Usual EXCEPT !.unnoticed = {"a"}, !.forgets = TRUE]
InstallEnterpriseResignCert ==
  [Usual EXCEPT !.texts = {"a", "f"}, !.unnoticed = {"u"}, !.flags = {"p"}, !.late = TRUE,
                !.token = "unset", !.forgets = TRUE]

SetEnpDevice == [Usual EXCEPT !.bare = TRUE, !.late = TRUE]
UninstallPreInstallBundle ==
  [Usual EXCEPT !.texts = {"n"}, !.numbers = {"u", "f"}, !.unused = {"m"}, !.limit = 5,
                !.needs = {{"n"}}]
SetBundleFirstLaunch ==
  [Usual EXCEPT !.texts = {"n"}, !.numbers = {"u", "a", "i"}, !.onHelp = "ends",
                !.onUnknown = "end", !.needs = {{"n"}, {"i"}}]
ParseSpmModule ==
  [Usual EXCEPT !.texts = {"p"}, !.onUnknown = "stop", !.needs = {{"p"}}, !.late = TRUE]
FilterBundleListByDeviceModeDistributionPolicies ==
  [Usual EXCEPT !.texts = {"p"}, !.token = "first", !.needs = {{"p"}}, !.late = TRUE]
Install ==
  [Usual EXCEPT !.flags = {"r", "d", "g"}, !.numbers = {"p", "s", "u", "w", "v"},
                !.onBad = "return", !.onUnknown = "stop", !.needs = {{"p", "s"}},
                !.quiet = TRUE, !.late = TRUE]

-----------------------------------------------------------------------------

CreateCommandMap ==
  [check |-> CheckCommand, setrm |-> SetRemovable, getrm |-> GetRemovable,
   installSandbox |-> InstallSandbox, uninstallSandbox |-> UninstallSandbox,
   dumpSandbox |-> DumpSandbox, getStr |-> GetString, getIcon |-> GetIcon,
   deleteDisposedRules |-> DeleteDisposedRules, addAppInstallRule |-> AddInstallRule,
   getAppInstallRule |-> GetInstallRule, deleteAppInstallRule |-> DeleteInstallRule,
   cleanAppInstallRule |-> CleanInstallRule, addAppRunningRule |-> AddAppRunningRule,
   deleteAppRunningRule |-> DeleteAppRunningRule,
   cleanAppRunningRule |-> CleanAppRunningRule,
   getAppRunningControlRule |-> GetAppRunningControlRule,
   getAppRunningControlRuleResult |-> GetAppRunningControlRuleResult,
   cleanBundleCacheFilesAutomatic |-> CleanBundleCacheFilesAutomatic,
   cleanBundlePartialCacheAutomatic |-> CleanBundlePartialCacheAutomatic,
   getContinueBundleName |-> GetContinueBundleName, deployQuickFix |-> DeployQuickFix,
   switchQuickFix |-> SwitchQuickFix, deleteQuickFix |-> DeleteQuickFix,
   setDebugMode |-> SetDebugMode, getBundleStats |-> GetBundleStats,
   getBundleStatsAsync |-> GetBundleStatsAsync, getBundleInodeCount |-> GetBundleInodeCount,
   batchGetBundleStats |-> BatchGetBundleStats, getAllBundleStats |-> GetAllBundleStats,
   getAppProvisionInfo |-> GetAppProvisionInfo,
   getDistributedBundleName |-> GetDistributedBundleName, eventCB |-> EventCallback,
   pluginCallback |-> PluginEventCallback, resetAOTCompileStatus |-> ResetAOTCompileStatus,
   sendCommonEvent |-> SendCommonEvent, getProxyDataInfos |-> GetProxyData,
   getAllProxyDataInfos |-> GetAllProxyData,
   setExtNameOrMimeToApp |-> SetExtNameOrMIMEToApp,
   delExtNameOrMimeToApp |-> DelExtNameOrMIMEToApp,
   queryDataGroupInfos |-> QueryDataGroupInfos, getGroupDir |-> GetGroupDir,
   getJsonProfile |-> GetJsonProfile, getUninstalledBundleInfo |-> GetUninstalledBundleInfo,
   getOdid |-> GetOdid, getUidByBundleName |-> GetUidByBundleName,
   getApiTargetVersionByUid |-> GetApiTargetVersionByUid,
   batchSetApplicationEnabled |-> BatchSetApplicationEnabled,
   implicitQuerySkillUriInfo |-> ImplicitQuerySkillUriInfo,
   queryAbilityInfoByContinueType |-> QueryAbilityInfoByContinueType,
   updateAppEncryptedStatus |-> UpdateAppEncryptedStatus,
   getDirByBundleNameAndAppIndex |-> GetDirByBundleNameAndAppIndex,
   getAllBundleDirs |-> GetAllBundleDirs, getAllJsonProfile |-> GetAllJsonProfile,
   setApplicationDisableForbidden |-> SetApplicationDisableForbidden,
   setDefaultApplicationForCustom |-> SetDefaultApplicationForCustom,
   getDisposedRules |-> GetDisposedRules, getAllBundleCacheStat |-> GetAllBundleCacheStat,
   getEachBundleCacheStat |-> GetEachBundleCacheStat,
   cleanAllBundleCache |-> CleanAllBundleCache, isBundleInstalled |-> IsBundleInstalled,
   getCompatibleDeviceType |-> GetCompatibleDeviceType,
   batchGetCompatibleDeviceType |-> BatchGetCompatibleDeviceType,
   getSimpleAppInfoForUid |-> GetSimpleAppInfoForUid,
   getBundleNameByAppId |-> GetBundleNameByAppId,
   uninstallPreInstallBundle |-> UninstallPreInstallBundle,
   getAssetAccessGroups |-> GetAssetAccessGroups,
   getAppIdentifierAndAppIndex |-> GetAppIdentifierAndAppIndex,
   setAppDistributionTypes |-> SetAppDistributionTypes,
   getAssetGroupsInfo |-> GetAssetGroupsInfo,
   getBundleNamesForUidExt |-> GetBundleNamesForUidExt, setEnpDevice |-> SetEnpDevice,
   installEnterpriseResignCert |-> InstallEnterpriseResignCert,
   uninstallEnterpriseReSignatureCert |-> UninstallEnterpriseReSignCert,
   getEnterpriseReSignatureCert |-> GetEnterpriseReSignCert,
   getOdidResetCount |-> GetOdidResetCount, setBundleFirstLaunch |-> SetBundleFirstLaunch,
   getTopNLargestItemsInAppDataDir |-> GetTopNLargestItemsInAppDataDir,
   batchGetBundleInfo |-> BatchGetBundleInfo, parseSpmModule |-> ParseSpmModule,
   implicitQueryInfos |-> ImplicitQueryInfos, queryAbilityInfo |-> QueryAbilityInfo,
   batchQueryAbilityInfos |-> BatchQueryAbilityInfos,
   queryExtensionAbilityInfoOptimal |-> QueryExtensionAbilityInfoOptimal,
   getSandboxExtAbilityInfoOptimal |-> GetSandboxExtAbilityInfoOptimal,
   getCloneBundleInfoExt |-> GetCloneBundleInfoExt,
   addResourceInfoByBundleName |-> AddResourceInfoByBundleName,
   addResourceInfoByAbility |-> AddResourceInfoByAbility,
   deleteResourceInfo |-> DeleteResourceInfo,
   getMainAndCloneBundleInfo |-> GetMainAndCloneBundleInfo,
   querySandboxCloneAbilityInfo |-> QuerySandboxCloneAbilityInfo,
   filterBundleListByDeviceModeDistributionPolicies |->
     FilterBundleListByDeviceModeDistributionPolicies,
   install |-> Install]
=============================================================================
