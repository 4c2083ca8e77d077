--------------------------- MODULE TestToolProofs ---------------------------
(***************************************************************************)
(* What holds of bundle_test_tool for any identities and any number of     *)
(* options, messages and threads.                                          *)
(*                                                                         *)
(* The first part is about TestTool.  Table says what the properties need  *)
(* of the descriptions of all commands, section by section; RunInv says    *)
(* what the result and the messages tell of the options so far, what the   *)
(* identity of the process is before the call, and that nothing is called  *)
(* before the line is in order.  The types rest on it: whose identity the  *)
(* tool may have depends on the table.                                     *)
(*                                                                         *)
(* The second part is about CheckAbility, for any number of messages,      *)
(* whichever of them carry the right token.  The command holds the mutex   *)
(* from before its call to the wait, which gives it up and takes it again; *)
(* CheckInv says who holds it in between and where a raised flag came      *)
(* from.                                                                   *)
(***************************************************************************)
EXTENDS TestTool, CheckAbility, TLAPS

-----------------------------------------------------------------------------
(* The table of the commands *)

\* A description with nothing in it that the properties make an exception for.
Ordinary(r) ==
  /\ r.unnoticed = {} /\ r.onUnknown # "end" /\ ~r.overwritten /\ ~r.early
  /\ r.telling = "truth"

\* The commands whose options replace the result of the one before.
GoingByTheLast == {"getUninstalledBundleInfo", "implicitQuerySkillUriInfo"}

\* The commands that may say nothing of a call that failed, besides getrm and pluginCallback.
Silent ==
  {"check", "resetAOTCompileStatus", "sendCommonEvent", "getTopNLargestItemsInAppDataDir"}

\* What the description of a command must not say unless the command is one of those named
\* in the properties; one that overwrites its result looks for missing values in any case,
\* and one that assumes its identity early has none of its own.
TableEntry(c, r) ==
  /\ r.unnoticed # {} => c \in Overlooking
  /\ r.onUnknown = "end" => c \in EndedByTheUnknown
  /\ r.overwritten => c \in GoingByTheLast /\ ~r.quiet
  /\ r.early => r.uid = "root"
  /\ r.telling = "success" => c = "getrm"
  /\ r.telling \in {"nothing", "maybe"} => c \in Silent

\* A description without exceptions is in order for whichever command.
LEMMA OrdinaryEntry == \A c, r : Ordinary(r) => TableEntry(c, r)
  BY DEF Ordinary, TableEntry

\* The entries for modules, sandboxes and resources by identifier.
LEMMA ModuleEntries ==
  \A c \in {"check", "setrm", "getrm", "installSandbox", "uninstallSandbox", "dumpSandbox",
           "getStr", "getIcon", "getProxyDataInfos", "getAllProxyDataInfos",
           "setExtNameOrMimeToApp", "delExtNameOrMimeToApp",
           "uninstallEnterpriseReSignatureCert", "getEnterpriseReSignatureCert"} :
     TableEntry(c, CreateCommandMap[c])
<1>1. /\ CreateCommandMap["check"] = CheckCommand /\ CreateCommandMap["setrm"] = SetRemovable
      /\ CreateCommandMap["getrm"] = GetRemovable
      /\ CreateCommandMap["installSandbox"] = InstallSandbox
      /\ CreateCommandMap["uninstallSandbox"] = UninstallSandbox
      /\ CreateCommandMap["dumpSandbox"] = DumpSandbox /\ CreateCommandMap["getStr"] = GetString
      /\ CreateCommandMap["getIcon"] = GetIcon
      /\ CreateCommandMap["getProxyDataInfos"] = GetProxyData
      /\ CreateCommandMap["getAllProxyDataInfos"] = GetAllProxyData
      /\ CreateCommandMap["setExtNameOrMimeToApp"] = SetExtNameOrMIMEToApp
      /\ CreateCommandMap["delExtNameOrMimeToApp"] = DelExtNameOrMIMEToApp
  BY DEF CreateCommandMap
<1>2. /\ CreateCommandMap["uninstallEnterpriseReSignatureCert"] = UninstallEnterpriseReSignCert
      /\ CreateCommandMap["getEnterpriseReSignatureCert"] = GetEnterpriseReSignCert
  BY DEF CreateCommandMap
<1>3. /\ Ordinary(SetRemovable) /\ Ordinary(InstallSandbox) /\ Ordinary(UninstallSandbox)
      /\ Ordinary(DumpSandbox) /\ Ordinary(GetString) /\ Ordinary(GetIcon)
      /\ Ordinary(GetProxyData) /\ Ordinary(GetAllProxyData)
  BY DEF Ordinary, Usual, SetRemovable, InstallSandbox, UninstallSandbox, DumpSandbox,
         GetString, GetIcon, GetProxyData, GetAllProxyData
<1>4. /\ Ordinary(SetExtNameOrMIMEToApp) /\ Ordinary(DelExtNameOrMIMEToApp)
      /\ Ordinary(UninstallEnterpriseReSignCert) /\ Ordinary(GetEnterpriseReSignCert)
  BY DEF Ordinary, Usual, SetExtNameOrMIMEToApp, DelExtNameOrMIMEToApp,
         UninstallEnterpriseReSignCert, GetEnterpriseReSignCert
<1>5. /\ TableEntry("check", CheckCommand) /\ TableEntry("getrm", GetRemovable)
  BY DEF TableEntry, Overlooking, EndedByTheUnknown, GoingByTheLast, Silent, Usual,
         CheckCommand, Returning, GetRemovable, SetRemovable
<1>6. QED
  BY <1>1, <1>2, <1>3, <1>4, <1>5, OrdinaryEntry

\* The entries for the rules of the application control.
LEMMA RuleEntries ==
  \A c \in {"deleteDisposedRules", "addAppInstallRule", "getAppInstallRule",
           "deleteAppInstallRule", "cleanAppInstallRule", "addAppRunningRule",
           "deleteAppRunningRule", "cleanAppRunningRule", "getAppRunningControlRule",
           "getAppRunningControlRuleResult", "getDisposedRules"} :
     TableEntry(c, CreateCommandMap[c])
<1>1. /\ CreateCommandMap["deleteDisposedRules"] = DeleteDisposedRules
      /\ CreateCommandMap["addAppInstallRule"] = AddInstallRule
      /\ CreateCommandMap["getAppInstallRule"] = GetInstallRule
      /\ CreateCommandMap["deleteAppInstallRule"] = DeleteInstallRule
      /\ CreateCommandMap["cleanAppInstallRule"] = CleanInstallRule
      /\ CreateCommandMap["addAppRunningRule"] = AddAppRunningRule
      /\ CreateCommandMap["deleteAppRunningRule"] = DeleteAppRunningRule
      /\ CreateCommandMap["cleanAppRunningRule"] = CleanAppRunningRule
      /\ CreateCommandMap["getAppRunningControlRule"] = GetAppRunningControlRule
      /\ CreateCommandMap["getAppRunningControlRuleResult"] = GetAppRunningControlRuleResult
      /\ CreateCommandMap["getDisposedRules"] = GetDisposedRules
  BY DEF CreateCommandMap
<1>2. /\ TableEntry("deleteDisposedRules", DeleteDisposedRules)
      /\ TableEntry("addAppInstallRule", AddInstallRule)
      /\ TableEntry("getAppInstallRule", GetInstallRule)
      /\ TableEntry("deleteAppInstallRule", DeleteInstallRule)
      /\ TableEntry("cleanAppInstallRule", CleanInstallRule)
      /\ TableEntry("addAppRunningRule", AddAppRunningRule)
  BY DEF TableEntry, Overlooking, EndedByTheUnknown, GoingByTheLast, Silent, Usual,
         DeleteDisposedRules, Rule, Returning, AddInstallRule, GetInstallRule,
         DeleteInstallRule, CleanInstallRule, AddAppRunningRule
<1>3. /\ TableEntry("deleteAppRunningRule", DeleteAppRunningRule)
      /\ TableEntry("cleanAppRunningRule", CleanAppRunningRule)
      /\ TableEntry("getAppRunningControlRule", GetAppRunningControlRule)
      /\ TableEntry("getAppRunningControlRuleResult", GetAppRunningControlRuleResult)
      /\ TableEntry("getDisposedRules", GetDisposedRules)
  BY DEF TableEntry, Overlooking, EndedByTheUnknown, GoingByTheLast, Silent, Usual,
         DeleteAppRunningRule, AddAppRunningRule, Rule, Returning, CleanAppRunningRule,
         GetAppRunningControlRule, GetAppRunningControlRuleResult, GetDisposedRules,
         DeleteDisposedRules
<1>4. QED
  BY <1>1, <1>2, <1>3, OrdinaryEntry

\* The entries for caches, quick fixes and statistics.
LEMMA CacheEntries ==
  \A c \in {"cleanBundleCacheFilesAutomatic", "cleanBundlePartialCacheAutomatic",
           "getContinueBundleName", "deployQuickFix", "switchQuickFix", "deleteQuickFix",
           "setDebugMode", "getBundleStats", "getBundleStatsAsync", "getBundleInodeCount",
           "batchGetBundleStats", "getAllBundleStats", "getAppProvisionInfo",
           "getDistributedBundleName", "queryDataGroupInfos", "getAllBundleCacheStat",
           "getEachBundleCacheStat", "cleanAllBundleCache", "batchGetCompatibleDeviceType",
           "getTopNLargestItemsInAppDataDir"} :
     TableEntry(c, CreateCommandMap[c])
<1>1. /\ CreateCommandMap["cleanBundleCacheFilesAutomatic"] = CleanBundleCacheFilesAutomatic
      /\ CreateCommandMap["cleanBundlePartialCacheAutomatic"] = CleanBundlePartialCacheAutomatic
      /\ CreateCommandMap["getContinueBundleName"] = GetContinueBundleName
      /\ CreateCommandMap["deployQuickFix"] = DeployQuickFix
      /\ CreateCommandMap["switchQuickFix"] = SwitchQuickFix
      /\ CreateCommandMap["deleteQuickFix"] = DeleteQuickFix
      /\ CreateCommandMap["setDebugMode"] = SetDebugMode
      /\ CreateCommandMap["getBundleStats"] = GetBundleStats
      /\ CreateCommandMap["getBundleStatsAsync"] = GetBundleStatsAsync
      /\ CreateCommandMap["getBundleInodeCount"] = GetBundleInodeCount
      /\ CreateCommandMap["batchGetBundleStats"] = BatchGetBundleStats
      /\ CreateCommandMap["getAllBundleStats"] = GetAllBundleStats
  BY DEF CreateCommandMap
<1>2. /\ CreateCommandMap["getAppProvisionInfo"] = GetAppProvisionInfo
      /\ CreateCommandMap["getDistributedBundleName"] = GetDistributedBundleName
      /\ CreateCommandMap["queryDataGroupInfos"] = QueryDataGroupInfos
      /\ CreateCommandMap["getAllBundleCacheStat"] = GetAllBundleCacheStat
      /\ CreateCommandMap["getEachBundleCacheStat"] = GetEachBundleCacheStat
      /\ CreateCommandMap["cleanAllBundleCache"] = CleanAllBundleCache
      /\ CreateCommandMap["batchGetCompatibleDeviceType"] = BatchGetCompatibleDeviceType
      /\ CreateCommandMap["getTopNLargestItemsInAppDataDir"] = GetTopNLargestItemsInAppDataDir
  BY DEF CreateCommandMap
<1>3. /\ Ordinary(CleanBundlePartialCacheAutomatic) /\ Ordinary(GetContinueBundleName)
      /\ Ordinary(GetBundleStats) /\ Ordinary(GetBundleStatsAsync)
      /\ Ordinary(GetBundleInodeCount) /\ Ordinary(BatchGetBundleStats)
      /\ Ordinary(GetAllBundleStats) /\ Ordinary(GetAppProvisionInfo)
  BY DEF Ordinary, Usual, CleanBundlePartialCacheAutomatic, Returning, GetContinueBundleName,
         BundleNameAndUserIdCommonFunc, GetBundleStats, GetBundleStatsAsync,
         GetBundleInodeCount, BatchGetBundleStats, BatchBundleNameAndUserIdCommonFunc,
         GetAllBundleStats, UserIdCommonFunc, GetAppProvisionInfo
<1>4. /\ Ordinary(GetDistributedBundleName) /\ Ordinary(QueryDataGroupInfos)
      /\ Ordinary(GetEachBundleCacheStat) /\ Ordinary(BatchGetCompatibleDeviceType)
  BY DEF Ordinary, Usual, GetDistributedBundleName, Returning, QueryDataGroupInfos,
         BundleNameAndUserIdCommonFunc, GetEachBundleCacheStat, GetAllBundleStats,
         UserIdCommonFunc, BatchGetCompatibleDeviceType, BatchBundleNameCommonFunc,
         BatchBundleNameAndUserIdCommonFunc
<1>5. /\ TableEntry("cleanBundleCacheFilesAutomatic", CleanBundleCacheFilesAutomatic)
      /\ TableEntry("deployQuickFix", DeployQuickFix)
      /\ TableEntry("switchQuickFix", SwitchQuickFix)
      /\ TableEntry("deleteQuickFix", DeleteQuickFix)
      /\ TableEntry("setDebugMode", SetDebugMode)
      /\ TableEntry("getAllBundleCacheStat", GetAllBundleCacheStat)
  BY DEF TableEntry, Overlooking, EndedByTheUnknown, GoingByTheLast, Silent, Usual,
         CleanBundleCacheFilesAutomatic, Returning, DeployQuickFix, SwitchQuickFix,
         DeleteQuickFix, SetDebugMode, GetAllBundleCacheStat
<1>6. /\ TableEntry("cleanAllBundleCache", CleanAllBundleCache)
      /\ TableEntry("getTopNLargestItemsInAppDataDir", GetTopNLargestItemsInAppDataDir)
  BY DEF TableEntry, Overlooking, EndedByTheUnknown, GoingByTheLast, Silent, Usual,
         CleanAllBundleCache, GetAllBundleCacheStat, GetTopNLargestItemsInAppDataDir,
         GetBundleStats, BundleNameAndUserIdCommonFunc
<1>7. QED
  BY <1>1, <1>2, <1>3, <1>4, <1>5, <1>6, OrdinaryEntry

\* The entries for callbacks, events, profiles and identifiers.
LEMMA ProfileEntries ==
  \A c \in {"eventCB", "pluginCallback", "resetAOTCompileStatus", "sendCommonEvent",
           "getGroupDir", "getJsonProfile", "getUninstalledBundleInfo", "getOdid",
           "getUidByBundleName", "getApiTargetVersionByUid", "updateAppEncryptedStatus",
           "getAssetAccessGroups", "setAppDistributionTypes", "getOdidResetCount"} :
     TableEntry(c, CreateCommandMap[c])
<1>1. /\ CreateCommandMap["eventCB"] = EventCallback
      /\ CreateCommandMap["pluginCallback"] = PluginEventCallback
      /\ CreateCommandMap["resetAOTCompileStatus"] = ResetAOTCompileStatus
      /\ CreateCommandMap["sendCommonEvent"] = SendCommonEvent
      /\ CreateCommandMap["getGroupDir"] = GetGroupDir
      /\ CreateCommandMap["getJsonProfile"] = GetJsonProfile
      /\ CreateCommandMap["getUninstalledBundleInfo"] = GetUninstalledBundleInfo
      /\ CreateCommandMap["getOdid"] = GetOdid
      /\ CreateCommandMap["getUidByBundleName"] = GetUidByBundleName
      /\ CreateCommandMap["getApiTargetVersionByUid"] = GetApiTargetVersionByUid
      /\ CreateCommandMap["updateAppEncryptedStatus"] = UpdateAppEncryptedStatus
      /\ CreateCommandMap["getAssetAccessGroups"] = GetAssetAccessGroups
  BY DEF CreateCommandMap
<1>2. /\ CreateCommandMap["setAppDistributionTypes"] = SetAppDistributionTypes
      /\ CreateCommandMap["getOdidResetCount"] = GetOdidResetCount
  BY DEF CreateCommandMap
<1>3. /\ Ordinary(EventCallback) /\ Ordinary(PluginEventCallback) /\ Ordinary(GetGroupDir)
      /\ Ordinary(GetJsonProfile) /\ Ordinary(GetUidByBundleName)
      /\ Ordinary(GetApiTargetVersionByUid) /\ Ordinary(GetAssetAccessGroups)
      /\ Ordinary(SetAppDistributionTypes)
  BY DEF Ordinary, Usual, EventCallback, Returning, PluginEventCallback, GetGroupDir,
         GetJsonProfile, GetUidByBundleName, GetApiTargetVersionByUid, GetAssetAccessGroups,
         SetAppDistributionTypes
<1>4. /\ Ordinary(GetOdidResetCount)
  BY DEF Ordinary, Usual, GetOdidResetCount, Returning
<1>5. /\ TableEntry("resetAOTCompileStatus", ResetAOTCompileStatus)
      /\ TableEntry("sendCommonEvent", SendCommonEvent)
      /\ TableEntry("getUninstalledBundleInfo", GetUninstalledBundleInfo)
      /\ TableEntry("getOdid", GetOdid)
      /\ TableEntry("updateAppEncryptedStatus", UpdateAppEncryptedStatus)
  BY DEF TableEntry, Overlooking, EndedByTheUnknown, GoingByTheLast, Silent, Usual,
         ResetAOTCompileStatus, Returning, SendCommonEvent, GetUninstalledBundleInfo, GetOdid,
         UpdateAppEncryptedStatus
<1>6. QED
  BY <1>1, <1>2, <1>3, <1>4, <1>5, OrdinaryEntry

\* The entries for queries and resources.
LEMMA QueryEntries ==
  \A c \in {"implicitQuerySkillUriInfo", "queryAbilityInfoByContinueType",
           "getDirByBundleNameAndAppIndex", "getAllBundleDirs", "getAllJsonProfile",
           "isBundleInstalled", "getCompatibleDeviceType", "batchGetBundleInfo",
           "implicitQueryInfos", "queryAbilityInfo", "batchQueryAbilityInfos",
           "queryExtensionAbilityInfoOptimal", "getSandboxExtAbilityInfoOptimal",
           "getCloneBundleInfoExt", "addResourceInfoByBundleName", "addResourceInfoByAbility",
           "deleteResourceInfo", "getMainAndCloneBundleInfo", "querySandboxCloneAbilityInfo"} :
     TableEntry(c, CreateCommandMap[c])
<1>1. /\ CreateCommandMap["implicitQuerySkillUriInfo"] = ImplicitQuerySkillUriInfo
      /\ CreateCommandMap["queryAbilityInfoByContinueType"] = QueryAbilityInfoByContinueType
      /\ CreateCommandMap["getDirByBundleNameAndAppIndex"] = GetDirByBundleNameAndAppIndex
      /\ CreateCommandMap["getAllBundleDirs"] = GetAllBundleDirs
      /\ CreateCommandMap["getAllJsonProfile"] = GetAllJsonProfile
      /\ CreateCommandMap["isBundleInstalled"] = IsBundleInstalled
      /\ CreateCommandMap["getCompatibleDeviceType"] = GetCompatibleDeviceType
      /\ CreateCommandMap["batchGetBundleInfo"] = BatchGetBundleInfo
      /\ CreateCommandMap["implicitQueryInfos"] = ImplicitQueryInfos
      /\ CreateCommandMap["queryAbilityInfo"] = QueryAbilityInfo
      /\ CreateCommandMap["batchQueryAbilityInfos"] = BatchQueryAbilityInfos
      /\ CreateCommandMap["queryExtensionAbilityInfoOptimal"] = QueryExtensionAbilityInfoOptimal
  BY DEF CreateCommandMap
<1>2. /\ CreateCommandMap["getSandboxExtAbilityInfoOptimal"] = GetSandboxExtAbilityInfoOptimal
      /\ CreateCommandMap["getCloneBundleInfoExt"] = GetCloneBundleInfoExt
      /\ CreateCommandMap["addResourceInfoByBundleName"] = AddResourceInfoByBundleName
      /\ CreateCommandMap["addResourceInfoByAbility"] = AddResourceInfoByAbility
      /\ CreateCommandMap["deleteResourceInfo"] = DeleteResourceInfo
      /\ CreateCommandMap["getMainAndCloneBundleInfo"] = GetMainAndCloneBundleInfo
      /\ CreateCommandMap["querySandboxCloneAbilityInfo"] = QuerySandboxCloneAbilityInfo
  BY DEF CreateCommandMap
<1>3. /\ Ordinary(QueryAbilityInfoByContinueType) /\ Ordinary(GetDirByBundleNameAndAppIndex)
      /\ Ordinary(GetAllBundleDirs) /\ Ordinary(GetAllJsonProfile)
      /\ Ordinary(IsBundleInstalled)
      /\ Ordinary(GetCompatibleDeviceType) /\ Ordinary(BatchGetBundleInfo)
      /\ Ordinary(ImplicitQueryInfos)
  BY DEF Ordinary, Usual, QueryAbilityInfoByContinueType, GetDirByBundleNameAndAppIndex,
         GetAllBundleDirs, GetAllJsonProfile, IsBundleInstalled, GetCompatibleDeviceType,
         BatchGetBundleInfo, Parsing, ImplicitQueryInfos
<1>4. /\ Ordinary(QueryAbilityInfo) /\ Ordinary(BatchQueryAbilityInfos)
      /\ Ordinary(QueryExtensionAbilityInfoOptimal) /\ Ordinary(GetSandboxExtAbilityInfoOptimal)
      /\ Ordinary(GetCloneBundleInfoExt) /\ Ordinary(AddResourceInfoByBundleName)
      /\ Ordinary(AddResourceInfoByAbility) /\ Ordinary(DeleteResourceInfo)
  BY DEF Ordinary, Usual, QueryAbilityInfo, Parsing, BatchQueryAbilityInfos,
         QueryExtensionAbilityInfoOptimal, GetSandboxExtAbilityInfoOptimal,
         GetCloneBundleInfoExt, AddResourceInfoByBundleName, AddResourceInfoByAbility,
         DeleteResourceInfo
<1>5. /\ Ordinary(GetMainAndCloneBundleInfo) /\ Ordinary(QuerySandboxCloneAbilityInfo)
  BY DEF Ordinary, Usual, GetMainAndCloneBundleInfo, BatchGetBundleInfo, Parsing,
         QuerySandboxCloneAbilityInfo
<1>6. /\ TableEntry("implicitQuerySkillUriInfo", ImplicitQuerySkillUriInfo)
  BY DEF TableEntry, Overlooking, EndedByTheUnknown, GoingByTheLast, Silent, Usual,
         ImplicitQuerySkillUriInfo
<1>7. QED
  BY <1>1, <1>2, <1>3, <1>4, <1>5, <1>6, OrdinaryEntry

\* The entries for applications.
LEMMA ApplicationEntries ==
  \A c \in {"batchSetApplicationEnabled", "setApplicationDisableForbidden",
           "setDefaultApplicationForCustom", "getSimpleAppInfoForUid", "getBundleNameByAppId",
           "uninstallPreInstallBundle", "getAppIdentifierAndAppIndex", "getAssetGroupsInfo",
           "getBundleNamesForUidExt", "setEnpDevice", "installEnterpriseResignCert",
           "setBundleFirstLaunch", "parseSpmModule",
           "filterBundleListByDeviceModeDistributionPolicies", "install"} :
     TableEntry(c, CreateCommandMap[c])
<1>1. /\ CreateCommandMap["batchSetApplicationEnabled"] = BatchSetApplicationEnabled
      /\ CreateCommandMap["setApplicationDisableForbidden"] = SetApplicationDisableForbidden
      /\ CreateCommandMap["setDefaultApplicationForCustom"] = SetDefaultApplicationForCustom
      /\ CreateCommandMap["getSimpleAppInfoForUid"] = GetSimpleAppInfoForUid
      /\ CreateCommandMap["getBundleNameByAppId"] = GetBundleNameByAppId
      /\ CreateCommandMap["uninstallPreInstallBundle"] = UninstallPreInstallBundle
      /\ CreateCommandMap["getAppIdentifierAndAppIndex"] = GetAppIdentifierAndAppIndex
      /\ CreateCommandMap["getAssetGroupsInfo"] = GetAssetGroupsInfo
      /\ CreateCommandMap["getBundleNamesForUidExt"] = GetBundleNamesForUidExt
      /\ CreateCommandMap["setEnpDevice"] = SetEnpDevice
      /\ CreateCommandMap["installEnterpriseResignCert"] = InstallEnterpriseResignCert
      /\ CreateCommandMap["setBundleFirstLaunch"] = SetBundleFirstLaunch
  BY DEF CreateCommandMap
<1>2. /\ CreateCommandMap["parseSpmModule"] = ParseSpmModule
      /\ CreateCommandMap["filterBundleListByDeviceModeDistributionPolicies"]
           = FilterBundleListByDeviceModeDistributionPolicies
      /\ CreateCommandMap["install"] = Install
  BY DEF CreateCommandMap
<1>3. /\ Ordinary(BatchSetApplicationEnabled) /\ Ordinary(SetApplicationDisableForbidden)
      /\ Ordinary(SetDefaultApplicationForCustom) /\ Ordinary(GetSimpleAppInfoForUid)
      /\ Ordinary(GetBundleNameByAppId) /\ Ordinary(UninstallPreInstallBundle)
      /\ Ordinary(GetAssetGroupsInfo) /\ Ordinary(GetBundleNamesForUidExt)
  BY DEF Ordinary, Usual, BatchSetApplicationEnabled, Returning,
         SetApplicationDisableForbidden, SetDefaultApplicationForCustom,
         GetSimpleAppInfoForUid, GetBundleNameByAppId, UninstallPreInstallBundle,
         GetAssetGroupsInfo, GetBundleNamesForUidExt
<1>4. /\ Ordinary(SetEnpDevice) /\ Ordinary(ParseSpmModule)
      /\ Ordinary(FilterBundleListByDeviceModeDistributionPolicies) /\ Ordinary(Install)
  BY DEF Ordinary, Usual, SetEnpDevice, ParseSpmModule,
         FilterBundleListByDeviceModeDistributionPolicies, Install
<1>5. /\ TableEntry("getAppIdentifierAndAppIndex", GetAppIdentifierAndAppIndex)
      /\ TableEntry("installEnterpriseResignCert", InstallEnterpriseResignCert)
      /\ TableEntry("setBundleFirstLaunch", SetBundleFirstLaunch)
  BY DEF TableEntry, Overlooking, EndedByTheUnknown, GoingByTheLast, Silent, Usual,
         GetAppIdentifierAndAppIndex, InstallEnterpriseResignCert, SetBundleFirstLaunch
<1>6. QED
  BY <1>1, <1>2, <1>3, <1>4, <1>5, OrdinaryEntry

\* The whole table is in order.
LEMMA Table == \A c \in Commands : TableEntry(c, CreateCommandMap[c])
<1>1. Commands =
       {"check", "setrm", "getrm", "installSandbox", "uninstallSandbox", "dumpSandbox", "getStr",
        "getIcon", "deleteDisposedRules", "addAppInstallRule", "getAppInstallRule",
        "deleteAppInstallRule", "cleanAppInstallRule", "addAppRunningRule",
        "deleteAppRunningRule", "cleanAppRunningRule", "getAppRunningControlRule",
        "getAppRunningControlRuleResult", "cleanBundleCacheFilesAutomatic",
        "cleanBundlePartialCacheAutomatic", "getContinueBundleName", "deployQuickFix",
        "switchQuickFix", "deleteQuickFix", "setDebugMode", "getBundleStats",
        "getBundleStatsAsync", "getBundleInodeCount", "batchGetBundleStats",
        "getAllBundleStats", "getAppProvisionInfo", "getDistributedBundleName", "eventCB",
        "pluginCallback", "resetAOTCompileStatus", "sendCommonEvent", "getProxyDataInfos",
        "getAllProxyDataInfos", "setExtNameOrMimeToApp", "delExtNameOrMimeToApp",
        "queryDataGroupInfos", "getGroupDir", "getJsonProfile", "getUninstalledBundleInfo",
        "getOdid", "getUidByBundleName", "getApiTargetVersionByUid",
        "batchSetApplicationEnabled", "implicitQuerySkillUriInfo",
        "queryAbilityInfoByContinueType", "updateAppEncryptedStatus",
        "getDirByBundleNameAndAppIndex", "getAllBundleDirs", "getAllJsonProfile",
        "setApplicationDisableForbidden", "setDefaultApplicationForCustom", "getDisposedRules",
        "getAllBundleCacheStat", "getEachBundleCacheStat", "cleanAllBundleCache",
        "isBundleInstalled", "getCompatibleDeviceType", "batchGetCompatibleDeviceType",
        "getSimpleAppInfoForUid", "getBundleNameByAppId", "uninstallPreInstallBundle",
        "getAssetAccessGroups", "getAppIdentifierAndAppIndex", "setAppDistributionTypes",
        "getAssetGroupsInfo", "getBundleNamesForUidExt", "setEnpDevice",
        "installEnterpriseResignCert", "uninstallEnterpriseReSignatureCert",
        "getEnterpriseReSignatureCert", "getOdidResetCount", "setBundleFirstLaunch",
        "getTopNLargestItemsInAppDataDir", "batchGetBundleInfo", "parseSpmModule",
        "implicitQueryInfos", "queryAbilityInfo", "batchQueryAbilityInfos",
        "queryExtensionAbilityInfoOptimal", "getSandboxExtAbilityInfoOptimal",
        "getCloneBundleInfoExt", "addResourceInfoByBundleName", "addResourceInfoByAbility",
        "deleteResourceInfo", "getMainAndCloneBundleInfo", "querySandboxCloneAbilityInfo",
        "filterBundleListByDeviceModeDistributionPolicies", "install"}
  BY DEF Commands, CreateCommandMap
<1>2. QED
  BY <1>1, ModuleEntries, RuleEntries, CacheEntries, ProfileEntries, QueryEntries,
     ApplicationEntries

\* A callback is registered with the bundle manager.
LEMMA CallbackEntries == \A c \in Callbacks : CreateCommandMap[c].proxy = {}
<1>1. CreateCommandMap["eventCB"].proxy = {}
  BY DEF CreateCommandMap, EventCallback, Returning, Usual
<1>2. CreateCommandMap["pluginCallback"].proxy = {}
  BY DEF CreateCommandMap, PluginEventCallback, EventCallback, Returning, Usual
<1>3. QED
  BY <1>1, <1>2 DEF Callbacks

\* All values of the one command that sets the device's parameter are looked at before.
LEMMA NoLateRefusal == ~CreateCommandMap["uninstallPreInstallBundle"].late
  BY DEF CreateCommandMap, UninstallPreInstallBundle, Usual

\* A call of a command is told from none.
LEMMA NoneIsNoCommand == "none" \notin Commands
  BY DEF Commands, CreateCommandMap

-----------------------------------------------------------------------------
(* The invariant *)

\* The phases of a command that is running, and those in which nothing is called yet.
Working == {"start", "scan", "scanned", "ready", "assumed"}
BeforeTheCall == {"command", "start", "scan", "scanned", "ready"}

\* The services are connected to before a command starts.
CommandInv ==
  /\ cmd \in Commands \cup {"help", "unknown"}
  /\ phase \in Working \cup {"command", "listening", "done", "aborted"}
  /\ phase \notin {"command", "done"} =>
       cmd \in Commands /\ {"bundleMgr", "bundleInstaller", "bundleResource"} \subseteq proxies

\* What a result in order, and a message, tell of the options so far.
LineInv ==
  /\ refused \in {"no", "overlooked", "ended", "earlier", "last"}
  /\ phase \in {"command", "start"} =>
       result = "ok" /\ output = "" /\ refused = "no" /\ identity = "none"
  /\ refused = "overlooked" => S.unnoticed # {}
  /\ refused = "ended" => S.onUnknown = "end" /\ phase # "scan"
  /\ phase \in Working =>
       /\ output # "success"
       /\ output # "" => result = "invalid" \/ S.overwritten
       /\ result = "ok" => refused # "last" /\ (refused = "earlier" => S.overwritten)
  /\ phase \in {"ready", "assumed"} => result = "ok" /\ Complete

\* Nothing is called, and the device is left alone, before everything is in order.
CallInv ==
  /\ phase \notin {"listening", "done"} => call = "none" /\ ~succeeded /\ ~registered
  /\ phase = "listening" =>
       cmd \in Callbacks /\ call = cmd /\ ~succeeded /\ registered /\ output = "success"
  /\ phase \in {"command", "start", "scan", "scanned", "ready"} => ~enterprise
  /\ enterprise => cmd = "uninstallPreInstallBundle"

\* Which identity a root tool has assumed when it is about to call.
AsAsked ==
  IF S.early
    THEN uid = IF asked.first = "none" THEN "root" ELSE asked.first
  ELSE IF asked.last # "none" THEN uid = asked.last
  ELSE \/ uid = S.uid
       \/ uid = "root" /\ (S.uid = "bundle" \/ cmd = "getContinueBundleName")

\* The variable of the option holds the identity last asked for; before the call only the
\* commands that change it at once have another identity than the one they started with.
IdentityInv ==
  /\ asked \in [first : Uids \cup {"none"}, last : Uids \cup {"none"}]
  /\ identity = asked.last
  /\ asked.first # "root"
  /\ asked.last = "none" => asked.first = "none"
  /\ asked.first = "none" => asked.last \in {"none", "root"}
  /\ phase \notin {"assumed", "listening", "done"} /\ uid # "shell" =>
       IF asked.first = "none" THEN uid = "root"
                               ELSE uid = IF S.early THEN asked.first ELSE "root"
  /\ phase \in {"assumed", "listening"} /\ uid # "shell" => AsAsked

\* What the properties need of a run, and the properties.
RunInv ==
  /\ CommandInv /\ LineInv /\ CallInv /\ IdentityInv
  /\ RefusedLineCallsNothing /\ CallIsComplete /\ CallerIsAsAsked /\ OutcomeIsTold

-----------------------------------------------------------------------------
(* What the steps have in common *)

\* The description of a command does not change with the state.
LEMMA SameCommand == ASSUME UNCHANGED cmd PROVE S' = S
  BY DEF S

\* What the invariant tells of a line that has come as far as the call.
LEMMA LineInOrder ==
  ASSUME RunInv, phase \in {"ready", "assumed"}
  PROVE  /\ cmd \in Commands /\ Complete
         /\ \/ refused = "no"
            \/ refused = "overlooked" /\ cmd \in Overlooking
            \/ refused = "ended" /\ cmd \in EndedByTheUnknown
            \/ refused = "earlier" /\ cmd \in GoingByTheLast
<1>1. TableEntry(cmd, S) /\ cmd \in Commands
  BY Table DEF RunInv, CommandInv, S
<1>2. QED
  BY <1>1 DEF RunInv, LineInv, Working, TableEntry

\* As long as nothing is called there is nothing to be said of a call.
LEMMA NothingCalledYet ==
  ASSUME CallInv', phase' \in BeforeTheCall
  PROVE  /\ RefusedLineCallsNothing' /\ CallIsComplete' /\ CallerIsAsAsked'
         /\ OutcomeIsTold'
<1>1. call' = "none" /\ ~enterprise' /\ phase' # "done"
  BY DEF CallInv, BeforeTheCall
<1>2. QED
  BY <1>1 DEF RefusedLineCallsNothing, CallIsComplete, CallerIsAsAsked, OutcomeIsTold

\* A step that calls nothing ends the run without a word of success.
LEMMA EndWithoutCall ==
  ASSUME phase' = "done", call' = "none", ~enterprise', ~registered', output' # "success"
  PROVE  /\ RefusedLineCallsNothing' /\ CallIsComplete' /\ CallerIsAsAsked'
         /\ OutcomeIsTold'
  BY DEF RefusedLineCallsNothing, CallIsComplete, CallerIsAsAsked, OutcomeIsTold

-----------------------------------------------------------------------------
(* Before the scan *)

\* Nothing is known, called or assumed before the command starts.
LEMMA InitRunInv == Init => RunInv
<1> SUFFICES ASSUME Init PROVE RunInv
  OBVIOUS
<1> USE DEF Init
<1>1. CommandInv /\ LineInv /\ CallInv
  BY DEF CommandInv, LineInv, CallInv, Working
<1>2. IdentityInv
  BY DEF IdentityInv
<1>3. RefusedLineCallsNothing /\ CallIsComplete /\ CallerIsAsAsked /\ OutcomeIsTold
  BY DEF RefusedLineCallsNothing, CallIsComplete, CallerIsAsAsked, OutcomeIsTold
<1>4. QED
  BY <1>1, <1>2, <1>3 DEF RunInv

\* A command starts with the services connected; help and unknown words end the run.
LEMMA OnCommandKeeps == ASSUME RunInv, OnCommand PROVE RunInv'
<1> USE DEF RunInv, OnCommand, caller, outcome
<1>1. CommandInv' /\ LineInv' /\ CallInv'
  BY DEF CommandInv, LineInv, CallInv, Working, S
<1>2. IdentityInv'
  BY DEF IdentityInv, S
<1>3. RefusedLineCallsNothing' /\ CallIsComplete' /\ CallerIsAsAsked' /\ OutcomeIsTold'
  <2>1. CASE phase' = "done"
    BY <2>1, EndWithoutCall DEF CallInv
  <2>2. CASE phase' = "start"
    BY <1>1, <2>2, NothingCalledYet DEF BeforeTheCall
  <2>3. QED
    BY <2>1, <2>2
<1>4. QED
  BY <1>1, <1>2, <1>3

\* The native token may be asked for at once.
LEMMA StartScanKeeps == ASSUME RunInv, StartScan PROVE RunInv'
<1> USE DEF RunInv, StartScan, outcome
<1>1. S' = S
  BY SameCommand
<1>2. CommandInv' /\ LineInv' /\ CallInv'
  BY <1>1 DEF CommandInv, LineInv, CallInv, Working
<1>3. IdentityInv'
  BY <1>1 DEF IdentityInv
<1>4. QED
  BY <1>2, <1>3, NothingCalledYet DEF BeforeTheCall

-----------------------------------------------------------------------------
(* The scan *)

\* An option in order is accepted over an earlier refusal only by the commands that go by
\* the last one.
LEMMA AcceptKeepsLine ==
  ASSUME RunInv, phase = "scan", Accept
  PROVE  S' = S /\ CommandInv' /\ LineInv' /\ CallInv'
<1> USE DEF RunInv, Accept, outcome
<1>1. S' = S
  BY SameCommand
<1>2. CommandInv' /\ CallInv'
  BY DEF CommandInv, CallInv
<1>3. LineInv'
  BY <1>1 DEF LineInv, Working
<1>4. QED
  BY <1>1, <1>2, <1>3

\* An option that is accepted and is no identity.
LEMMA AcceptedKeeps ==
  ASSUME RunInv, phase = "scan", Accept, UNCHANGED <<identity, uid, asked>>
  PROVE  RunInv'
<1>1. S' = S /\ CommandInv' /\ LineInv' /\ CallInv'
  BY AcceptKeepsLine
<1>2. UNCHANGED <<cmd, phase>>
  BY DEF Accept
<1>3. IdentityInv'
  BY <1>1, <1>2 DEF RunInv, IdentityInv
<1>4. QED
  BY <1>1, <1>2, <1>3, NothingCalledYet DEF RunInv, BeforeTheCall

\* Flags, texts, lists and numbers are accepted.
LEMMA ValuesKeep ==
  ASSUME RunInv, Flag \/ Text \/ ListText \/ Number PROVE RunInv'
  BY AcceptedKeeps DEF Flag, Text, ListText, Number, Scanning

\* Only the first identity other than root has an effect on the commands that assume it
\* with the option; the other commands only remember it.
LEMMA WhoKeeps == ASSUME RunInv, Who PROVE RunInv'
<1>1. phase = "scan" /\ Accept /\ UNCHANGED <<cmd, phase>>
  BY DEF Who, Scanning, Accept
<1>2. S' = S /\ CommandInv' /\ LineInv' /\ CallInv'
  BY <1>1, AcceptKeepsLine
<1>3. PICK u \in Uids :
        /\ identity' = u
        /\ uid' = IF S.early THEN SetUid(u) ELSE uid
        /\ asked' = [first |-> IF asked.first = "none" /\ u # "root" THEN u
                                                                     ELSE asked.first,
                     last |-> u]
  BY DEF Who
<1>4. u # "none"
  BY UidsAssumption
<1>5. /\ asked' \in [first : Uids \cup {"none"}, last : Uids \cup {"none"}]
      /\ identity' = asked'.last /\ asked'.first # "root" /\ asked'.last # "none"
      /\ asked'.first = "none" => asked'.last = "root"
  BY <1>3, <1>4 DEF RunInv, IdentityInv
<1>6. uid' # "shell" =>
        IF asked'.first = "none" THEN uid' = "root"
                                 ELSE uid' = IF S.early THEN asked'.first ELSE "root"
  <2> SUFFICES ASSUME uid' # "shell"
               PROVE  IF asked'.first = "none"
                        THEN uid' = "root"
                        ELSE uid' = IF S.early THEN asked'.first ELSE "root"
    OBVIOUS
  <2>1. uid # "shell"
    BY <1>3 DEF SetUid
  <2>2. IF asked.first = "none" THEN uid = "root"
                                ELSE uid = IF S.early THEN asked.first ELSE "root"
    BY <1>1, <2>1 DEF RunInv, IdentityInv
  <2>3. QED
    BY <1>3, <1>4, <2>2 DEF SetUid, RunInv, IdentityInv
<1>7. IdentityInv'
  BY <1>1, <1>2, <1>5, <1>6 DEF IdentityInv
<1>8. QED
  BY <1>1, <1>2, <1>7, NothingCalledYet DEF RunInv, BeforeTheCall

\* A refused option leaves the result invalid, whether the scan goes on or not.
LEMMA RefusedKeeps ==
  ASSUME RunInv, phase = "scan", Refuse, phase' \in {"scan", "scanned"} PROVE RunInv'
<1> USE DEF RunInv, Refuse, caller, outcome
<1>1. S' = S
  BY SameCommand
<1>2. CommandInv' /\ CallInv'
  BY DEF CommandInv, CallInv, Working
<1>3. LineInv'
  BY <1>1 DEF LineInv, Working
<1>4. IdentityInv'
  BY <1>1 DEF IdentityInv
<1>5. QED
  BY <1>2, <1>3, <1>4, NothingCalledYet DEF BeforeTheCall

\* Bad numbers, unused and unknown options and requests for help are refused.
LEMMA RefusalsKeep ==
  ASSUME RunInv, BadNumber \/ Unused \/ Unknown \/ Help PROVE RunInv'
  BY RefusedKeeps DEF BadNumber, Unused, Unknown, Help, Scanning

\* A value that is overlooked changes nothing else.
LEMMA OverlookedKeeps == ASSUME RunInv, Overlooked PROVE RunInv'
<1> USE DEF RunInv, Overlooked, Scanning, caller, outcome
<1>1. S' = S
  BY SameCommand
<1>2. CommandInv' /\ CallInv'
  BY DEF CommandInv, CallInv
<1>3. LineInv'
  BY <1>1 DEF LineInv, Working
<1>4. IdentityInv'
  BY <1>1 DEF IdentityInv
<1>5. QED
  BY <1>2, <1>3, <1>4, NothingCalledYet DEF BeforeTheCall

\* The scan may end with an unknown option, or with the last.
LEMMA EndsKeep == ASSUME RunInv, UnknownEnds \/ OptionsEnd PROVE RunInv'
<1> USE DEF RunInv, UnknownEnds, OptionsEnd, Scanning, caller, outcome
<1>1. S' = S
  BY SameCommand
<1>2. CommandInv' /\ CallInv'
  BY DEF CommandInv, CallInv, Working
<1>3. LineInv'
  BY <1>1 DEF LineInv, Working
<1>4. IdentityInv'
  BY <1>1 DEF IdentityInv
<1>5. QED
  BY <1>2, <1>3, <1>4, NothingCalledYet DEF BeforeTheCall

\* Or the run ends with it.
LEMMA HelpEndsKeeps == ASSUME RunInv, HelpEnds PROVE RunInv'
<1> USE DEF RunInv, HelpEnds, Scanning, caller, outcome
<1>1. S' = S
  BY SameCommand
<1>2. CommandInv' /\ LineInv' /\ CallInv' /\ IdentityInv'
  BY <1>1 DEF CommandInv, LineInv, CallInv, IdentityInv, Working
<1>3. QED
  BY <1>2, EndWithoutCall DEF CallInv

\* A short -s ends the process, is accepted or is refused.
LEMMA ShortSharedKeeps == ASSUME RunInv, ShortShared PROVE RunInv'
<1>1. CASE phase' = "aborted"
  <2> USE <1>1 DEF RunInv, ShortShared, Scanning, Accept, caller, outcome
  <2>1. phase = "scan" /\ UNCHANGED <<cmd, proxies, filled, identity, result, output,
                                      caller, outcome, refused, asked>>
    BY DEF Refuse
  <2>2. S' = S
    BY <2>1, SameCommand
  <2>3. CommandInv' /\ LineInv' /\ CallInv' /\ IdentityInv'
    BY <2>1, <2>2 DEF CommandInv, LineInv, CallInv, IdentityInv, Working
  <2>4. call' = "none" /\ ~enterprise'
    BY <2>1 DEF CallInv
  <2>5. QED
    BY <1>1, <2>3, <2>4
       DEF RefusedLineCallsNothing, CallIsComplete, CallerIsAsAsked, OutcomeIsTold
<1>2. CASE phase' # "aborted"
  BY <1>2, AcceptedKeeps, RefusedKeeps DEF ShortShared, Scanning
<1>3. QED
  BY <1>1, <1>2

-----------------------------------------------------------------------------
(* Between the scan and the call *)

\* That something was printed excuses no command from a missing value: those with a result
\* that may be in order in spite of it do not look at what was printed.
LEMMA CheckLineKeeps == ASSUME RunInv, CheckLine PROVE RunInv'
<1> USE DEF RunInv, CheckLine, caller, outcome
<1>1. S' = S /\ Complete' = Complete
  BY SameCommand DEF Complete
<1>2. TableEntry(cmd, S)
  BY Table DEF CommandInv, S
<1>3. MayCall => Complete
  BY <1>2 DEF MayCall, LineInv, Working, TableEntry
<1>4. CommandInv' /\ CallInv'
  BY DEF CommandInv, CallInv, Working
<1>5. LineInv'
  BY <1>1, <1>3 DEF LineInv, Working, MayCall
<1>6. IdentityInv'
  BY <1>1 DEF IdentityInv
<1>7. CASE MayCall
  BY <1>4, <1>5, <1>6, <1>7, NothingCalledYet DEF BeforeTheCall
<1>8. CASE ~MayCall
  <2>1. output' # "success" /\ call' = "none" /\ ~enterprise' /\ ~registered'
    BY <1>8 DEF LineInv, CallInv, Working
  <2>2. QED
    BY <1>4, <1>5, <1>6, <1>8, <2>1, EndWithoutCall
<1>9. QED
  BY <1>7, <1>8

\* A tool that runs as root becomes what was asked for last, or the command's own; with the
\* commands that were too early it is what was asked for first.
LEMMA AssumeIdentity ==
  ASSUME RunInv, Assume, uid' # "shell" PROVE AsAsked'
<1> USE DEF Assume
<1>1. S' = S /\ UNCHANGED <<cmd, asked>>
  BY SameCommand
<1>2. identity = asked.last /\ asked.first # "root"
      /\ asked.last \in Uids \cup {"none"}
      /\ (asked.last = "none" => asked.first = "none")
      /\ (asked.first = "none" => asked.last \in {"none", "root"})
  BY DEF RunInv, IdentityInv
<1>3. /\ uid # "shell" /\ asked.last # "bundle"
      /\ uid' = SetUid(Wanted) \/ (Wanted = "bundle" /\ uid' = uid)
  BY <1>2, UidsAssumption DEF SetUid
<1>4. IF asked.first = "none" THEN uid = "root"
                              ELSE uid = IF S.early THEN asked.first ELSE "root"
  BY <1>3 DEF RunInv, IdentityInv
<1>5. S.early => S.uid = "root"
  BY Table DEF RunInv, CommandInv, S, TableEntry
<1>6. CASE S.early
  <2>1. asked.first = "none" => Wanted = "root"
    BY <1>2, <1>5, <1>6 DEF Wanted
  <2>2. uid' = IF asked.first = "none" THEN "root" ELSE asked.first
    BY <1>2, <1>3, <1>4, <1>6, <2>1 DEF SetUid
  <2>3. QED
    BY <1>1, <1>6, <2>2 DEF AsAsked
<1>7. CASE ~S.early
  <2>1. uid = "root" /\ SetUid(Wanted) = Wanted
    BY <1>4, <1>7 DEF SetUid
  <2>2. CASE asked.last # "none"
    BY <1>1, <1>2, <1>3, <1>7, <2>1, <2>2 DEF Wanted, AsAsked
  <2>3. CASE asked.last = "none"
    <3>1. Wanted = S.uid \/ (Wanted = "root" /\ cmd = "getContinueBundleName")
      BY <1>2, <2>3 DEF Wanted
    <3>2. QED
      BY <1>1, <1>3, <1>7, <2>1, <2>3, <3>1 DEF AsAsked
  <2>4. QED
    BY <2>2, <2>3
<1>8. QED
  BY <1>6, <1>7

\* The device's parameter is set only for a line that is in order.
LEMMA AssumeKeeps == ASSUME RunInv, Assume PROVE RunInv'
<1>1. S' = S /\ Complete' = Complete
      /\ UNCHANGED <<cmd, proxies, filled, identity, result, output, outcome, refused, asked>>
      /\ phase = "ready" /\ phase' = "assumed"
  BY SameCommand DEF Assume, Complete
<1>2. CommandInv' /\ LineInv'
  BY <1>1 DEF RunInv, CommandInv, LineInv, Working
<1>3. CallInv'
  <2>1. enterprise' => cmd = "uninstallPreInstallBundle"
    BY DEF Assume
  <2>2. UNCHANGED <<call, succeeded, registered>>
    BY <1>1 DEF outcome
  <2>3. QED
    BY <1>1, <2>1, <2>2 DEF RunInv, CallInv
<1>4. IdentityInv'
  BY <1>1, AssumeIdentity DEF RunInv, IdentityInv
<1>5. RefusedLineCallsNothing'
  BY <1>1, LineInOrder DEF RefusedLineCallsNothing, GoingByTheLast
<1>6. CallIsComplete' /\ CallerIsAsAsked' /\ OutcomeIsTold'
  BY <1>1, <1>3 DEF CallInv, CallIsComplete, CallerIsAsAsked, OutcomeIsTold
<1>7. QED
  BY <1>2, <1>3, <1>4, <1>5, <1>6 DEF RunInv

\* A proxy that cannot be got ends the run with a result that is not in order; the
\* parameter of the device is set by then.
LEMMA GetProxyKeeps == ASSUME RunInv, GetProxy PROVE RunInv'
<1> USE DEF RunInv, GetProxy, caller, outcome
<1>1. S' = S
  BY SameCommand
<1>2. CommandInv' /\ LineInv' /\ CallInv'
  BY <1>1 DEF CommandInv, LineInv, CallInv, Working, Complete
<1>3. IdentityInv'
  BY <1>1 DEF IdentityInv, AsAsked
<1>4. call' = "none" /\ ~registered' /\ output' # "success"
  BY DEF CallInv, LineInv, Working
<1>5. QED
  BY <1>2, <1>3, <1>4
     DEF RefusedLineCallsNothing, CallIsComplete, CallerIsAsAsked, OutcomeIsTold

\* Values are not refused after the parameter of the device has been set.
LEMMA LateRefusalKeeps == ASSUME RunInv, LateRefusal PROVE RunInv'
<1> USE DEF RunInv, LateRefusal, caller, outcome
<1>1. S' = S
  BY SameCommand
<1>2. ~enterprise
  BY NoLateRefusal DEF CallInv, S
<1>3. CommandInv' /\ LineInv' /\ CallInv' /\ IdentityInv'
  BY <1>1 DEF CommandInv, LineInv, CallInv, IdentityInv, Working
<1>4. output' # "success" /\ call' = "none" /\ ~enterprise' /\ ~registered'
  BY <1>2 DEF LineInv, CallInv, Working
<1>5. QED
  BY <1>3, <1>4, EndWithoutCall

-----------------------------------------------------------------------------
(* The call *)

\* A call is made of a line in order, complete and under the right identity.
LEMMA CallKeeps ==
  ASSUME RunInv, phase = "assumed", call' = cmd, phase' # "assumed",
         {"bundleMgr", "bundleInstaller", "bundleResource"} \cup S.proxy \subseteq proxies,
         UNCHANGED <<cmd, proxies, filled, identity, caller, refused, asked>>
  PROVE  /\ S' = S /\ call' # "none"
         /\ RefusedLineCallsNothing' /\ CallIsComplete' /\ CallerIsAsAsked'
<1>1. S' = S /\ Complete' = Complete
  BY SameCommand DEF Complete
<1>2. call' # "none"
  BY LineInOrder, NoneIsNoCommand
<1>3. RefusedLineCallsNothing' /\ CallIsComplete'
  BY <1>1, LineInOrder DEF RefusedLineCallsNothing, CallIsComplete, GoingByTheLast, caller
<1>4. CallerIsAsAsked'
  BY <1>1 DEF RunInv, IdentityInv, AsAsked, CallerIsAsAsked, caller
<1>5. QED
  BY <1>1, <1>2, <1>3, <1>4

\* What is printed of a call that returned tells whether it succeeded, as far as the command
\* tells of it at all.
LEMMA OperationKeeps == ASSUME RunInv, Operation PROVE RunInv'
<1>1. /\ phase = "assumed" /\ phase' = "done" /\ call' = cmd
      /\ UNCHANGED <<cmd, proxies, filled, identity, caller, registered, refused, asked>>
  BY DEF Operation
<1>2. {"bundleMgr", "bundleInstaller", "bundleResource"} \cup S.proxy \subseteq proxies
  BY <1>1 DEF Operation, RunInv, CommandInv
<1>3. /\ S' = S /\ call' # "none"
      /\ RefusedLineCallsNothing' /\ CallIsComplete' /\ CallerIsAsAsked'
  BY <1>1, <1>2, CallKeeps
<1>4. CommandInv' /\ LineInv' /\ CallInv'
  BY <1>1, <1>3 DEF RunInv, CommandInv, LineInv, CallInv, Working, caller
<1>5. IdentityInv'
  BY <1>1, <1>3 DEF RunInv, IdentityInv, AsAsked, caller
<1>6. OutcomeIsTold'
  <2>1. PICK ok \in BOOLEAN : succeeded' = ok /\ output' \in Told(ok)
    BY DEF Operation
  <2>2. output # "success" /\ ~registered' /\ TableEntry(cmd, S)
    BY <1>1, Table DEF RunInv, CommandInv, LineInv, CallInv, Working, S
  <2>3. output' = "success" => ok \/ cmd = "getrm"
    BY <2>1, <2>2 DEF Told, TableEntry
  <2>4. ok \/ output' = "error" \/ cmd \in Silent \cup {"getrm", "pluginCallback"}
    BY <2>1, <2>2 DEF Told, TableEntry
  <2>5. QED
    BY <1>1, <1>3, <2>1, <2>2, <2>3, <2>4 DEF OutcomeIsTold, Silent
<1>7. QED
  BY <1>3, <1>4, <1>5, <1>6 DEF RunInv

\* A callback needs no proxy of its own; with it registered, the tool goes on.
LEMMA RegisterKeeps == ASSUME RunInv, Register PROVE RunInv'
<1>1. /\ phase = "assumed" /\ call' = cmd /\ cmd \in Callbacks
      /\ UNCHANGED <<cmd, proxies, filled, identity, caller, succeeded, refused, asked>>
  BY DEF Register
<1>2. \/ registered' = TRUE /\ output' = "success" /\ phase' = "listening"
      \/ phase' = "done" /\ output' = "error" /\ result' = "failed" /\ UNCHANGED registered
  BY DEF Register
<1>3. {"bundleMgr", "bundleInstaller", "bundleResource"} \cup S.proxy \subseteq proxies
  BY <1>1, CallbackEntries DEF RunInv, CommandInv, S
<1>4. /\ S' = S /\ call' # "none"
      /\ RefusedLineCallsNothing' /\ CallIsComplete' /\ CallerIsAsAsked'
  BY <1>1, <1>2, <1>3, CallKeeps
<1>5. CommandInv' /\ LineInv' /\ CallInv'
  BY <1>1, <1>2, <1>4 DEF RunInv, CommandInv, LineInv, CallInv, Working, caller
<1>6. IdentityInv'
  BY <1>1, <1>2, <1>4 DEF RunInv, IdentityInv, AsAsked, caller
<1>7. OutcomeIsTold'
  BY <1>1, <1>2 DEF RunInv, CallInv, OutcomeIsTold
<1>8. QED
  BY <1>4, <1>5, <1>6, <1>7 DEF RunInv

\* What listened is unregistered, or an error is printed over the success.
LEMMA UnregisterKeeps == ASSUME RunInv, Unregister PROVE RunInv'
<1> USE DEF RunInv, Unregister, caller
<1>1. S' = S /\ Complete' = Complete
  BY SameCommand DEF Complete
<1>2. CommandInv' /\ LineInv' /\ CallInv'
  BY <1>1 DEF CommandInv, LineInv, CallInv, Working
<1>3. IdentityInv'
  BY <1>1 DEF IdentityInv, AsAsked
<1>4. RefusedLineCallsNothing' /\ CallIsComplete' /\ CallerIsAsAsked'
  BY <1>1 DEF RefusedLineCallsNothing, CallIsComplete, CallerIsAsAsked
<1>5. OutcomeIsTold'
  BY DEF CallInv, OutcomeIsTold
<1>6. QED
  BY <1>2, <1>3, <1>4, <1>5

-----------------------------------------------------------------------------
(* The invariant of the commands and what it gives *)

\* Every step of every command keeps the invariant.
LEMMA NextRunInv == RunInv /\ [Next]_vars => RunInv'
<1> SUFFICES ASSUME RunInv, [Next]_vars PROVE RunInv'
  OBVIOUS
<1>1. CASE OnCommand \/ StartScan
  BY <1>1, OnCommandKeeps, StartScanKeeps
<1>2. CASE Flag \/ Text \/ ListText \/ Number \/ Who \/ BadNumber \/ Unused \/ Unknown \/ Help
  BY <1>2, ValuesKeep, WhoKeeps, RefusalsKeep
<1>3. CASE Overlooked \/ UnknownEnds \/ OptionsEnd \/ HelpEnds \/ ShortShared
  BY <1>3, OverlookedKeeps, EndsKeep, HelpEndsKeeps, ShortSharedKeeps
<1>4. CASE CheckLine \/ Assume \/ GetProxy \/ LateRefusal
  BY <1>4, CheckLineKeeps, AssumeKeeps, GetProxyKeeps, LateRefusalKeeps
<1>5. CASE Operation \/ Register \/ Unregister
  BY <1>5, OperationKeeps, RegisterKeeps, UnregisterKeeps
<1>6. CASE UNCHANGED vars
  <2>1. S' = S /\ Complete' = Complete
    BY <1>6, SameCommand DEF vars, Complete
  <2>2. CommandInv' /\ LineInv' /\ CallInv'
    BY <1>6, <2>1 DEF vars, caller, outcome, RunInv, CommandInv, LineInv, CallInv
  <2>3. IdentityInv'
    BY <1>6, <2>1 DEF vars, caller, RunInv, IdentityInv, AsAsked
  <2>4. /\ RefusedLineCallsNothing' /\ CallIsComplete' /\ CallerIsAsAsked'
        /\ OutcomeIsTold'
    BY <1>6, <2>1 DEF vars, caller, outcome, RunInv, RefusedLineCallsNothing,
                      CallIsComplete, CallerIsAsAsked, OutcomeIsTold
  <2>5. QED
    BY <2>2, <2>3, <2>4 DEF RunInv
<1>7. QED
  BY <1>1, <1>2, <1>3, <1>4, <1>5, <1>6 DEF Next

\* The strengthening of the four properties below holds in every reachable state.
THEOREM RunInductive == Spec => []RunInv
  BY InitRunInv, NextRunInv, PTL DEF Spec

\* However long the line, a command that refused an option, or was asked for help, calls
\* nothing and leaves the device alone; the exceptions are the commands that are lenient.
THEOREM RefusedLine == Spec => []RefusedLineCallsNothing
<1>1. RunInv => RefusedLineCallsNothing
  BY DEF RunInv
<1>2. QED
  BY <1>1, RunInductive, PTL

\* Every call has the values its command insists on and the proxies it goes through.
THEOREM CompleteCall == Spec => []CallIsComplete
<1>1. RunInv => CallIsComplete
  BY DEF RunInv
<1>2. QED
  BY <1>1, RunInductive, PTL

\* Whatever identities there are and however often one is asked for, a root tool calls under
\* the one its command stands for.
THEOREM CallerAsAsked == Spec => []CallerIsAsAsked
<1>1. RunInv => CallerIsAsAsked
  BY DEF RunInv
<1>2. QED
  BY <1>1, RunInductive, PTL

\* What is printed at the end is true of the call, and nothing stays registered unsaid.
THEOREM OutcomeTold == Spec => []OutcomeIsTold
<1>1. RunInv => OutcomeIsTold
  BY DEF RunInv
<1>2. QED
  BY <1>1, RunInductive, PTL

-----------------------------------------------------------------------------
(* The types *)

\* The identities a tool may have: one asked for, or one of a command's own.
Identities == Uids \cup {"root", "shell"} \cup {CreateCommandMap[c].uid : c \in Commands}

\* Every variable keeps its type: a letter is remembered only if something depends on it or
\* it is of a list, a proxy is got only if the command needs it, and an identity comes from
\* the line or from the table.
RunTypeInv ==
  /\ phase \in Working \cup {"command", "listening", "done", "aborted"}
  /\ counter \in Nat
  /\ filled = {} \/ (cmd \in Commands /\ filled \subseteq Matters \cup S.lists)
  /\ \/ proxies \in {{}, {"bundleMgr", "bundleInstaller", "bundleResource"}}
     \/ /\ cmd \in Commands
        /\ proxies = {"bundleMgr", "bundleInstaller", "bundleResource"} \cup S.proxy
  /\ result \in {"ok", "invalid", "failed"}
  /\ output \in {"", "help", "error", "success"}
  /\ uid \in Identities
  /\ tokenReloaded \in BOOLEAN /\ enterprise \in BOOLEAN
  /\ registered \in BOOLEAN /\ succeeded \in BOOLEAN
  /\ call \in {"none", cmd}

\* An option is counted, or any number of them stands for one.
LEMMA OptionsAreCounted ==
  ASSUME counter \in Nat, Scanning \/ UNCHANGED counter PROVE counter' \in Nat
<1>1. counter' \in {counter, counter + 1, 1}
  BY DEF Scanning
<1>2. QED
  BY <1>1

\* The verdicts on the native token are verdicts.
LEMMA TokensAreVerdicts == Tokens \subseteq BOOLEAN
<1>1. CASE S.token = "asked"
  <2> DEFINE given == "p" \in filled
  <2>1. Tokens = {given}
    BY <1>1 DEF Tokens
  <2>2. given \in BOOLEAN
    OBVIOUS
  <2> HIDE DEF given
  <2>3. QED
    BY <2>1, <2>2
<1>2. CASE S.token # "asked"
  <2>1. Tokens \in {{TRUE}, {FALSE}, BOOLEAN}
    BY <1>2 DEF Tokens
  <2>2. QED
    BY <2>1
<1>3. QED
  BY <1>1, <1>2

\* The scan keeps the types, whichever options it meets.
LEMMA ScanKeepsTypes ==
  ASSUME RunInv, RunTypeInv,
         \/ Flag \/ Text \/ ListText \/ Number \/ Who \/ BadNumber \/ Overlooked \/ Unused
         \/ Unknown \/ UnknownEnds \/ Help \/ HelpEnds \/ ShortShared \/ OptionsEnd
  PROVE  RunTypeInv'
<1>1. /\ phase = "scan" /\ cmd' = cmd /\ cmd \in Commands
      /\ phase' \in {"scan", "scanned", "done", "aborted"} /\ counter' \in Nat
  <2>1. phase = "scan" /\ cmd' = cmd
    BY DEF Flag, Text, ListText, Number, Who, BadNumber, Overlooked, Unused, Unknown,
           UnknownEnds, Help, HelpEnds, ShortShared, OptionsEnd, Scanning, Accept, Refuse
  <2>2. cmd \in Commands
    BY <2>1 DEF RunInv, CommandInv
  <2>3. phase' \in {"scan", "scanned", "done", "aborted"}
    BY <2>1 DEF Flag, Text, ListText, Number, Who, BadNumber, Overlooked, Unused, Unknown,
                UnknownEnds, Help, HelpEnds, ShortShared, OptionsEnd, Accept
  <2>4. counter' \in Nat
    <3>1. Scanning \/ UNCHANGED counter
      BY DEF Flag, Text, ListText, Number, Who, BadNumber, Overlooked, Unused, Unknown,
             UnknownEnds, Help, HelpEnds, ShortShared, OptionsEnd
    <3>2. counter \in Nat
      BY Zenon DEF RunTypeInv
    <3>3. QED
      BY <3>1, <3>2, OptionsAreCounted
  <2>5. QED
    BY <2>1, <2>2, <2>3, <2>4
<1>2. S' = S /\ Matters' = Matters
  BY <1>1, SameCommand DEF Matters
<1>3. filled' \subseteq Matters \cup S.lists
  <2>1. filled \subseteq Matters \cup S.lists
    BY DEF RunTypeInv
  <2>2. CASE Flag \/ Text \/ ListText \/ Number
    BY <2>1, <2>2 DEF Flag, Text, ListText, Number, Fill
  <2>3. CASE ShortShared
    BY <2>1, <2>3 DEF ShortShared, Fill, Refuse
  <2>4. CASE Who \/ BadNumber \/ Overlooked \/ Unused \/ Unknown \/ UnknownEnds \/ Help
             \/ HelpEnds \/ OptionsEnd
    BY <2>1, <2>4 DEF Who, BadNumber, Overlooked, Unused, Unknown, UnknownEnds, Help,
                      HelpEnds, OptionsEnd, Refuse
  <2>5. QED
    BY <2>2, <2>3, <2>4
<1>4. /\ UNCHANGED <<proxies, tokenReloaded, enterprise, call, succeeded, registered>>
      /\ result' \in {"ok", "invalid", "failed"}
      /\ output' \in {"", "help", "error", "success"}
  BY DEF Flag, Text, ListText, Number, Who, BadNumber, Overlooked, Unused, Unknown,
         UnknownEnds, Help, HelpEnds, ShortShared, OptionsEnd, Accept, Refuse, caller, outcome,
         RunTypeInv
<1>5. uid' \in Identities
  <2>1. CASE Who
    BY <2>1 DEF Who, SetUid, RunTypeInv, Identities
  <2>2. CASE ~Who
    BY <2>2 DEF Flag, Text, ListText, Number, BadNumber, Overlooked, Unused, Unknown,
                UnknownEnds, Help, HelpEnds, ShortShared, OptionsEnd, Refuse, caller,
                RunTypeInv
  <2>3. QED
    BY <2>1, <2>2
<1>6. QED
  BY <1>1, <1>2, <1>3, <1>4, <1>5 DEF RunTypeInv, Working

\* What is left of the line and the proxies is as it was; the identity is the line's or the
\* command's.
LEMMA AssumeKeepsTypes == ASSUME RunInv, RunTypeInv, Assume PROVE RunTypeInv'
<1>1. /\ phase' = "assumed" /\ cmd \in Commands
      /\ UNCHANGED <<cmd, proxies, counter, filled, identity, result, output>>
      /\ UNCHANGED <<call, succeeded, registered>>
  BY DEF Assume, outcome, RunInv, CommandInv
<1>2. S' = S /\ Matters' = Matters
  BY <1>1, SameCommand DEF Matters
<1>3. Wanted \in Identities
  <2>1. S.uid \in Identities
    BY <1>1 DEF S, Identities
  <2>2. identity = "none" \/ identity \in Identities
    BY DEF RunInv, IdentityInv, Identities
  <2>3. "root" \in Identities
    BY DEF Identities
  <2>4. QED
    BY <2>1, <2>2, <2>3 DEF Wanted
<1>4. uid' \in Identities
  BY <1>3 DEF Assume, SetUid, RunTypeInv
<1>5. tokenReloaded' \in BOOLEAN
  BY TokensAreVerdicts DEF Assume
<1>6. enterprise' \in BOOLEAN
  BY DEF Assume
<1>7. QED
  BY <1>1, <1>2, <1>4, <1>5, <1>6 DEF RunTypeInv, Working

\* A step that is neither of the scan nor assumes an identity changes no more than where
\* the run is, the proxies and what is told of the call.
LEMMA OtherStepsKeepTypes ==
  ASSUME RunInv, RunTypeInv,
         \/ OnCommand \/ StartScan \/ CheckLine \/ GetProxy \/ LateRefusal \/ Operation
         \/ Register \/ Unregister
  PROVE  RunTypeInv'
<1>1. UNCHANGED <<cmd, counter, filled, uid, enterprise>>
  BY DEF OnCommand, StartScan, CheckLine, GetProxy, LateRefusal, Operation, Register,
         Unregister, caller
<1>2. S' = S /\ Matters' = Matters
  BY <1>1, SameCommand DEF Matters
<1>3. phase' \in Working \cup {"command", "listening", "done", "aborted"}
  BY DEF OnCommand, StartScan, CheckLine, GetProxy, LateRefusal, Operation, Register,
         Unregister, Working
<1>4. \/ proxies' \in {{}, {"bundleMgr", "bundleInstaller", "bundleResource"}}
      \/ /\ cmd \in Commands
         /\ proxies' = {"bundleMgr", "bundleInstaller", "bundleResource"} \cup S.proxy
  <2>1. CASE GetProxy
    <3>1. /\ cmd \in Commands
          /\ {"bundleMgr", "bundleInstaller", "bundleResource"} \subseteq proxies
      BY <2>1 DEF GetProxy, RunInv, CommandInv
    <3>2. proxies' \in {proxies, proxies \cup S.proxy}
      BY <2>1 DEF GetProxy
    <3>3. QED
      BY <3>1, <3>2 DEF RunTypeInv
  <2>2. CASE ~GetProxy
    BY <2>2 DEF OnCommand, StartScan, CheckLine, LateRefusal, Operation, Register,
                Unregister, RunTypeInv
  <2>3. QED
    BY <2>1, <2>2
<1>5. result' \in {"ok", "invalid", "failed"}
  BY DEF OnCommand, StartScan, CheckLine, GetProxy, LateRefusal, Operation, Register,
         Unregister, RunTypeInv
<1>6. output' \in {"", "help", "error", "success"}
  BY DEF OnCommand, StartScan, CheckLine, GetProxy, LateRefusal, Operation, Told, Register,
         Unregister, RunTypeInv
<1>7. tokenReloaded' \in BOOLEAN
  BY DEF OnCommand, StartScan, CheckLine, GetProxy, LateRefusal, Operation, Register,
         Unregister, caller, RunTypeInv
<1>8. registered' \in BOOLEAN /\ succeeded' \in BOOLEAN /\ call' \in {"none", cmd}
  BY DEF OnCommand, StartScan, CheckLine, GetProxy, LateRefusal, Operation, Register,
         Unregister, outcome, RunTypeInv
<1>9. QED
  BY <1>1, <1>2, <1>3, <1>4, <1>5, <1>6, <1>7, <1>8 DEF RunTypeInv

\* The types of the test tool's variables hold in every reachable state.
THEOREM RunTypeCorrect == Spec => []RunTypeInv
<1>1. Init => RunTypeInv
  <2> SUFFICES ASSUME Init PROVE RunTypeInv
    OBVIOUS
  <2>1. uid \in Identities
    BY DEF Init, Identities
  <2>2. QED
    BY <2>1 DEF Init, RunTypeInv
<1>2. RunInv /\ RunTypeInv /\ [Next]_vars => RunTypeInv'
  <2> SUFFICES ASSUME RunInv, RunTypeInv, [Next]_vars PROVE RunTypeInv'
    OBVIOUS
  <2>1. CASE Next
    BY <2>1, ScanKeepsTypes, AssumeKeepsTypes, OtherStepsKeepTypes DEF Next
  <2>2. CASE UNCHANGED vars
    <3>1. S' = S /\ Matters' = Matters
      BY <2>2, SameCommand DEF vars, Matters
    <3>2. UNCHANGED <<cmd, phase, proxies, counter, filled, result, output, uid,
                      tokenReloaded, enterprise, call, succeeded, registered>>
      BY <2>2 DEF vars, caller, outcome
    <3>3. /\ phase' \in Working \cup {"command", "listening", "done", "aborted"}
          /\ counter' \in Nat /\ uid' \in Identities
          /\ result' \in {"ok", "invalid", "failed"}
          /\ output' \in {"", "help", "error", "success"}
      BY <3>2 DEF RunTypeInv
    <3>4. /\ tokenReloaded' \in BOOLEAN /\ enterprise' \in BOOLEAN
          /\ registered' \in BOOLEAN /\ succeeded' \in BOOLEAN
          /\ call' \in {"none", cmd'}
      BY <3>2 DEF RunTypeInv
    <3>5. QED
      BY <3>1, <3>2, <3>3, <3>4 DEF RunTypeInv, Working
  <2>3. QED
    BY <2>1, <2>2
<1>3. QED
  BY <1>1, <1>2, RunInductive, PTL DEF Spec

-----------------------------------------------------------------------------
(* The ability check: its invariant *)

\* The check's variables keep their types.
TypeInv ==
  /\ mutex \in Messages \cup {Command, Nobody}
  /\ dataReady \in BOOLEAN /\ sleeping \in BOOLEAN /\ alive \in BOOLEAN
  /\ stage \in {"lock", "call", "calling", "wait", "done"}
  /\ request \in {"none", "pending", "lost", "accepted", "refused"}
  /\ pc \in [Messages -> {"unsent", "lock", "check", "unlock", "done"}]
  /\ good \subseteq Messages

\* Between its lock and its unlock a message holds the mutex, and then nobody else does;
\* the command holds it through the call and has given it up while it sleeps.
MutualExclusion ==
  /\ \A m \in Messages : mutex = m <=> pc[m] \in {"check", "unlock"}
  /\ stage \in {"call", "calling"} => mutex = Command
  /\ mutex = Command => stage \in {"call", "calling", "wait"} /\ ~sleeping
  /\ sleeping => stage = "wait"

\* While the service lives, only an accepted check is waited for, and none ends unanswered.
ReplyInv ==
  /\ stage = "wait" => request = "accepted"
  /\ stage = "done" /\ alive => request \in {"accepted", "refused"}

\* The strengthening of the properties of the check.
CheckInv == TypeInv /\ MutualExclusion /\ ReplyInv /\ NoLostOrForgedWakeUp

-----------------------------------------------------------------------------

USE CheckAssumption

\* Nothing is locked, raised or sent before the check.
LEMMA InitCheckInv == CheckInit => CheckInv
<1> SUFFICES ASSUME CheckInit PROVE CheckInv
  OBVIOUS
<1> USE DEF CheckInit
<1>1. TypeInv
  BY DEF TypeInv
<1>2. MutualExclusion /\ ReplyInv /\ NoLostOrForgedWakeUp
  BY DEF MutualExclusion, ReplyInv, NoLostOrForgedWakeUp
<1>3. QED
  BY <1>1, <1>2 DEF CheckInv

\* What has to be shown of a step that raises no flag and takes none of the answers back.
LEMMA WakeUpKept ==
  ASSUME NoLostOrForgedWakeUp, UNCHANGED good,
         ~(sleeping' /\ dataReady'),
         dataReady' => dataReady,
         stage' = "done" /\ request' = "accepted" /\ alive' =>
           dataReady \/ (stage = "done" /\ request = "accepted" /\ alive),
         \A m \in good : pc[m] \in {"unlock", "done"} => pc'[m] \in {"unlock", "done"}
  PROVE  NoLostOrForgedWakeUp'
  BY DEF NoLostOrForgedWakeUp

-----------------------------------------------------------------------------
(* The steps of the checking command *)

\* The mutex is taken before the call and kept until the command waits or returns.
LEMMA LockCommandKeeps == ASSUME CheckInv, LockCommand \/ Call PROVE CheckInv'
<1> USE DEF CheckInv, LockCommand, Call
<1>1. TypeInv'
  BY DEF TypeInv
<1>2. MutualExclusion' /\ ReplyInv'
  BY DEF TypeInv, MutualExclusion, ReplyInv
<1>3. NoLostOrForgedWakeUp'
  BY WakeUpKept DEF NoLostOrForgedWakeUp
<1>4. QED
  BY <1>1, <1>2, <1>3

\* A refused call is not waited for, nor one of which a dead service never tells.
LEMMA CallReturnsKeeps == ASSUME CheckInv, CallReturns PROVE CheckInv'
<1> USE DEF CheckInv, CallReturns, Return
<1>1. TypeInv'
  BY DEF TypeInv
<1>2. MutualExclusion' /\ ReplyInv'
  BY DEF TypeInv, MutualExclusion, ReplyInv
<1>3. NoLostOrForgedWakeUp'
  BY WakeUpKept DEF NoLostOrForgedWakeUp
<1>4. QED
  BY <1>1, <1>2, <1>3

\* The command falls asleep on a flag that is down.
LEMMA SleepKeeps == ASSUME CheckInv, Sleep PROVE CheckInv'
<1> USE DEF CheckInv, Sleep
<1>1. TypeInv'
  BY DEF TypeInv
<1>2. MutualExclusion' /\ ReplyInv'
  BY DEF TypeInv, MutualExclusion, ReplyInv
<1>3. NoLostOrForgedWakeUp'
  BY WakeUpKept DEF NoLostOrForgedWakeUp
<1>4. QED
  BY <1>1, <1>2, <1>3

\* It wakes, for whatever reason, and takes the mutex when it is free.
LEMMA WakeKeeps == ASSUME CheckInv, Relock \/ SpuriousWakeUp PROVE CheckInv'
<1> USE DEF CheckInv, Relock, SpuriousWakeUp
<1>1. TypeInv'
  BY DEF TypeInv
<1>2. MutualExclusion' /\ ReplyInv'
  BY DEF TypeInv, MutualExclusion, ReplyInv
<1>3. NoLostOrForgedWakeUp'
  BY WakeUpKept DEF NoLostOrForgedWakeUp
<1>4. QED
  BY <1>1, <1>2, <1>3

\* The flag it returns on was raised by a message with the right token.
LEMMA ReadyKeeps == ASSUME CheckInv, Ready PROVE CheckInv'
<1> USE DEF CheckInv, Ready, Return
<1>1. TypeInv'
  BY DEF TypeInv
<1>2. MutualExclusion' /\ ReplyInv'
  BY DEF TypeInv, MutualExclusion, ReplyInv
<1>3. NoLostOrForgedWakeUp'
  BY WakeUpKept DEF NoLostOrForgedWakeUp
<1>4. QED
  BY <1>1, <1>2, <1>3

-----------------------------------------------------------------------------
(* The service's steps *)

\* The service replies to a pending call, of which the command still waits to hear.
LEMMA ServiceKeeps == ASSUME CheckInv, ServiceDecides \/ ServiceDies PROVE CheckInv'
<1> USE DEF CheckInv, ServiceDecides, ServiceDies
<1>1. TypeInv'
  BY DEF TypeInv
<1>2. MutualExclusion' /\ ReplyInv'
  BY DEF TypeInv, MutualExclusion, ReplyInv
<1>3. NoLostOrForgedWakeUp'
  BY WakeUpKept DEF NoLostOrForgedWakeUp, ReplyInv
<1>4. QED
  BY <1>1, <1>2, <1>3

\* A message that is sent has not been in the callback.
LEMMA ServiceSendsKeeps ==
  ASSUME NEW m \in Messages, CheckInv, ServiceSends(m) PROVE CheckInv'
<1> USE DEF CheckInv, ServiceSends
<1>1. TypeInv'
  BY DEF TypeInv
<1>2. MutualExclusion' /\ ReplyInv'
  BY DEF TypeInv, MutualExclusion, ReplyInv
<1>3. NoLostOrForgedWakeUp'
  <2>1. \A n \in good : pc[n] \in {"unlock", "done"} => pc'[n] \in {"unlock", "done"}
    BY DEF TypeInv
  <2>2. QED
    BY <2>1, WakeUpKept DEF NoLostOrForgedWakeUp
<1>4. QED
  BY <1>1, <1>2, <1>3

-----------------------------------------------------------------------------
(* The callback's steps *)

\* A message enters when neither the command nor another message is inside.
LEMMA LockMessageKeeps ==
  ASSUME NEW m \in Messages, CheckInv, LockMessage(m) PROVE CheckInv'
<1> USE DEF CheckInv, LockMessage
<1>1. TypeInv'
  BY DEF TypeInv
<1>2. MutualExclusion' /\ ReplyInv'
  BY DEF TypeInv, MutualExclusion, ReplyInv
<1>3. NoLostOrForgedWakeUp'
  <2>1. \A n \in good : pc[n] \in {"unlock", "done"} => pc'[n] \in {"unlock", "done"}
    BY DEF TypeInv
  <2>2. QED
    BY <2>1, WakeUpKept DEF NoLostOrForgedWakeUp
<1>4. QED
  BY <1>1, <1>2, <1>3

\* A message with the right token raises the flag and wakes the command; another one
\* leaves both.
LEMMA NotifyKeeps == ASSUME NEW m \in Messages, CheckInv, Notify(m) PROVE CheckInv'
<1> USE DEF CheckInv, Notify
<1>1. TypeInv'
  BY DEF TypeInv
<1>2. MutualExclusion' /\ ReplyInv'
  BY DEF TypeInv, MutualExclusion, ReplyInv
<1>3. /\ pc'[m] = "unlock"
      /\ \A n \in good : pc[n] \in {"unlock", "done"} => pc'[n] \in {"unlock", "done"}
  BY DEF TypeInv
<1>4. NoLostOrForgedWakeUp'
  <2>1. CASE m \in good
    BY <1>3, <2>1 DEF NoLostOrForgedWakeUp
  <2>2. CASE m \notin good
    BY <1>3, <2>2, WakeUpKept DEF NoLostOrForgedWakeUp
  <2>3. QED
    BY <2>1, <2>2
<1>5. QED
  BY <1>1, <1>2, <1>4

\* A message that leaves stays among those that have been through the callback.
LEMMA UnlockMessageKeeps ==
  ASSUME NEW m \in Messages, CheckInv, UnlockMessage(m) PROVE CheckInv'
<1> USE DEF CheckInv, UnlockMessage
<1>1. TypeInv'
  BY DEF TypeInv
<1>2. MutualExclusion' /\ ReplyInv'
  BY DEF TypeInv, MutualExclusion, ReplyInv
<1>3. NoLostOrForgedWakeUp'
  <2>1. \A n \in good : pc[n] \in {"unlock", "done"} => pc'[n] \in {"unlock", "done"}
    BY DEF TypeInv
  <2>2. QED
    BY <2>1, WakeUpKept DEF NoLostOrForgedWakeUp
<1>4. QED
  BY <1>1, <1>2, <1>3

-----------------------------------------------------------------------------
(* The invariant of the check and what it gives *)

\* Every step of the command, the service and the callback keeps the invariant.
LEMMA NextCheckInv == CheckInv /\ [CheckNext]_checkVars => CheckInv'
<1> SUFFICES ASSUME CheckInv, [CheckNext]_checkVars PROVE CheckInv'
  OBVIOUS
<1>1. CASE CheckOperation \/ SpuriousWakeUp
  BY <1>1, LockCommandKeeps, CallReturnsKeeps, SleepKeeps, WakeKeeps, ReadyKeeps
     DEF CheckOperation
<1>2. CASE ServiceDecides \/ ServiceDies
  BY <1>2, ServiceKeeps
<1>3. ASSUME NEW m \in Messages, ServiceSends(m) \/ OnRemoteRequest(m) PROVE CheckInv'
  BY <1>3, ServiceSendsKeeps, LockMessageKeeps, NotifyKeeps, UnlockMessageKeeps
     DEF OnRemoteRequest
<1>4. CASE UNCHANGED checkVars
  BY <1>4 DEF checkVars, CheckInv, TypeInv, MutualExclusion, ReplyInv, NoLostOrForgedWakeUp
<1>5. QED
  BY <1>1, <1>2, <1>3, <1>4 DEF CheckNext

\* The strengthening of the properties below holds in every reachable state.
THEOREM CheckInductive == CheckSpec => []CheckInv
  BY InitCheckInv, NextCheckInv, PTL DEF CheckSpec

\* Never two of the command and the messages are inside the mutex.
THEOREM OneHolder == CheckSpec => []MutualExclusion
<1>1. CheckInv => MutualExclusion
  BY DEF CheckInv
<1>2. QED
  BY <1>1, CheckInductive, PTL

\* The command never sleeps on a raised flag, and neither a flag nor the end of an accepted
\* check comes of anything but a message with the right token.
THEOREM WakeUps == CheckSpec => []NoLostOrForgedWakeUp
<1>1. CheckInv => NoLostOrForgedWakeUp
  BY DEF CheckInv
<1>2. QED
  BY <1>1, CheckInductive, PTL
=============================================================================
