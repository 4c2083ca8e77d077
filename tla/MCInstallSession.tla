--------------------------- MODULE MCInstallSession ---------------------------
(***************************************************************************)
(* TLC's instance of InstallSession: one service that may answer once and  *)
(* die at any time.  The four refusals that InstallOperation translates    *)
(* stand for themselves, and one it passes on as it is.                    *)
(***************************************************************************)
EXTENDS InstallSession

MCTranslated ==
  [APPEXECFWK_INSTALL_PARAM_ERROR |-> "ERR_INSTALL_PARAM_ERROR",
   APPEXECFWK_INSTALL_INTERNAL_ERROR |-> "ERR_INSTALL_INTERNAL_ERROR",
   APPEXECFWK_INSTALL_FILE_PATH_INVALID |-> "ERR_INSTALL_FILE_PATH_INVALID",
   APPEXECFWK_INSTALL_DISK_MEM_INSUFFICIENT |-> "ERR_INSTALL_DISK_MEM_INSUFFICIENT",
   OtherRefusal |-> "OtherRefusal"]

MCRefusals == DOMAIN MCTranslated
=============================================================================
