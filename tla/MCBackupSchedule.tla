-------------------------- MODULE MCBackupSchedule --------------------------
(* Instances of BackupSchedule for TLC.  The collectors are not declared   *)
(* symmetric, since the run checks liveness as well.                       *)
EXTENDS BackupSchedule
=============================================================================
