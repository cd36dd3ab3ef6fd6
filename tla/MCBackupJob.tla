----------------------------- MODULE MCBackupJob -----------------------------
(* Small instances of BackupJob for TLC.                                   *)
EXTENDS BackupJob
=============================================================================
