------------------------------ MODULE MCBackup ------------------------------
(***************************************************************************)
(* Instances of Backup for TLC: INBOX and one more folder.                 *)
(***************************************************************************)
EXTENDS Backup

CONSTANTS inbox, work
=============================================================================
