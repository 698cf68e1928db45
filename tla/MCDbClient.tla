----------------------------- MODULE MCDbClient -----------------------------
(***************************************************************************)
(* Instances of DbClient for TLC.                                          *)
(***************************************************************************)
EXTENDS DbClient
=============================================================================
