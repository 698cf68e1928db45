----------------------------- MODULE MCImapView -----------------------------
(***************************************************************************)
(* Instances of ImapView for TLC.                                          *)
(***************************************************************************)
EXTENDS ImapView

CONSTANTS w1, w2

MCWritten == {{"Deleted"}}
MCRequested == {[op |-> "add", arg |-> {"Deleted"}]}
=============================================================================
