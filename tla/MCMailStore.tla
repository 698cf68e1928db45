----------------------------- MODULE MCMailStore -----------------------------
(***************************************************************************)
(* Instances of MailStore for TLC.                                         *)
(***************************************************************************)
EXTENDS MailStore

CONSTANTS p1, p2, b1, b2

\* Two processes that call every operation, of which one changes flags.
StoreRoles ==
    [p \in Proc |-> IF p = p1 THEN OpName
                    ELSE OpName \ {"addflags", "removeflags", "setflags"}]

\* Sessions that add and remove flags.
FlagRoles == [p \in Proc |-> {"append", "addflags", "removeflags"}]
=============================================================================
