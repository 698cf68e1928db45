----------------------------- MODULE MCMigration -----------------------------
(***************************************************************************)
(* Two old servers for TLC.  The first has one account with two folders, a  *)
(* message, a rule and an expunge record, and a rule without an account_id. *)
(* The second has a second account, whose folder has an _id that will not   *)
(* be its _id in the account's own collection.                              *)
(***************************************************************************)
EXTENDS Migration

OneAccount == <<1>>
TwoAccounts == <<1, 2>>

RowOf(a, n, m) == [acct |-> a, name |-> n, mbox |-> m]

SmallServer ==
    [k \in Kind |->
        CASE k = "mailboxes"   -> <<RowOf(1, "INBOX", 0), RowOf(1, "Sent", 0)>>
          [] k = "messages"    -> <<RowOf(1, "", 2)>>
          [] k = "rules"       -> <<RowOf(1, "", 0), RowOf(0, "", 0)>>
          [] k = "expunge_log" -> <<RowOf(0, "", 1)>>]

SharedServer ==
    [k \in Kind |->
        CASE k = "mailboxes"   -> <<RowOf(1, "INBOX", 0), RowOf(2, "INBOX", 0)>>
          [] k = "messages"    -> <<RowOf(1, "", 1), RowOf(2, "", 2)>>
          [] OTHER             -> <<>>]
=============================================================================
