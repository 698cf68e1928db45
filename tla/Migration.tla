------------------------------ MODULE Migration ------------------------------
(***************************************************************************)
(* The move from shared collections to one collection per account          *)
(* (internal/store/migrate.go, run by EnsureSchema) and the command that    *)
(* repairs its duplicates (cmd/oximailctl/mailbox.go).  The daemon and the  *)
(* administration tool both call EnsureSchema when they start, so two       *)
(* migrations can run at once; each can die at any call and be run again.   *)
(*                                                                          *)
(* One step is one call to the database.  A per-account collection is the   *)
(* sequence of the documents inserted into it: the _id the database         *)
(* assigns is the position, counted per collection, and a deleted document  *)
(* is Null.  The collections vacations and sieve_scripts are handled by the *)
(* same code with the same key and are one collection, rules, here.         *)
(***************************************************************************)
EXTENDS Naturals, Sequences, FiniteSets

CONSTANTS
    Accounts,   \* the accounts, in the order ListAccounts returns them
    Legacy,     \* per kind, the rows of the shared collection; _id is the index
    MaxFaults,  \* bound on calls that fail and processes that die
    MaxRetries, \* bound on inserts the client repeats after a lost reply
    MaxStops,   \* bound on orderly stops of a process that has started
    MaxStarts,  \* bound on starts of the administration tool
    Null

Kind == {"mailboxes", "messages", "rules", "expunge_log"}
Proc == {"daemon", "ctl"}

\* A row's account_id is 0 when it has none; mbox is the mailbox_id a message
\* or an expunge-log row refers to, a mailbox of the shared collection.
Row == [acct : Nat, name : STRING, mbox : Nat]

RowId(k) == DOMAIN Legacy[k]
BoxId == RowId("mailboxes")
Account == {Accounts[i] : i \in DOMAIN Accounts}
AcctId == (Account \cup UNION {{Legacy[k][r].acct : r \in RowId(k)} : k \in Kind}) \ {0}

ASSUME ConstantsAssumption ==
    /\ Accounts \in Seq(Nat \ {0})
    /\ Legacy \in [Kind -> Seq(Row)]
    /\ Null \notin [row : Nat, mbox : Nat]
    /\ MaxFaults \in Nat /\ MaxRetries \in Nat /\ MaxStops \in Nat /\ MaxStarts \in Nat

VARIABLES
    legacy,   \* per kind, the rows still in the shared collection
    dropped,  \* the shared collections that have been dropped
    coll,     \* per kind and account, the documents inserted: the legacy row
              \* each was made from, and its mailbox_id
    pc,       \* what each process does next
    loc,      \* its local variables
    faults, retries, stops, starts,
    overlaps, \* starts made while the other process was migrating
    torn      \* deaths between a row's insert and its delete

vars == <<legacy, dropped, coll, pc, loc, faults, retries, stops, starts, overlaps, torn>>
bounds == <<faults, retries, stops, starts, overlaps, torn>>

Migrating == {"find", "scan", "row", "insert", "delete", "drop"}
Deduping == {"d_next", "d_move", "d_box"}

\* k: the collection at hand; todo: rows or documents not yet handled; accts:
\* accounts whose mailboxes are not yet scanned; owners: mailbox_id to account;
\* acct, pairs, pair: the account being deduplicated, its duplicates with the
\* mailbox each is merged into, and the one at hand.
NoOwners == [m \in BoxId |-> 0]
Idle == [k |-> "mailboxes", todo |-> {}, accts |-> <<>>, owners |-> NoOwners,
         acct |-> 0, pairs |-> {}, pair |-> <<0, 0>>]

\* A server with data in the old layout, and nothing yet in the new one.
Init ==
    /\ legacy = [k \in Kind |-> RowId(k)]
    /\ dropped = {}
    /\ coll = [k \in Kind |-> [a \in AcctId |-> <<>>]]
    /\ pc = [p \in Proc |-> "down"]
    /\ loc = [p \in Proc |-> Idle]
    /\ faults = 0 /\ retries = 0 /\ stops = 0 /\ starts = 0
    /\ overlaps = 0 /\ torn = 0

Least(S) == CHOOSE i \in S : \A j \in S : i <= j

\* The documents now in account a's collection of kind k, by _id.
Ids(k, a) == {i \in DOMAIN coll[k][a] : coll[k][a][i] # Null}
NameOf(d) == Legacy["mailboxes"][d.row].name

Goto(p, label) == pc' = [pc EXCEPT ![p] = label]
Give(p, f, v) == loc' = [loc EXCEPT ![p][f] = v]

-----------------------------------------------------------------------------
(* MigratePerAccount *)

\* EnsureSchema up to the first legacy collection.  The collections and their
\* indexes are created here; creating one again is no error.
Start(p) ==
    /\ pc[p] = "down"
    /\ p = "ctl" => starts < MaxStarts
    /\ starts' = IF p = "ctl" THEN starts + 1 ELSE starts
    /\ overlaps' = IF \E q \in Proc \ {p} : pc[q] \in Migrating THEN overlaps + 1 ELSE overlaps
    /\ Goto(p, "find")
    /\ loc' = [loc EXCEPT ![p] = Idle]
    /\ UNCHANGED <<legacy, dropped, coll, faults, retries, stops, torn>>

\* The order of the second pass.
NextKind(k) == CASE k = "mailboxes" -> "messages"
                 [] k = "messages"  -> "rules"
                 [] k = "rules"     -> "expunge_log"

\* Where a process goes when it is done with collection k, and with what.
Proceed(p, k) ==
    IF k = "expunge_log" THEN /\ Goto(p, "drop")
                              /\ loc' = [loc EXCEPT ![p] = Idle]
                         ELSE /\ Goto(p, "find")
                              /\ loc' = [loc EXCEPT ![p] = [Idle EXCEPT !.k = NextKind(k)]]

\* The loop over the rows of k goes on with those in todo, or is over.
Continue(p, k, todo) ==
    IF todo = {} THEN Proceed(p, k) ELSE Goto(p, "row") /\ Give(p, "todo", todo)

\* Find: the rows of the shared collection, read once.  A missing collection
\* and an empty one have nothing to move.
FindRows(p) ==
    LET k == loc[p].k
        found == IF k \in dropped THEN {} ELSE legacy[k]
    IN  /\ pc[p] = "find"
        /\ IF k = "expunge_log" /\ found # {}
           THEN /\ Goto(p, "scan")
                /\ loc' = [loc EXCEPT ![p] = [@ EXCEPT !.todo = found, !.accts = Accounts]]
           ELSE Continue(p, k, found)
        /\ UNCHANGED <<legacy, dropped, coll, bounds>>

\* buildMailboxOwnerIndex, one account: its mailboxes by the _id they have
\* there.  A later account overwrites an id an earlier one also has.
Owners(p, a) ==
    [m \in BoxId |-> IF m \in Ids("mailboxes", a) THEN a ELSE loc[p].owners[m]]

ScanOwners(p) ==
    /\ pc[p] = "scan"
    /\ IF loc[p].accts = <<>> THEN Goto(p, "row") /\ UNCHANGED loc
       ELSE /\ loc' = [loc EXCEPT ![p] = [@ EXCEPT !.accts = Tail(loc[p].accts),
                                                   !.owners = Owners(p, Head(loc[p].accts))]]
            /\ UNCHANGED pc
    /\ UNCHANGED <<legacy, dropped, coll, bounds>>

\* The account a row is moved to: its account_id, whether or not there is such
\* an account; for the expunge log, the owner of its mailbox_id.  0: nowhere.
Dest(p, r) ==
    LET row == Legacy[loc[p].k][r] IN
    IF loc[p].k = "expunge_log" THEN IF row.mbox \in BoxId THEN loc[p].owners[row.mbox] ELSE 0
                                ELSE row.acct

\* naturalKeyName and naturalKeyAccount; messages and the expunge log have no key.
Keyed_None(k) == FALSE
Keyed(k) == k \in {"mailboxes", "rules"}

\* FindOne by natural key: a document that makes the row a moved one.
Present(k, a, r) ==
    \E i \in Ids(k, a) : k = "mailboxes" => NameOf(coll[k][a][i]) = Legacy[k][r].name

\* A row of no account is left where it is.
SkipRow(p) ==
    LET r == Least(loc[p].todo) IN
    /\ pc[p] = "row" /\ Dest(p, r) = 0
    /\ Continue(p, loc[p].k, loc[p].todo \ {r})
    /\ UNCHANGED <<legacy, dropped, coll, bounds>>

\* The guard against moving a row again.
LookUp_KeepRow(p) ==
    LET k == loc[p].k
        r == Least(loc[p].todo)
    IN  /\ pc[p] = "row" /\ Dest(p, r) # 0 /\ Keyed(k)
        /\ IF Present(k, Dest(p, r), r) THEN Continue(p, k, loc[p].todo \ {r})
                                       ELSE Goto(p, "insert") /\ UNCHANGED loc
        /\ UNCHANGED <<legacy, dropped, coll, bounds>>
LookUp(p) ==
    LET k == loc[p].k
        r == Least(loc[p].todo)
    IN  /\ pc[p] = "row" /\ Dest(p, r) # 0 /\ Keyed(k)
        /\ Goto(p, IF Present(k, Dest(p, r), r) THEN "delete" ELSE "insert")
        /\ UNCHANGED <<legacy, dropped, coll, loc, bounds>>

\* The unique index on account_id, which the first pass gives the rules of
\* every account it found.
Refused(k, a) == k = "rules" /\ a \in Account /\ Ids(k, a) # {}

\* Insert of the row without its _id.  The client repeats a call whose reply
\* was lost, and then the document is there twice.
InsertRow(p) ==
    LET k == loc[p].k
        r == Least(loc[p].todo)
        a == Dest(p, r)
        doc == [row |-> r, mbox |-> Legacy[k][r].mbox]
    IN  /\ \/ pc[p] = "insert"
           \/ pc[p] = "row" /\ a # 0 /\ ~Keyed(k)
        /\ IF Refused(k, a)
           THEN Goto(p, "down") /\ UNCHANGED <<coll, retries>>
           ELSE \/ /\ coll' = [coll EXCEPT ![k][a] = Append(@, doc)]
                   /\ Goto(p, "delete") /\ UNCHANGED retries
                \/ /\ retries < MaxRetries /\ ~(k = "rules" /\ a \in Account)
                   /\ retries' = retries + 1
                   /\ coll' = [coll EXCEPT ![k][a] = @ \o <<doc, doc>>]
                   /\ Goto(p, "delete")
        /\ UNCHANGED <<legacy, dropped, loc, faults, stops, starts, overlaps, torn>>

\* Delete of the row from the shared collection; the other process may have
\* deleted it already.  When it has dropped the collection the call may fail.
DeleteRow(p) ==
    LET k == loc[p].k
        r == Least(loc[p].todo)
    IN  /\ pc[p] = "delete"
        /\ legacy' = [legacy EXCEPT ![k] = @ \ {r}]
        /\ \/ Continue(p, k, loc[p].todo \ {r})
           \/ k \in dropped /\ Goto(p, "down") /\ UNCHANGED loc
        /\ UNCHANGED <<dropped, coll, bounds>>

\* The last loop, one collection: Count, and DropCollection when it is empty.
\* Nothing is ever added to a shared collection, so an empty one stays empty
\* between the two calls.
Droppable_Always(k) == TRUE
Droppable(k) == legacy[k] = {}

DropLegacy(p) ==
    LET k == loc[p].k IN
    /\ pc[p] = "drop"
    /\ dropped' = IF Droppable(k) THEN dropped \cup {k} ELSE dropped
    /\ IF k = "expunge_log" THEN Goto(p, "up") /\ UNCHANGED loc
                            ELSE UNCHANGED pc /\ Give(p, "k", NextKind(k))
    /\ legacy' = IF Droppable(k) THEN [legacy EXCEPT ![k] = {}] ELSE legacy
    /\ UNCHANGED <<coll, bounds>>

\* A call fails, and MigratePerAccount or the command returns the error, or
\* the process dies.  What was written stays.
Fail(p) ==
    /\ pc[p] \in Migrating \cup Deduping
    /\ faults < MaxFaults
    /\ faults' = faults + 1
    /\ torn' = IF pc[p] = "delete" THEN torn + 1 ELSE torn
    /\ Goto(p, "down")
    /\ UNCHANGED <<legacy, dropped, coll, loc, retries, stops, starts, overlaps>>

\* The daemon is stopped, or the command is over.
Stop(p) ==
    /\ pc[p] = "up"
    /\ stops < MaxStops
    /\ stops' = stops + 1
    /\ Goto(p, "down")
    /\ UNCHANGED <<legacy, dropped, coll, loc, faults, retries, starts, overlaps, torn>>

-----------------------------------------------------------------------------
(* oximailctl mailbox dedupe *)

\* Of the mailboxes of one name the one with the lowest _id is kept.
Duplicates(a) ==
    LET named(i) == {j \in Ids("mailboxes", a) :
                        NameOf(coll["mailboxes"][a][j]) = NameOf(coll["mailboxes"][a][i])}
    IN  {<<Least(named(i)), i>> : i \in {j \in Ids("mailboxes", a) : j # Least(named(j))}}

\* dedupOneAccount: ListMailboxes and the grouping by name.
DedupeAccount(p) ==
    /\ p = "ctl" /\ pc[p] = "up"
    /\ \E a \in Account :
        /\ Duplicates(a) # {}
        /\ loc' = [loc EXCEPT ![p] = [Idle EXCEPT !.acct = a, !.pairs = Duplicates(a)]]
    /\ Goto(p, "d_next")
    /\ UNCHANGED <<legacy, dropped, coll, bounds>>

InBox(a, b) == {i \in Ids("messages", a) : coll["messages"][a][i].mbox = b}

\* ListMessages of the next duplicate; names come in no particular order.
DedupeBox(p) ==
    /\ pc[p] = "d_next"
    /\ \E pair \in loc[p].pairs :
        loc' = [loc EXCEPT ![p] = [@ EXCEPT !.pair = pair, !.todo = InBox(loc[p].acct, pair[2])]]
    /\ Goto(p, "d_move")
    /\ UNCHANGED <<legacy, dropped, coll, bounds>>

\* MoveMessage to the mailbox kept.  It fails when that mailbox is gone.
DedupeMove(p) ==
    LET a == loc[p].acct
        i == Least(loc[p].todo)
    IN  /\ pc[p] = "d_move" /\ loc[p].todo # {}
        /\ IF loc[p].pair[1] \in Ids("mailboxes", a) /\ i \in Ids("messages", a)
           THEN /\ coll' = [coll EXCEPT !["messages"][a][i].mbox = loc[p].pair[1]]
                /\ Give(p, "todo", loc[p].todo \ {i}) /\ UNCHANGED pc
           ELSE Goto(p, "down") /\ UNCHANGED <<coll, loc>>
        /\ UNCHANGED <<legacy, dropped, bounds>>

\* DeleteMailbox, first the messages that have the duplicate's id.
DedupeEmpty(p) ==
    LET a == loc[p].acct IN
    /\ pc[p] = "d_move" /\ loc[p].todo = {}
    /\ coll' = [coll EXCEPT !["messages"][a] =
                   [i \in DOMAIN @ |-> IF i \in InBox(a, loc[p].pair[2]) THEN Null ELSE @[i]]]
    /\ Goto(p, "d_box")
    /\ UNCHANGED <<legacy, dropped, loc, bounds>>

\* DeleteMailbox, then the mailbox document.
DedupeDrop(p) ==
    LET a == loc[p].acct
        left == loc[p].pairs \ {loc[p].pair}
    IN  /\ pc[p] = "d_box"
        /\ coll' = [coll EXCEPT !["mailboxes"][a][loc[p].pair[2]] = Null]
        /\ Give(p, "pairs", left)
        /\ Goto(p, IF left = {} THEN "up" ELSE "d_next")
        /\ UNCHANGED <<legacy, dropped, bounds>>

-----------------------------------------------------------------------------
Migrate(p) ==
    \/ FindRows(p) \/ ScanOwners(p) \/ SkipRow(p) \/ LookUp(p) \/ InsertRow(p) \/ DeleteRow(p) \/ DropLegacy(p)

Dedupe(p) ==
    \/ DedupeAccount(p) \/ DedupeBox(p) \/ DedupeMove(p) \/ DedupeEmpty(p) \/ DedupeDrop(p)

Next == \E p \in Proc : Start(p) \/ Migrate(p) \/ Dedupe(p) \/ Fail(p) \/ Stop(p)

Spec == Init /\ [][Next]_vars

\* The daemon runs, and its service manager starts it again when it exits.
\* Nothing is assumed of the tool: it may hang at any point.
LiveSpec == Spec /\ WF_vars(Start("daemon")) /\ WF_vars(Migrate("daemon"))

-----------------------------------------------------------------------------
(* Properties *)

\* Document i of account a's collection stands for row r: a mailbox has its
\* name, a rule is the account's, a message or a log row is made from it.
Stands(k, r, a, i) ==
    /\ k \in {"mailboxes", "rules"} => a = Legacy[k][r].acct
    /\ k = "mailboxes" => NameOf(coll[k][a][i]) = Legacy[k][r].name
    /\ k \in {"messages", "expunge_log"} => coll[k][a][i].row = r
Has(k, r) == \E a \in AcctId : \E i \in Ids(k, a) : Stands(k, r, a, i)

\* Whatever fails, however often it is repeated and whoever runs beside it, a
\* row is in the shared collection or has a document that stands for it.  The
\* dedupe command that follows loses none either (migrateLegacyCollection,
\* dedupOneAccount).
NoRowLost == \A k \in Kind : \A r \in RowId(k) : r \in legacy[k] \/ Has(k, r)

\* The documents made from row r of collection k.
CopyIds(k, r) == {d \in UNION {{a} \X Ids(k, a) : a \in AcctId} : coll[k][d[1]][d[2]].row = r}
Copies(k, r) == Cardinality(CopyIds(k, r))

\* A row is copied more than once only by a migration started while another
\* was running or by a repeated insert; a row without a natural key also by a
\* death between its insert and its delete.  So a restart loop does not
\* multiply the mailboxes, and an account never has two rules.
DuplicatesExplained ==
    /\ \A k \in Kind : \A r \in RowId(k) :
          Copies(k, r) <= 1 + overlaps + retries + (IF k \in {"mailboxes", "rules"} THEN 0 ELSE torn)
    /\ \A a \in Account : Cardinality(Ids("rules", a)) <= 1

\* After finitely many failures and stops the daemon is up for good, every row
\* that names an account has left the shared collections, and those that are
\* empty are dropped, whatever the tool does meanwhile (MigratePerAccount:
\* "the next startup resumes from wherever we left off").
Settled ==
    /\ pc["daemon"] = "up"
    /\ \A k \in Kind \ {"expunge_log"} : \A r \in legacy[k] : Legacy[k][r].acct = 0
    /\ \A k \in Kind : legacy[k] = {} => k \in dropped
Settles == <>[]Settled

\* A message that has been moved refers to the mailbox it was in: its
\* mailbox_id, looked up in the account's own collection, has the name it had
\* (migrateLegacyCollection moves "the document body ... unchanged").
ReferencesResolve ==
    \A a \in AcctId : \A i \in Ids("messages", a) :
        LET d == coll["messages"][a][i]
            was == Legacy["messages"][d.row].mbox
        IN  /\ d.mbox \in Ids("mailboxes", a)
            /\ NameOf(coll["mailboxes"][a][d.mbox]) = Legacy["mailboxes"][was].name
=============================================================================
