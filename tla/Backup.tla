------------------------------- MODULE Backup -------------------------------
(***************************************************************************)
(* oximailctl backup and restore (cmd/oximailctl/backup.go), with the      *)
(* store operations they rest on: RestoreMailbox, RestoreMessage,          *)
(* CreateAccount, DeleteAccount, and the reference counts of blobrefs.go.  *)
(*                                                                         *)
(* The commands are sequences of database calls made while the server goes *)
(* on delivering mail to the account.  What the server does to the account *)
(* is one step per operation here: MailStore has their database calls.     *)
(* One administrator runs the commands one after the other.                *)
(***************************************************************************)
EXTENDS Integers, Sequences, SequencesExt

CONSTANTS
    Name,         \* folder names
    Inbox,        \* the default folder
    MaxMail,      \* bound: messages delivered
    MaxOps,       \* bound: copies, expunges and folder deletions
    MaxRestores,  \* bound: runs of the restore command that are not refused
    MaxFaults,    \* bound: failing calls and killed commands
    MaxEvents     \* bound: deliveries, user operations and failures together

ASSUME BackupAssumption ==
    Inbox \in Name /\ {MaxMail, MaxOps, MaxRestores, MaxFaults, MaxEvents} \subseteq Nat

Key == 1 .. MaxMail

VARIABLES
    exists,    \* the account document is there
    boxes,     \* the account's mailbox rows in the order of their _id
    mail,      \* the account's message documents in the order of their _id
    settings,  \* which of the vacation rule and the Sieve script are there
    blobs,     \* keys present in the blob bucket
    refs,      \* refs[k]: the count in the blob_refs row of k, 0 without a row
    row,       \* row[k]: key k has a blob_refs row
    bk,        \* the backup command: its next call, and what it has written
    rs,        \* the restore command: its next call, and its local variables
    del,       \* the account deletion: the keys left to drop, the collections left
    sent,      \* messages delivered so far
    made,      \* folders created so far: the source of UIDVALIDITY
    ops,       \* user operations so far
    faults,    \* failures so far
    stray,     \* history: keys with a reference that no message has: their body went
               \* with a folder, the reference was taken while the account was being
               \* deleted, or the command that held it ended half way
    half,      \* history: an account deletion ended half way and was not completed
    grown,     \* history: folders that gave out a UID after the backup read them
    late,      \* history: grown, as the last restore found it
    early,     \* history: folders that a delivery created under the last restore
    shown      \* history: every UID a folder has ever shown, and for which body

live == <<exists, boxes, mail, settings, blobs, refs, row>>
history == <<sent, made, ops, faults, stray, half, grown, late, early, shown>>
vars == <<live, bk, rs, del, history>>

NoArchive == [pc |-> "idle", boxes |-> <<>>, files |-> <<>>, todo |-> {}, bodies |-> {},
              settings |-> {}, start |-> {}, skipped |-> {}, kept |-> {}]
NoRestore == [pc |-> "idle", runs |-> 0, ids |-> <<>>, pos |-> 1, seen |-> {}, undone |-> {}]
NoDelete == [todo |-> <<>>, left |-> <<>>]

Setting == {"vacations", "sieve_scripts"}

\* DropAccountCollections, then the account document.
Collections == <<"messages", "mailboxes", "vacations", "sieve_scripts", "expunge_log", "accounts">>

Deleting == del.left # <<>>

\* CreateMailbox: an empty folder whose UIDs start at 1; two folders are not
\* created in the same second, so UIDVALIDITY tells them apart.
NewBox(n, v) == [name |-> n, val |-> v, next |-> 1, live |-> TRUE]

Init ==
    /\ exists = TRUE
    /\ boxes = <<NewBox(Inbox, 1)>> \o SetToSeq({NewBox(n, 2) : n \in Name \ {Inbox}})
    /\ mail = <<>>
    /\ settings = Setting
    /\ blobs = {}
    /\ refs = [k \in Key |-> 0]
    /\ row = [k \in Key |-> FALSE]
    /\ bk = NoArchive /\ rs = NoRestore /\ del = NoDelete
    /\ sent = 0 /\ made = 2 /\ ops = 0 /\ faults = 0
    /\ stray = {} /\ half = FALSE /\ grown = {} /\ late = {} /\ early = {} /\ shown = {}

MayHappen == sent + ops + faults < MaxEvents

Fault == MayHappen /\ faults < MaxFaults /\ faults' = faults + 1

-----------------------------------------------------------------------------
(* The store.                                                              *)

\* GetMailboxByName: FindOne returns the first row of that name; 0 if none.
ByName(bs, n) ==
    LET found == {i \in DOMAIN bs : bs[i].live /\ bs[i].name = n} IN
    IF found = {} THEN 0 ELSE CHOOSE i \in found : \A j \in found : i <= j

Removes(k) == ~row[k] \/ refs[k] - 1 <= 0

BlobDropRef(k) ==
    /\ refs' = [refs EXCEPT ![k] = IF Removes(k) THEN 0 ELSE @ - 1]
    /\ row' = [row EXCEPT ![k] = @ /\ ~Removes(k)]
    /\ blobs' = IF Removes(k) THEN blobs \ {k} ELSE blobs

\* A folder gives out its next UID; the document is inserted.
Place(bs, b, k) ==
    /\ boxes' = [bs EXCEPT ![b].next = @ + 1]
    /\ mail' = Append(mail, [box |-> b, uid |-> bs[b].next, key |-> k])
    /\ shown' = shown \cup {[name |-> bs[b].name, val |-> bs[b].val,
                             uid |-> bs[b].next, key |-> k]}
    /\ grown' = IF bk.pc = "idle" THEN grown ELSE grown \cup {bs[b].name}

\* Folders a delivery to n creates first: EnsureDefaultMailboxes, then n itself.
Missing(n) ==
    IF ByName(boxes, n) # 0 THEN <<>>
    ELSE SelectSeq(IF n = Inbox THEN <<n>> ELSE <<Inbox, n>>, LAMBDA x : ByName(boxes, x) = 0)

WithFolder(n) == boxes \o [i \in DOMAIN Missing(n) |-> NewBox(Missing(n)[i], made + i)]

\* DeliverTo: look the folder up, create what is missing, AppendMessage.
DeliverTo(n) ==
    LET bs == WithFolder(n)
        k == sent + 1 IN
    /\ exists /\ sent < MaxMail /\ MayHappen
    /\ sent' = k
    /\ made' = made + Len(bs) - Len(boxes)
    /\ early' = IF rs.pc = "boxes" THEN early \cup {bs[i].name : i \in Len(boxes) + 1 .. Len(bs)}
                ELSE early
    /\ Place(bs, ByName(bs, n), k)
    /\ blobs' = blobs \cup {k}
    /\ refs' = [refs EXCEPT ![k] = 1]
    /\ row' = [row EXCEPT ![k] = TRUE]
    /\ stray' = IF Deleting THEN stray \cup {k} ELSE stray
    /\ UNCHANGED <<exists, settings, bk, rs, del, ops, faults, half, late>>

\* What the account's owner does, at any time.
Owner ==
    /\ exists /\ ops < MaxOps /\ MayHappen
    /\ ops' = ops + 1
    /\ UNCHANGED <<exists, settings, bk, del, sent, made, half, late, early>>

\* rs.undone: what the owner has removed under a restore or since.
Undo(things) == rs' = [rs EXCEPT !.undone = IF rs.pc = "idle" THEN @ ELSE @ \cup things]

CopyMessage ==
    /\ Owner
    /\ \E i \in DOMAIN mail, b \in DOMAIN boxes :
          LET k == mail[i].key IN
          /\ boxes[b].live /\ row[k]
          /\ refs' = [refs EXCEPT ![k] = @ + 1]
          /\ Place(boxes, b, k)
          /\ stray' = IF Deleting THEN stray \cup {k} ELSE stray
    /\ UNCHANGED <<rs, blobs, row, faults>>

\* The document goes first; when the reference cannot be dropped, it stays.
DeleteMessage ==
    /\ Owner
    /\ \E i \in DOMAIN mail :
          LET k == mail[i].key IN
          /\ mail' = RemoveAt(mail, i)
          /\ Undo({k})
          /\ \/ BlobDropRef(k) /\ UNCHANGED <<stray, faults>>
             \/ Fault /\ stray' = stray \cup {k} /\ UNCHANGED <<blobs, refs, row>>
    /\ UNCHANGED <<boxes, grown, shown>>

\* DeleteMailbox removes bodies and documents, and leaves the blob_refs rows.
DeleteMailbox ==
    /\ Owner
    /\ \E b \in DOMAIN boxes :
          LET gone == {mail[i].key : i \in {j \in DOMAIN mail : mail[j].box = b}} IN
          /\ boxes[b].live /\ boxes[b].name # Inbox
          /\ boxes' = [boxes EXCEPT ![b].live = FALSE]
          /\ mail' = SelectSeq(mail, LAMBDA m : m.box # b)
          /\ blobs' = blobs \ gone
          /\ stray' = stray \cup gone
          /\ Undo(gone \cup {boxes[b].name})
    /\ UNCHANGED <<refs, row, faults, grown, shown>>

-----------------------------------------------------------------------------
(* DeleteAccount: one reference per message listed, then the collections   *)
(* one by one, then the account document.  The server is not stopped: mail *)
(* is delivered and the owner goes on.                                     *)

CommandsIdle ==
    bk.pc \in {"idle", "done"} /\ rs.pc \in {"idle", "ok", "refused", "failed", "stuck"} /\ ~Deleting

StartDeleteAccount ==
    /\ exists /\ CommandsIdle
    /\ del' = [todo |-> [i \in DOMAIN mail |-> mail[i].key], left |-> Collections]
    /\ rs' = [NoRestore EXCEPT !.runs = rs.runs]
    /\ UNCHANGED <<live, bk, history>>

DropNext ==
    /\ Deleting /\ del.todo # <<>>
    /\ BlobDropRef(Head(del.todo))
    /\ del' = [del EXCEPT !.todo = Tail(@)]
    /\ UNCHANGED <<exists, boxes, mail, settings, bk, rs, history>>

\* A restored account has another id: with the account document, what is still
\* written to the old collections is out of reach.
DropCollection ==
    LET c == Head(del.left) IN
    /\ Deleting /\ del.todo = <<>>
    /\ mail' = IF c \in {"messages", "accounts"} THEN <<>> ELSE mail
    /\ boxes' = CASE c = "mailboxes" -> [i \in DOMAIN boxes |-> [boxes[i] EXCEPT !.live = FALSE]]
                  [] c = "accounts" -> <<>>
                  [] OTHER -> boxes
    /\ settings' = settings \ {c}
    /\ exists' = (c # "accounts")
    /\ half' = (half /\ c # "accounts")
    /\ del' = [del EXCEPT !.left = Tail(@)]
    /\ UNCHANGED <<blobs, refs, row, bk, rs, sent, made, ops, faults, stray, grown, late, early, shown>>

DeleteAccount == StartDeleteAccount \/ DropNext \/ DropCollection

-----------------------------------------------------------------------------
(* backup.                                                                 *)

RowsRead == SelectSeq([i \in DOMAIN boxes |-> [id |-> i, name |-> boxes[i].name,
                                               val |-> boxes[i].val, next |-> boxes[i].next,
                                               live |-> boxes[i].live]],
                      LAMBDA b : b.live)

\* GetAccount, ListMailboxes, then account.json and the settings.
StartBackup ==
    /\ exists /\ CommandsIdle /\ bk.pc = "idle" /\ rs.runs = 0
    /\ bk' = [bk EXCEPT !.pc = "files", !.boxes = RowsRead, !.settings = settings,
                        !.start = ToSet(mail)]
    /\ UNCHANGED <<live, rs, del, history>>

\* ListMessages of the next mailbox, whose row was read earlier.
BackupMailbox ==
    LET b == bk.boxes[Len(bk.files) + 1].id
        file == SelectSeq(mail, LAMBDA m : m.box = b) IN
    /\ bk.pc = "files" /\ Len(bk.files) < Len(bk.boxes)
    /\ bk' = [bk EXCEPT !.files = Append(@, file), !.todo = @ \cup {m.key : m \in ToSet(file)}]
    /\ UNCHANGED <<live, rs, del, history>>

\* FetchBody of one of the keys met; when it fails, because the body is missing or
\* for any other reason, the body is left out and the command goes on.
BackupBody ==
    /\ bk.pc = "files" /\ Len(bk.files) = Len(bk.boxes)
    /\ \E k \in bk.todo :
          \/ bk' = [bk EXCEPT !.todo = @ \ {k}, !.bodies = @ \cup ({k} \cap blobs)] /\ UNCHANGED faults
          \/ Fault /\ bk' = [bk EXCEPT !.todo = @ \ {k}, !.skipped = @ \cup {k}]
    /\ UNCHANGED <<live, rs, del, sent, made, ops, stray, half, grown, late, early, shown>>

\* What was in the account all the time, with a body in the archive or, at the end,
\* in the store.
Kept(bodies) == {m \in bk.start \cap ToSet(mail) : m.key \in bodies \ bk.skipped}

\* The command has ended; restore has the archive and not the rest.
Written(bodies) == [bk EXCEPT !.pc = "done", !.kept = Kept(bodies),
                              !.todo = {}, !.start = {}, !.skipped = {}]

\* manifest.json.
FinishBackup ==
    /\ bk.pc = "files" /\ Len(bk.files) = Len(bk.boxes) /\ bk.todo = {}
    /\ bk' = Written(blobs)
    /\ UNCHANGED <<live, rs, del, history>>

\* A list of messages cannot be read, or the archive cannot be written: the command
\* ends; what it has written is a readable archive, without a manifest, which
\* restore does not ask for.
StopBackup ==
    /\ bk.pc = "files" /\ Fault
    /\ bk' = Written(bk.bodies)
    /\ UNCHANGED <<live, rs, del, sent, made, ops, stray, half, grown, late, early, shown>>

BackupCommand == StartBackup \/ BackupMailbox \/ BackupBody \/ FinishBackup \/ StopBackup

-----------------------------------------------------------------------------
(* restore.                                                                *)

\* The messages of the archive in the order restore meets them, with the
\* position of their folder.
Archived == FlattenSeq([i \in DOMAIN bk.files |->
                           [j \in DOMAIN bk.files[i] |-> [file |-> i, msg |-> bk.files[i][j]]]])

\* GetAccount refuses an existing account; CreateAccount makes an empty one.
StartRestore ==
    /\ bk.pc = "done" /\ CommandsIdle /\ rs.runs < MaxRestores
    /\ IF exists
       THEN /\ rs' = [NoRestore EXCEPT !.pc = "refused", !.runs = rs.runs]
            /\ UNCHANGED <<exists, boxes, mail, late, early>>
       ELSE /\ rs' = [NoRestore EXCEPT !.pc = "boxes", !.runs = rs.runs + 1]
            /\ exists' = TRUE /\ boxes' = <<>> /\ mail' = <<>>
            /\ late' = grown /\ early' = {}
    /\ UNCHANGED <<settings, blobs, refs, row, bk, del, sent, made, ops, faults,
                   stray, half, grown, shown>>

\* RestoreMailbox: the row as it was read, under a new _id.
RestoredRow_Fresh(b) == NewBox(b.name, b.val)
RestoredRow(b) == [name |-> b.name, val |-> b.val, next |-> b.next, live |-> TRUE]

RestoreMailbox ==
    LET i == Len(rs.ids) + 1 IN
    /\ rs.pc = "boxes"
    /\ IF i <= Len(bk.files)
       THEN /\ boxes' = Append(boxes, RestoredRow(bk.boxes[i]))
            /\ rs' = [rs EXCEPT !.ids = Append(@, Len(boxes) + 1)]
       ELSE rs' = [rs EXCEPT !.pc = "put"] /\ UNCHANGED boxes
    /\ UNCHANGED <<exists, mail, settings, blobs, refs, row, bk, del, history>>

Current == Archived[rs.pos]

\* restore leaves out a message whose body the archive does not have.
Skipped(m) == m.key \notin bk.bodies

\* RestoreMessage, PutObject: the first message with a key brings the body.
RestoreBody ==
    LET k == Current.msg.key IN
    /\ rs.pc = "put" /\ rs.pos <= Len(Archived)
    /\ IF Skipped(Current.msg)
       THEN rs' = [rs EXCEPT !.pos = @ + 1] /\ UNCHANGED blobs
       ELSE /\ blobs' = IF k \in rs.seen THEN blobs ELSE blobs \cup ({k} \cap bk.bodies)
            /\ rs' = [rs EXCEPT !.pc = "ref"]
    /\ UNCHANGED <<exists, boxes, mail, settings, refs, row, bk, del, history>>

\* blobAddRef inserts the row, which a row left behind prevents: blob_key is
\* unique.  The body goes again and the command ends.  Later messages with the
\* same key increment the count.
RestoreRef ==
    LET k == Current.msg.key
        fresh == k \notin rs.seen IN
    /\ rs.pc = "ref"
    /\ IF fresh = row[k]
       THEN /\ rs' = [rs EXCEPT !.pc = "stuck"]
            /\ blobs' = IF fresh THEN blobs \ {k} ELSE blobs
            /\ UNCHANGED <<refs, row>>
       ELSE /\ rs' = [rs EXCEPT !.pc = "ins"]
            /\ refs' = [refs EXCEPT ![k] = @ + 1]
            /\ row' = [row EXCEPT ![k] = TRUE]
            /\ UNCHANGED blobs
    /\ UNCHANGED <<exists, boxes, mail, settings, bk, del, history>>

\* mbIDByName: the last folder restored under a name.
TargetBox_First(f) == rs.ids[1]
TargetBox(f) ==
    LET same == {i \in DOMAIN rs.ids : bk.boxes[i].name = bk.boxes[f].name} IN
    rs.ids[CHOOSE i \in same : \A j \in same : j <= i]

RestoreDoc ==
    LET m == Current.msg
        b == TargetBox(Current.file) IN
    /\ rs.pc = "ins"
    /\ mail' = Append(mail, [box |-> b, uid |-> m.uid, key |-> m.key])
    /\ shown' = shown \cup {[name |-> boxes[b].name, val |-> boxes[b].val,
                             uid |-> m.uid, key |-> m.key]}
    /\ rs' = [rs EXCEPT !.pc = "put", !.pos = @ + 1, !.seen = @ \cup {m.key}]
    /\ UNCHANGED <<exists, boxes, settings, blobs, refs, row, bk, del, sent, made, ops,
                   faults, stray, half, grown, late, early>>

\* SetVacation, then SetSieveScript, each when the archive has one; they end a
\* restore that has met no error.
FinishRestore ==
    /\ rs.pc = "put" /\ rs.pos > Len(Archived)
    /\ IF bk.settings \subseteq settings
       THEN rs' = [NoRestore EXCEPT !.pc = "ok", !.runs = rs.runs, !.undone = rs.undone] /\ UNCHANGED settings
       ELSE /\ settings' = settings \cup IF "vacations" \in bk.settings \ settings
                                         THEN {"vacations"} ELSE {"sieve_scripts"}
            /\ UNCHANGED rs
    /\ UNCHANGED <<exists, boxes, mail, blobs, refs, row, bk, del, history>>

RestoreCommand == \/ StartRestore \/ RestoreMailbox \/ RestoreBody
                  \/ RestoreRef \/ RestoreDoc \/ FinishRestore

-----------------------------------------------------------------------------
(* Failures of the commands.                                               *)

UndoRestore ==
    LET k == Current.msg.key IN
    CASE rs.pc = "ref" /\ k \notin rs.seen -> blobs' = blobs \ {k} /\ UNCHANGED <<refs, row>>
      [] rs.pc = "ins" -> BlobDropRef(k)
      [] OTHER -> UNCHANGED <<blobs, refs, row>>

RestoreError ==
    /\ rs.pc \in {"boxes", "put", "ref", "ins"} /\ Fault
    /\ UndoRestore
    /\ rs' = [rs EXCEPT !.pc = "failed"]
    /\ UNCHANGED <<exists, boxes, mail, settings, bk, del, sent, made, ops, stray, half, grown,
                   late, early, shown>>

\* The restore is killed, or cannot undo what it did, or a call of the account
\* deletion fails: the command ends where it stands.
Killed ==
    /\ rs.pc \in {"boxes", "put", "ref", "ins"} \/ Deleting
    /\ Fault
    /\ stray' = IF rs.pc = "ins" THEN stray \cup {Current.msg.key} ELSE stray
    /\ rs' = IF Deleting THEN rs ELSE [rs EXCEPT !.pc = "failed"]
    /\ del' = NoDelete
    /\ half' = (half \/ Deleting)
    /\ UNCHANGED <<live, bk, sent, made, ops, grown, late, early, shown>>

Next ==
    \/ \E n \in Name : DeliverTo(n)
    \/ CopyMessage
    \/ DeleteMessage
    \/ DeleteMailbox
    \/ DeleteAccount
    \/ BackupCommand
    \/ RestoreCommand
    \/ RestoreError
    \/ Killed

Spec == Init /\ [][Next]_vars

-----------------------------------------------------------------------------
(* Properties.                                                             *)

Docs(k) == {i \in DOMAIN mail : mail[i].key = k}

\* A restore that reports success has brought back, under its old UID and with
\* its body, every message that was in the account from the start of the backup
\* to its end (as far as the archive goes, of a backup that stopped), the ones
\* whose body the backup said it skipped and the ones the owner has removed since
\* left out; in a folder of the old name and UIDVALIDITY, which is the one the
\* name leads to unless a delivery created another under the restore.
RestoreExact ==
    rs.pc = "ok" =>
        /\ bk.settings \subseteq settings
        /\ \A i \in DOMAIN bk.boxes, m \in bk.kept :
              LET n == bk.boxes[i].name IN
              m.box = bk.boxes[i].id /\ {m.key, n} \cap rs.undone = {} =>
                  /\ m.key \in blobs
                  /\ \E d \in ToSet(mail) :
                        /\ d.key = m.key /\ d.uid = m.uid
                        /\ boxes[d.box].name = n /\ boxes[d.box].val = bk.boxes[i].val
                        /\ n \notin early => d.box = ByName(boxes, n)

\* A folder under one UIDVALIDITY never shows two messages under one UID, across
\* backup, deletion and restore, as long as the folder gave out no UID between
\* the moment the backup read its row and the restore (UIDNext of the archive).
UidsHold ==
    \A s, t \in shown : s.val = t.val /\ s.uid = t.uid /\ s.name \notin late => s.key = t.key


=============================================================================
