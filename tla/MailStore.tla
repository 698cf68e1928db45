------------------------------ MODULE MailStore ------------------------------
(***************************************************************************)
(* The message store of one account: internal/store/message.go,            *)
(* mailbox.go, blobrefs.go and expunge.go.                                 *)
(*                                                                         *)
(* Every exported operation of the store is a sequence of calls on the     *)
(* document database, each atomic, none grouped in a transaction.  A       *)
(* process (an IMAP session, a webmail request, an SMTP delivery) runs one *)
(* operation at a time; pc holds the next database call and loc what the   *)
(* operation has read or allocated so far.  A read whose only outcome is   *)
(* an early return that has changed nothing (GetMailbox, the first         *)
(* GetMessage) is folded into the start of its operation.                  *)
(* A call that fails has had no effect, and an insertion that succeeds     *)
(* answers with the _id.                                                   *)
(*                                                                         *)
(* A document id and a blob key are the number of the operation that       *)
(* creates them: the code only relies on both being fresh.                 *)
(***************************************************************************)
EXTENDS Integers, FiniteSets

CONSTANTS
    Proc,       \* concurrent callers of the store
    MboxId,     \* mailbox _ids, never reused by the database
    InitMbox,   \* the mailboxes that exist at the start
    Flag,       \* IMAP flags
    Roles,      \* Roles[p]: the operations process p calls
    MaxOps,     \* bound: operations started in a behaviour
    MayFail,    \* whether database calls may fail and the server may crash
    Null        \* no document, no row, no value

OpName == {"append", "copy", "move", "delete",
           "addflags", "removeflags", "setflags", "mkbox", "rmbox"}

OpId == 1 .. MaxOps
Doc == [mbox : MboxId, uid : Nat, seq : Nat, blob : OpId, flags : SUBSET Flag]

\* What an operation in flight carries: its name and number, its arguments, the
\* document it has read, the UID and mod-seq it has allocated, the flags it will
\* write, and the blobs DeleteMailbox still has to remove.
Local == [op : OpName, id : OpId, msg : OpId \cup {Null}, src : Doc \cup {Null},
          dest : MboxId \cup {Null}, uid : Nat, seq : Nat,
          arg : SUBSET Flag, flags : SUBSET Flag, todo : SUBSET OpId]

ASSUME ConstantsAssumption ==
    /\ InitMbox \subseteq MboxId
    /\ Roles \in [Proc -> SUBSET OpName]
    /\ MaxOps \in Nat
    /\ MayFail \in BOOLEAN
    /\ Null \notin Doc \cup Local \cup MboxId \cup Int

VARIABLES
    mbox,       \* mbox[b]: "none" before CreateMailbox, "live", then "gone"
    uidnext,    \* the uidnext field of the mailbox row
    highest,    \* the highest_modseq field of the mailbox row
    msgs,       \* msgs[i]: the message document with _id i, or Null
    blobs,      \* keys present in the blob bucket
    refs,       \* refs[k]: the count of the blob_refs row of key k, or Null
    explog,     \* rows of the expunge log
    used,       \* the account's used_bytes, every message having size 1
    ops,        \* operations started so far
    pc,         \* pc[p]: the next database call of p, "idle" between operations
    loc,        \* loc[p]: what p's operation has read and allocated, or Null
    placed,     \* history: every <<mailbox, UID>> a document has ever had
    acked,      \* history: flags of message i had its writes been applied in turn
    dangling,   \* history: keys whose body may go under a message: the count was bumped
                \* after it had dropped to 0, one message was deleted twice at once,
                \* or a folder deletion has removed the body
    vacated,    \* history: every <<mailbox, UID>> left without a record: by a move, or
                \* by a deletion that had read the message before it was moved
    faulted     \* history: a database call has failed or the server has crashed

vars == <<mbox, uidnext, highest, msgs, blobs, refs, explog, used,
          ops, pc, loc, placed, acked, dangling, vacated, faulted>>

Label == {"idle", "a_uid", "a_seq", "a_put", "a_ref", "a_ins", "a_undo", "a_used",
          "c_bump", "c_uid", "c_seq", "c_ins", "m_uid", "m_seq", "m_set",
          "d_seq", "d_doc", "r_dec", "r_row", "r_obj", "d_log", "d_used",
          "f_get", "f_seq", "f_set", "x_obj", "x_msgs", "x_mbox"}

Live(i) == msgs[i] # Null
Place(i) == <<msgs[i].mbox, msgs[i].uid>>
InMbox(b) == {i \in OpId : Live(i) /\ msgs[i].mbox = b}

\* CreateMailbox starts a mailbox's UIDs here.
FirstUid_Zero == 0
FirstUid == 1

Init ==
    /\ mbox = [b \in MboxId |-> IF b \in InitMbox THEN "live" ELSE "none"]
    /\ uidnext = [b \in MboxId |-> FirstUid]
    /\ highest = [b \in MboxId |-> 0]
    /\ msgs = [i \in OpId |-> Null]
    /\ blobs = {}
    /\ refs = [k \in OpId |-> Null]
    /\ explog = {}
    /\ used = 0
    /\ ops = 0
    /\ pc = [p \in Proc |-> "idle"]
    /\ loc = [p \in Proc |-> Null]
    /\ placed = {}
    /\ acked = [i \in OpId |-> {}]
    /\ dangling = {}
    /\ vacated = {}
    /\ faulted = FALSE

-----------------------------------------------------------------------------
(* Control: starting an operation, advancing it, returning from it.        *)

Blank(op) == [op |-> op, id |-> ops + 1, msg |-> Null, src |-> Null, dest |-> Null,
              uid |-> 0, seq |-> 0, arg |-> {}, flags |-> {}, todo |-> {}]

Begin(p, op, label, l) ==
    /\ pc[p] = "idle" /\ ops < MaxOps /\ op \in Roles[p]
    /\ ops' = ops + 1
    /\ pc' = [pc EXCEPT ![p] = label]
    /\ loc' = [loc EXCEPT ![p] = l]
    /\ UNCHANGED <<mbox, uidnext, highest, msgs, blobs, refs, explog, used,
                   placed, acked, dangling, vacated, faulted>>

\* p moves to label; loc is dropped when the operation returns.
Goto(p, label) ==
    /\ pc' = [pc EXCEPT ![p] = label]
    /\ loc' = IF label = "idle" THEN [loc EXCEPT ![p] = Null] ELSE loc

\* The mailbox whose counters p's operation advances.
Target(p) == IF loc[p].dest # Null THEN loc[p].dest ELSE loc[p].src.mbox

\* The UID NextUID hands out: the incremented counter minus one.
AllocatedUid(b) == uidnext[b]

\* $inc of uidnext by 1, in the same find_and_modify.
BumpedUidNext(b) == uidnext[b] + 1

\* $inc of highest_modseq by 1, in one find_and_modify.
BumpedModSeq(b) == highest[b] + 1

\* NextUID: one find_and_modify on the mailbox row.
NextUID(p, from, to, missing) ==
    /\ pc[p] = from
    /\ IF mbox[Target(p)] = "live"
       THEN /\ uidnext' = [uidnext EXCEPT ![Target(p)] = BumpedUidNext(Target(p))]
            /\ loc' = [loc EXCEPT ![p].uid = AllocatedUid(Target(p))]
            /\ pc' = [pc EXCEPT ![p] = to]
       ELSE Goto(p, missing) /\ UNCHANGED uidnext
    /\ UNCHANGED <<mbox, highest, msgs, blobs, refs, explog, used, ops,
                   placed, acked, dangling, vacated, faulted>>

\* NextModSeq: one find_and_modify on the mailbox row.
NextModSeq(p, from, to, missing) ==
    /\ pc[p] = from
    /\ IF mbox[Target(p)] = "live"
       THEN /\ highest' = [highest EXCEPT ![Target(p)] = BumpedModSeq(Target(p))]
            /\ loc' = [loc EXCEPT ![p].seq = highest[Target(p)] + 1]
            /\ pc' = [pc EXCEPT ![p] = to]
       ELSE Goto(p, missing) /\ UNCHANGED highest
    /\ UNCHANGED <<mbox, uidnext, msgs, blobs, refs, explog, used, ops,
                   placed, acked, dangling, vacated, faulted>>

\* Insert of a message document.
InsertDoc(p, d) ==
    /\ msgs' = [msgs EXCEPT ![loc[p].id] = d]
    /\ placed' = placed \cup {<<d.mbox, d.uid>>}
    /\ acked' = [acked EXCEPT ![loc[p].id] = d.flags]
    /\ UNCHANGED <<mbox, uidnext, highest, blobs, refs, explog, used, ops, dangling, vacated, faulted>>

-----------------------------------------------------------------------------
(* AppendMessage: UID, mod-seq, body blob, refcount row, document, usage.  *)

StartAppend(p) ==
    \E b \in MboxId : /\ mbox[b] = "live"
                      /\ Begin(p, "append", "a_uid", [Blank("append") EXCEPT !.dest = b])

PutBody(p) ==
    /\ pc[p] = "a_put"
    /\ blobs' = blobs \cup {loc[p].id}
    /\ Goto(p, "a_ref")
    /\ UNCHANGED <<mbox, uidnext, highest, msgs, refs, explog, used, ops, placed, acked, dangling, vacated, faulted>>

BlobAddRef(p) ==
    /\ pc[p] = "a_ref"
    /\ refs' = [refs EXCEPT ![loc[p].id] = 1]
    /\ Goto(p, "a_ins")
    /\ UNCHANGED <<mbox, uidnext, highest, msgs, blobs, explog, used, ops, placed, acked, dangling, vacated, faulted>>

InsertAppended(p) ==
    /\ pc[p] = "a_ins"
    /\ InsertDoc(p, [mbox |-> loc[p].dest, uid |-> loc[p].uid, seq |-> loc[p].seq,
                     blob |-> loc[p].id, flags |-> {}])
    /\ Goto(p, "a_used")

\* The error path of the refcount row and of the insert: DeleteObject only.
UndoBody(p) ==
    /\ pc[p] = "a_undo"
    /\ blobs' = blobs \ {loc[p].id}
    /\ Goto(p, "idle")
    /\ UNCHANGED <<mbox, uidnext, highest, msgs, refs, explog, used, ops, placed, acked, dangling, vacated, faulted>>

\* The account's usage grows by the size of the message.
AddedUsage == used + 1

AddUsage(p) ==
    /\ pc[p] = "a_used"
    /\ used' = AddedUsage
    /\ Goto(p, "idle")
    /\ UNCHANGED <<mbox, uidnext, highest, msgs, blobs, refs, explog, ops, placed, acked, dangling, vacated, faulted>>

AppendMessage(p) ==
    \/ StartAppend(p)
    \/ NextUID(p, "a_uid", "a_seq", "idle")
    \/ NextModSeq(p, "a_seq", "a_put", "idle")
    \/ PutBody(p)
    \/ BlobAddRef(p)
    \/ InsertAppended(p)
    \/ UndoBody(p)
    \/ AddUsage(p)

-----------------------------------------------------------------------------
(* CopyMessage: share the blob, then UID, mod-seq and document.            *)

StartCopy(p) ==
    \E i \in OpId, b \in MboxId :
        /\ Live(i) /\ mbox[b] = "live"
        /\ Begin(p, "copy", "c_bump",
                 [Blank("copy") EXCEPT !.msg = i, !.src = msgs[i], !.dest = b])

\* $inc of the blob_refs count by 1.
BumpedRef_Lost(k) == refs[k]
BumpedRef(k) == refs[k] + 1

BlobBumpRef(p) ==
    LET k == loc[p].src.blob IN
    /\ pc[p] = "c_bump"
    /\ IF refs[k] # Null
       THEN /\ refs' = [refs EXCEPT ![k] = BumpedRef(k)]
            /\ dangling' = IF refs[k] <= 0 THEN dangling \cup {k} ELSE dangling
            /\ Goto(p, "c_uid")
       ELSE Goto(p, "idle") /\ UNCHANGED <<refs, dangling>>
    /\ UNCHANGED <<mbox, uidnext, highest, msgs, blobs, explog, used, ops, placed, acked, vacated, faulted>>

InsertCopy(p) ==
    /\ pc[p] = "c_ins"
    /\ InsertDoc(p, [mbox |-> loc[p].dest, uid |-> loc[p].uid, seq |-> loc[p].seq,
                     blob |-> loc[p].src.blob, flags |-> loc[p].src.flags])
    /\ Goto(p, "idle")

CopyMessage(p) ==
    \/ StartCopy(p)
    \/ BlobBumpRef(p)
    \/ NextUID(p, "c_uid", "c_seq", "r_dec")
    \/ NextModSeq(p, "c_seq", "c_ins", "r_dec")
    \/ InsertCopy(p)

-----------------------------------------------------------------------------
(* MoveMessage: UID and mod-seq of the destination, then one update.       *)

StartMove(p) ==
    \E i \in OpId, b \in MboxId :
        /\ Live(i) /\ mbox[b] = "live" /\ msgs[i].mbox # b
        /\ Begin(p, "move", "m_uid",
                 [Blank("move") EXCEPT !.msg = i, !.src = msgs[i], !.dest = b])

\* The UID field a move writes.
MovedUid_Kept(p) == loc[p].src.uid
MovedUid(p) == loc[p].uid

SetMailbox(p) ==
    LET i == loc[p].msg IN
    /\ pc[p] = "m_set"
    /\ IF Live(i)
       THEN /\ msgs' = [msgs EXCEPT ![i].mbox = loc[p].dest, ![i].uid = MovedUid(p),
                                    ![i].seq = loc[p].seq]
            /\ placed' = placed \cup {<<loc[p].dest, MovedUid(p)>>}
            /\ vacated' = vacated \cup {Place(i)}
       ELSE UNCHANGED <<msgs, placed, vacated>>
    /\ Goto(p, "idle")
    /\ UNCHANGED <<mbox, uidnext, highest, blobs, refs, explog, used, ops, acked, dangling, faulted>>

MoveMessage(p) ==
    \/ StartMove(p)
    \/ NextUID(p, "m_uid", "m_seq", "idle")
    \/ NextModSeq(p, "m_seq", "m_set", "idle")
    \/ SetMailbox(p)

-----------------------------------------------------------------------------
(* DeleteMessage: mod-seq, document, refcount, expunge log, usage.         *)

StartDelete(p) ==
    \E i \in OpId :
        /\ Live(i)
        /\ Begin(p, "delete", "d_seq", [Blank("delete") EXCEPT !.msg = i, !.src = msgs[i]])

\* Delete by _id; that no document matched is not noticed.
DeleteDoc(p) ==
    LET i == loc[p].msg
        read == <<loc[p].src.mbox, loc[p].src.uid>> IN
    /\ pc[p] = "d_doc"
    /\ msgs' = [msgs EXCEPT ![i] = Null]
    /\ dangling' = IF Live(i) THEN dangling ELSE dangling \cup {loc[p].src.blob}
    /\ vacated' = IF Live(i) /\ Place(i) # read THEN vacated \cup {Place(i)} ELSE vacated
    /\ Goto(p, "r_dec")
    /\ UNCHANGED <<mbox, uidnext, highest, blobs, refs, explog, used, ops, placed, acked, faulted>>

\* Where blobDropRef returns to: DeleteMessage goes on, CopyMessage's error path ends.
AfterDrop_NoLog(p) == IF loc[p].op = "delete" THEN "d_used" ELSE "idle"
AfterDrop(p) == IF loc[p].op = "delete" THEN "d_log" ELSE "idle"

\* The count after the decrement at which the blob is removed.
LastReferrer_OffByOne(n) == n <= 1
LastReferrer(n) == n <= 0

\* blobDropRef, the decrement; without a row the blob is removed at once.
DecRef(p) ==
    LET k == loc[p].src.blob IN
    /\ pc[p] = "r_dec"
    /\ IF refs[k] = Null
       THEN Goto(p, "r_obj") /\ UNCHANGED refs
       ELSE /\ refs' = [refs EXCEPT ![k] = @ - 1]
            /\ Goto(p, IF LastReferrer(refs[k] - 1) THEN "r_row" ELSE AfterDrop(p))
    /\ UNCHANGED <<mbox, uidnext, highest, msgs, blobs, explog, used, ops, placed, acked, dangling, vacated, faulted>>

\* blobDropRef at zero: the row is deleted by key, whatever its count is now.
DeleteRefRow(p) ==
    /\ pc[p] = "r_row"
    /\ refs' = [refs EXCEPT ![loc[p].src.blob] = Null]
    /\ Goto(p, "r_obj")
    /\ UNCHANGED <<mbox, uidnext, highest, msgs, blobs, explog, used, ops, placed, acked, dangling, vacated, faulted>>

DeleteBody(p) ==
    /\ pc[p] = "r_obj"
    /\ blobs' = blobs \ {loc[p].src.blob}
    /\ Goto(p, AfterDrop(p))
    /\ UNCHANGED <<mbox, uidnext, highest, msgs, refs, explog, used, ops, placed, acked, dangling, vacated, faulted>>

BlobDropRef(p) == DecRef(p) \/ DeleteRefRow(p) \/ DeleteBody(p)

RecordExpunge(p) ==
    /\ pc[p] = "d_log"
    /\ explog' = explog \cup {[mbox |-> loc[p].src.mbox, uid |-> loc[p].src.uid,
                               seq |-> loc[p].seq]}
    /\ Goto(p, "d_used")
    /\ UNCHANGED <<mbox, uidnext, highest, msgs, blobs, refs, used, ops, placed, acked, dangling, vacated, faulted>>

SubUsage(p) ==
    /\ pc[p] = "d_used"
    /\ used' = used - 1
    /\ Goto(p, "idle")
    /\ UNCHANGED <<mbox, uidnext, highest, msgs, blobs, refs, explog, ops, placed, acked, dangling, vacated, faulted>>

DeleteMessage(p) ==
    \/ StartDelete(p)
    \/ NextModSeq(p, "d_seq", "d_doc", "idle")
    \/ DeleteDoc(p)
    \/ RecordExpunge(p)
    \/ SubUsage(p)

-----------------------------------------------------------------------------
(* SetFlags, AddFlags, RemoveFlags over modifyFlags: AddFlags and          *)
(* RemoveFlags compute the new list from a read that precedes              *)
(* modifyFlags, which reads again only to find the mailbox.                *)

\* The flag list the caller hands to modifyFlags, given the list it has read.
NewFlags(op, old, F) == CASE op = "addflags"    -> old \cup F
                          [] op = "removeflags" -> old \ F
                          [] op = "setflags"    -> F

\* What modifyFlags writes.
WrittenFlags(p) == loc[p].flags

StartFlags(p) ==
    \E op \in {"addflags", "removeflags", "setflags"}, i \in OpId, F \in SUBSET Flag :
        /\ Live(i)
        /\ Begin(p, op, "f_get",
                 [Blank(op) EXCEPT !.msg = i, !.arg = F,
                                   !.flags = NewFlags(op, msgs[i].flags, F)])

ReadForFlags(p) ==
    /\ pc[p] = "f_get"
    /\ IF Live(loc[p].msg)
       THEN /\ loc' = [loc EXCEPT ![p].src = msgs[loc[p].msg]]
            /\ pc' = [pc EXCEPT ![p] = "f_seq"]
       ELSE Goto(p, "idle")
    /\ UNCHANGED <<mbox, uidnext, highest, msgs, blobs, refs, explog, used, ops,
                   placed, acked, dangling, vacated, faulted>>

WriteFlags(p) ==
    LET i == loc[p].msg IN
    /\ pc[p] = "f_set"
    /\ IF Live(i)
       THEN /\ msgs' = [msgs EXCEPT ![i].flags = WrittenFlags(p), ![i].seq = loc[p].seq]
            /\ acked' = [acked EXCEPT ![i] = NewFlags(loc[p].op, @, loc[p].arg)]
       ELSE UNCHANGED <<msgs, acked>>
    /\ Goto(p, "idle")
    /\ UNCHANGED <<mbox, uidnext, highest, blobs, refs, explog, used, ops, placed, dangling, vacated, faulted>>

ModifyFlags(p) ==
    \/ StartFlags(p)
    \/ ReadForFlags(p)
    \/ NextModSeq(p, "f_seq", "f_set", "idle")
    \/ WriteFlags(p)

-----------------------------------------------------------------------------
(* CreateMailbox and DeleteMailbox.                                        *)

CreateMailbox(p) ==
    /\ pc[p] = "idle" /\ ops < MaxOps /\ "mkbox" \in Roles[p]
    /\ \E b \in MboxId : /\ mbox[b] = "none"
                         /\ mbox' = [mbox EXCEPT ![b] = "live"]
    /\ ops' = ops + 1
    /\ UNCHANGED <<uidnext, highest, msgs, blobs, refs, explog, used, pc, loc,
                   placed, acked, dangling, vacated, faulted>>

StartDeleteMailbox(p) ==
    \E b \in MboxId :
        LET todo == {msgs[i].blob : i \in InMbox(b)} IN
        /\ mbox[b] = "live"
        /\ Begin(p, "rmbox", IF todo = {} THEN "x_msgs" ELSE "x_obj",
                 [Blank("rmbox") EXCEPT !.dest = b, !.todo = todo])

\* One DeleteObject of the loop over the listed messages.
RemoveListedBody(p) ==
    /\ pc[p] = "x_obj"
    /\ \E k \in loc[p].todo :
          /\ blobs' = blobs \ {k}
          /\ loc' = [loc EXCEPT ![p].todo = @ \ {k}]
          /\ pc' = [pc EXCEPT ![p] = IF loc[p].todo = {k} THEN "x_msgs" ELSE "x_obj"]
          /\ dangling' = dangling \cup {k}
    /\ UNCHANGED <<mbox, uidnext, highest, msgs, refs, explog, used, ops, placed, acked, vacated, faulted>>

RemoveMessages(p) ==
    /\ pc[p] = "x_msgs"
    /\ msgs' = [i \in OpId |-> IF i \in InMbox(loc[p].dest) THEN Null ELSE msgs[i]]
    /\ Goto(p, "x_mbox")
    /\ UNCHANGED <<mbox, uidnext, highest, blobs, refs, explog, used, ops, placed, acked, dangling, vacated, faulted>>

RemoveMailbox(p) ==
    /\ pc[p] = "x_mbox"
    /\ mbox' = [mbox EXCEPT ![loc[p].dest] = "gone"]
    /\ Goto(p, "idle")
    /\ UNCHANGED <<uidnext, highest, msgs, blobs, refs, explog, used, ops, placed, acked, dangling, vacated, faulted>>

DeleteMailbox(p) ==
    \/ StartDeleteMailbox(p)
    \/ RemoveListedBody(p)
    \/ RemoveMessages(p)
    \/ RemoveMailbox(p)

-----------------------------------------------------------------------------
(* Failures.                                                               *)

\* Where an operation goes when the call at label l returns an error.
OnError_DeleteIgnored(l) == IF l = "d_doc" THEN "r_dec" ELSE "idle"
OnError(l) == CASE l \in {"a_ref", "a_ins"}          -> "a_undo"
                [] l \in {"c_uid", "c_seq", "c_ins"} -> "r_dec"
                [] l = "d_log"                       -> "d_used"
                [] OTHER                             -> "idle"

DbError(p) ==
    /\ MayFail /\ pc[p] # "idle"
    /\ Goto(p, OnError(pc[p]))
    /\ faulted' = TRUE
    /\ UNCHANGED <<mbox, uidnext, highest, msgs, blobs, refs, explog, used, ops,
                   placed, acked, dangling, vacated>>

\* The server stops: every operation is abandoned where it stands.
Crash ==
    /\ MayFail /\ \E p \in Proc : pc[p] # "idle"
    /\ pc' = [p \in Proc |-> "idle"]
    /\ loc' = [p \in Proc |-> Null]
    /\ faulted' = TRUE
    /\ UNCHANGED <<mbox, uidnext, highest, msgs, blobs, refs, explog, used, ops,
                   placed, acked, dangling, vacated>>

-----------------------------------------------------------------------------
Step(p) ==
    \/ AppendMessage(p)
    \/ CopyMessage(p)
    \/ MoveMessage(p)
    \/ DeleteMessage(p)
    \/ BlobDropRef(p)
    \/ ModifyFlags(p)
    \/ CreateMailbox(p)
    \/ DeleteMailbox(p)

Next == Crash \/ \E p \in Proc : Step(p) \/ DbError(p)

Spec == Init /\ [][Next]_vars

-----------------------------------------------------------------------------
(* Properties.                                                             *)

TypeOK ==
    /\ mbox \in [MboxId -> {"none", "live", "gone"}]
    /\ uidnext \in [MboxId -> Nat \ {0}]
    /\ highest \in [MboxId -> Nat]
    /\ msgs \in [OpId -> Doc \cup {Null}]
    /\ blobs \subseteq OpId
    /\ refs \in [OpId -> Int \cup {Null}]
    /\ explog \subseteq [mbox : MboxId, uid : Nat, seq : Nat]
    /\ used \in Int
    /\ ops \in 0 .. MaxOps
    /\ pc \in [Proc -> Label]
    /\ loc \in [Proc -> Local \cup {Null}]
    /\ \A p \in Proc : (pc[p] = "idle") <=> (loc[p] = Null)
    /\ placed \subseteq MboxId \X Nat
    /\ acked \in [OpId -> SUBSET Flag]
    /\ dangling \subseteq OpId
    /\ vacated \subseteq MboxId \X Nat
    /\ faulted \in BOOLEAN

\* Two messages of a mailbox never carry the same UID, whatever deliveries,
\* copies and moves run at once and wherever they fail (NextUID, mailbox.go).
UidsUnique ==
    \A i, j \in OpId :
        Live(i) /\ Live(j) /\ i # j /\ msgs[i].mbox = msgs[j].mbox
            => msgs[i].uid # msgs[j].uid

\* UIDNEXT as read by SELECT and STATUS is above every UID in the mailbox.
UidNextAhead == \A i \in OpId : Live(i) => msgs[i].uid < uidnext[msgs[i].mbox]

\* A UID that left a mailbox, by delete or by move, is never given to a
\* message of that mailbox again: "strictly increasing and never reused".
UidNeverReused ==
    [][\A i \in OpId :
          LET place == <<msgs'[i].mbox, msgs'[i].uid>> IN
          msgs'[i] # Null /\ (msgs[i] = Null \/ place # <<msgs[i].mbox, msgs[i].uid>>)
              => place \notin placed]_vars

\* VANISHED (EARLIER) never names a message that is still there: no live
\* message has the mailbox and UID of an expunge-log row (recordExpunge).
ExpungedIsGone ==
    \A e \in explog, i \in OpId :
        Live(i) => <<msgs[i].mbox, msgs[i].uid>> # <<e.mbox, e.uid>>

\* The body of every message can be fetched, except where a copy bumped a
\* count already at zero (the race the header of blobrefs.go accepts), two
\* deletions of one message overlapped, or its key was in a deleted folder.
BodyPresent == \A i \in OpId : Live(i) => msgs[i].blob \in blobs \cup dangling

\* The processes that hold a reference to key k that is in no document:
\* a copy between its bump and its insert, and a drop not yet made.
Holding(k) ==
    {p \in Proc : /\ pc[p] \in {"c_uid", "c_seq", "c_ins", "r_dec"}
                  /\ loc[p].src.blob = k}

\* The refcount of a blob is never below the number of its referrers.
RefsCover ==
    \A k \in OpId :
        refs[k] # Null /\ k \notin dangling =>
            refs[k] >= Cardinality({i \in OpId : Live(i) /\ msgs[i].blob = k})
                       + Cardinality(Holding(k))

\* A flag change is never lost: the flags are those of the completed STORE
\* commands applied one after the other ("so concurrent STORE commands on the
\* same message cannot lose a change", modifyFlags in message.go).
FlagsApplied == \A i \in OpId : Live(i) => msgs[i].flags = acked[i]

\* With no operation in flight and no call having failed, every UID that has
\* left a mailbox is in the expunge log, as QRESYNC's VANISHED answer needs,
\* except where a move was involved (recordExpunge is called by DeleteMessage).
VanishedIsLogged ==
    ~faulted /\ (\A p \in Proc : pc[p] = "idle") =>
        \A pl \in placed :
            \/ mbox[pl[1]] = "gone" \/ pl \in vacated
            \/ \E i \in OpId : Live(i) /\ Place(i) = pl
            \/ \E e \in explog : <<e.mbox, e.uid>> = pl
=============================================================================
