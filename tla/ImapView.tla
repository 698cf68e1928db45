------------------------------ MODULE ImapView ------------------------------
(***************************************************************************)
(* One IMAP connection's view of one mailbox: selectedMailbox in           *)
(* internal/imap/mailbox.go, the session commands that drive it, and the   *)
(* notifier hub that wakes it (internal/notifier/notifier.go).             *)
(*                                                                         *)
(* Three kinds of actors meet here.  Writers are the other connections,    *)
(* deliveries and webmail requests that change the mailbox in the store.   *)
(* The command goroutine runs SELECT and then one command at a time.  The  *)
(* watch goroutine receives from a channel of capacity one, lists the      *)
(* mailbox, and only then takes the lock to reconcile the snapshot.        *)
(*                                                                         *)
(* The store is the one of MailStore, reduced to what a view can see: the  *)
(* messages of this mailbox and its two counters.  A message that another  *)
(* connection moves away is, to this mailbox, deleted.                     *)
(***************************************************************************)
EXTENDS Integers, Sequences, SequencesExt

CONSTANTS
    Writer,     \* other actors that change the mailbox
    Flags,      \* IMAP flags, "Seen" and "Deleted" among them
    InitMsgs,   \* messages in the mailbox at the start, with UIDs 1 .. InitMsgs
    MaxUid,     \* bound: UIDs allocated
    MaxModSeq,  \* bound: mod-sequences allocated
    MaxWrites,  \* bound: changes other writers start
    MaxCmds,    \* bound: commands the client sends after SELECT
    Written,    \* the flag sets other writers give a message
    Requested,  \* the flag changes the client asks for, as [op, arg]
    QResync     \* whether the client has enabled QRESYNC

ASSUME ViewAssumption ==
    /\ InitMsgs \in Nat
    /\ MaxUid \in Nat
    /\ MaxModSeq \in Nat
    /\ MaxWrites \in Nat
    /\ MaxCmds \in Nat
    /\ Written \subseteq SUBSET Flags
    /\ Requested \subseteq [op : {"set", "add", "del"}, arg : SUBSET Flags]
    /\ QResync \in BOOLEAN

Uid == 1 .. MaxUid
Msg == [uid : Uid, modseq : 0 .. MaxModSeq, flags : SUBSET Flags]

VARIABLES
    stored,     \* stored[u]: the message of the mailbox with UID u, in the store
    uidnext,    \* the mailbox row's uidnext
    highest,    \* the mailbox row's highest_modseq
    wr,         \* wr[w]: what writer w is doing
    phase,      \* of the view: "none", "row", "listed", "open", "closed"
    msgs,       \* selectedMailbox.msgs
    uidNext,    \* selectedMailbox.uidNext
    tracked,    \* the message count the tracker believes in
    chan,       \* whether the subscription's channel holds a wake-up
    reading,    \* the list refresh has read and not yet applied: no or one element
    cmd,        \* the command in progress
    sent,       \* commands the client has sent
    writes,     \* changes other writers have started
    own,        \* history: UIDs this session has appended
    taken,      \* history: stored UIDs that a refresh has removed from the view
    moved,      \* history: UIDs the MOVE in progress has relocated
    shifted,    \* history: a refresh removed entries between MOVE's two halves
    blind,      \* history: the last refresh could not list the mailbox
    missed      \* history: UIDs changed since the last list without an announcement that
                \* the subscription heard, or that MOVE has dropped for another message

store == <<stored, uidnext, highest>>
others == <<wr, writes>>
view == <<phase, msgs, uidNext, tracked>>
hist == <<own, taken, moved, shifted, blind, missed>>
vars == <<store, others, view, chan, reading, cmd, sent, hist>>

NoList == {}
Idle == [pc |-> "idle", todo |-> <<>>, op |-> "add", arg |-> {}, floor |-> 0,
         modseq |-> 0, flags |-> {}, done |-> <<>>]
Resting == [pc |-> "idle", op |-> "deliver", uid |-> 0, modseq |-> 0, flags |-> {}]

Init ==
    /\ stored = [u \in 1 .. InitMsgs |-> [uid |-> u, modseq |-> 1, flags |-> {}]]
    /\ uidnext = InitMsgs + 1
    /\ highest = 1
    /\ wr = [w \in Writer |-> Resting] /\ writes = 0
    /\ phase = "none" /\ msgs = <<>> /\ uidNext = 0 /\ tracked = 0
    /\ chan = FALSE /\ reading = NoList /\ cmd = Idle /\ sent = 0
    /\ own = {} /\ taken = {} /\ moved = {} /\ shifted = FALSE /\ blind = FALSE
    /\ missed = {}

-----------------------------------------------------------------------------
(* The store.                                                              *)

Stored == DOMAIN stored
Without(u) == [v \in Stored \ {u} |-> stored[v]]
With(m) == [v \in Stored \cup {m.uid} |-> IF v = m.uid THEN m ELSE stored[v]]

\* ListMessages: the mailbox's messages by ascending UID.
List == [i \in 1 .. Len(SetToSortSeq(Stored, <)) |-> stored[SetToSortSeq(Stored, <)[i]]]

\* Hub.Notify: a wake-up for the subscription, dropped when one is waiting.
Notified == phase = "open"

UidsOf(s) == {s[i].uid : i \in DOMAIN s}
IndexOf(s, u) == CHOOSE i \in DOMAIN s : s[i].uid = u
View == UidsOf(msgs)
Local(u) == msgs[IndexOf(msgs, u)]

-----------------------------------------------------------------------------
(* The other writers: AppendMessage and the store's other ways to file a   *)
(* message, modifyFlags, DeleteMessage, DeleteMailbox.  Each allocates,    *)
(* writes and notifies; DeleteMailbox does not notify.                     *)

\* The view of a closed mailbox is nobody's: nothing after that is of interest.
Begin(w) == /\ wr[w].pc = "idle" /\ writes < MaxWrites /\ phase # "closed"
            /\ writes' = writes + 1

Deliver(w) ==
    /\ Begin(w) /\ uidnext <= MaxUid /\ highest < MaxModSeq
    /\ wr' = [wr EXCEPT ![w] = [pc |-> "write", op |-> "deliver", uid |-> uidnext,
                                modseq |-> highest + 1, flags |-> {}]]
    /\ uidnext' = uidnext + 1 /\ highest' = highest + 1
    /\ UNCHANGED <<stored, view, chan, reading, cmd, sent, hist>>

ChangeFlags(w) ==
    /\ Begin(w) /\ highest < MaxModSeq
    /\ \E u \in Stored, f \in Written :
         wr' = [wr EXCEPT ![w] = [pc |-> "write", op |-> "flags", uid |-> u,
                                  modseq |-> highest + 1, flags |-> f]]
    /\ highest' = highest + 1
    /\ UNCHANGED <<stored, uidnext, view, chan, reading, cmd, sent, hist>>

Delete(w) ==
    /\ Begin(w)
    /\ \E u \in Stored :
         wr' = [wr EXCEPT ![w] = [Resting EXCEPT !.pc = "write", !.op = "delete",
                                                 !.uid = u]]
    /\ UNCHANGED <<store, view, chan, reading, cmd, sent, hist>>

\* A change of u that nobody is told of.
Unannounced(us) == missed' = IF phase \in {"listed", "open"} THEN missed \cup us ELSE missed

\* The store operation returns an error after the change: the answer to it was lost,
\* or a later call failed (DeleteMessage's blobDropRef, AppendMessage's insertedID).
\* It returns before its Notify.
Write(w) ==
    /\ wr[w].pc = "write"
    /\ LET m == [uid |-> wr[w].uid, modseq |-> wr[w].modseq, flags |-> wr[w].flags]
       IN stored' = CASE wr[w].op = "deliver" -> With(m)
                      [] wr[w].op = "delete" -> Without(m.uid)
                      [] OTHER -> IF m.uid \in Stored THEN With(m) ELSE stored
    /\ \/ wr' = [wr EXCEPT ![w].pc = "notify"] /\ UNCHANGED missed
       \/ wr' = [wr EXCEPT ![w] = Resting] /\ Unannounced({wr[w].uid})
    /\ UNCHANGED <<writes, uidnext, highest, view, chan, reading, cmd, sent,
                   own, taken, moved, shifted, blind>>

\* The folder's messages go, and then its row, after which no change begins.
DeleteMailbox(w) ==
    /\ Begin(w)
    /\ stored' = <<>>
    /\ Unannounced(Stored)
    /\ UNCHANGED <<wr, uidnext, highest, view, chan, reading, cmd, sent,
                   own, taken, moved, shifted, blind>>

Notify(w) ==
    /\ wr[w].pc = "notify"
    /\ chan' = (chan \/ Notified)
    /\ missed' = IF phase = "listed" THEN missed \cup {wr[w].uid} ELSE missed
    /\ wr' = [wr EXCEPT ![w] = Resting]
    /\ UNCHANGED <<writes, store, view, reading, cmd, sent,
                   own, taken, moved, shifted, blind>>

-----------------------------------------------------------------------------
(* SELECT and the end of the view.  The mailbox row is read first, then    *)
(* the messages, and only then is the subscription opened.                 *)

SelectRow ==
    /\ phase = "none"
    /\ phase' = "row" /\ uidNext' = uidnext
    /\ UNCHANGED <<store, others, msgs, tracked, chan, reading, cmd, sent, hist>>

SelectList ==
    /\ phase = "row"
    /\ phase' = "listed" /\ msgs' = List /\ tracked' = Len(List)
    /\ UNCHANGED <<store, others, uidNext, chan, reading, cmd, sent, hist>>

Subscribe ==
    /\ phase = "listed"
    /\ phase' = "open"
    /\ UNCHANGED <<store, others, msgs, uidNext, tracked, chan, reading, cmd, sent, hist>>

\* Close: the session commands are over; a refresh still running works on an
\* object nobody reads any more.
Close ==
    /\ phase = "open" /\ cmd = Idle
    /\ phase' = "closed" /\ msgs' = <<>> /\ uidNext' = 0 /\ tracked' = 0
    /\ chan' = FALSE /\ reading' = NoList
    /\ own' = {} /\ taken' = {} /\ moved' = {} /\ shifted' = FALSE /\ blind' = FALSE
    /\ missed' = {}
    /\ UNCHANGED <<store, others, cmd, sent>>

-----------------------------------------------------------------------------
(* The watch goroutine.                                                    *)

\* m.mu is held by a command across its store calls, except APPEND's and the
\* gap between the two halves of MOVE.
Locked == cmd.pc \in {"flags", "flags_set", "flags_read", "expunge", "move"}

\* watch: receive the wake-up, and refresh's ListMessages, before the lock.
WakeTaken_After == chan
WakeTaken == FALSE
Wake ==
    /\ phase = "open" /\ chan /\ reading = NoList
    /\ chan' = WakeTaken /\ reading' = {List}
    /\ missed' = {} /\ blind' = FALSE
    /\ UNCHANGED <<store, others, view, cmd, sent, own, taken, moved, shifted>>

\* refresh returns when the list cannot be read; the wake-up is spent.
WakeFails ==
    /\ phase = "open" /\ chan /\ reading = NoList
    /\ chan' = FALSE /\ blind' = TRUE
    /\ UNCHANGED <<store, others, view, reading, cmd, sent, own, taken, moved, shifted, missed>>

Latest == CHOOSE l \in reading : TRUE

\* refresh, delta (2): snapshot entries that the list lacks.
Survivors_Exact == SelectSeq(msgs, LAMBDA m : \E i \in DOMAIN Latest : Latest[i] = m)
Survivors == SelectSeq(msgs, LAMBDA m : m.uid \in UidsOf(Latest))

\* refresh, delta (3): entries whose mod-sequence has advanced in the list.
Freshened(s) ==
    [i \in DOMAIN s |->
        LET fresh == Latest[IndexOf(Latest, s[i].uid)]
        IN IF fresh.modseq <= s[i].modseq THEN s[i] ELSE fresh]

\* refresh, delta (1): list entries from uidNext on that the snapshot lacks.
Arrivals == SelectSeq(Latest, LAMBDA m : m.uid >= uidNext /\ m.uid \notin View)

\* The count the tracker ends with: one less per EXPUNGE, then the announced one.
Recount_NoExpunge(s) == IF Arrivals # <<>> THEN Len(s) ELSE tracked
Recount(s) ==
    IF Arrivals # <<>> THEN Len(s) ELSE tracked - (Len(msgs) - Len(Survivors))

RaisedTo(n, s) == IF s = <<>> \/ s[Len(s)].uid < n THEN n ELSE s[Len(s)].uid + 1

\* A wake-up that came in meanwhile stays for the next round.
ChanKept_Drained == FALSE
ChanKept == chan
Refresh ==
    /\ phase = "open" /\ reading # NoList /\ ~Locked
    /\ msgs' = Freshened(Survivors) \o Arrivals
    /\ tracked' = Recount(msgs')
    /\ uidNext' = RaisedTo(uidNext, Arrivals)
    /\ reading' = NoList /\ chan' = ChanKept
    /\ taken' = taken \cup ((View \ UidsOf(Survivors)) \cap Stored)
    /\ shifted' = (shifted \/ (cmd.pc = "move_drop" /\ Len(Survivors) < Len(msgs)))
    /\ UNCHANGED <<store, others, phase, cmd, sent, own, moved, blind, missed>>
-----------------------------------------------------------------------------
(* The session's commands.  numSet is the set of UIDs the client names,    *)
(* and the walk over it follows the snapshot's order.                      *)

Chosen(S) == SelectSeq([i \in DOMAIN msgs |-> msgs[i].uid], LAMBDA u : u \in S)
Start(pc, todo) == [Idle EXCEPT !.pc = pc, !.todo = todo]
Done == cmd' = Idle
Request == /\ phase = "open" /\ cmd = Idle /\ sent < MaxCmds
           /\ sent' = sent + 1

\* storeFlags: forEach with the lock held over every message named.
Store ==
    /\ Request
    /\ \E S \in SUBSET View \ {{}}, r \in Requested,
          n \in {0} \cup {Local(u).modseq : u \in View} :
         cmd' = [Start("flags", Chosen(S)) EXCEPT !.op = r.op, !.arg = r.arg, !.floor = n]
    /\ UNCHANGED <<store, others, view, chan, reading, hist>>

\* fetch of a body section without PEEK: AddFlags(\Seen) where it is missing.
Fetch ==
    /\ Request
    /\ \E S \in SUBSET {u \in View : "Seen" \notin Local(u).flags} \ {{}} :
         cmd' = [Start("flags", Chosen(S)) EXCEPT !.arg = {"Seen"}]
    /\ UNCHANGED <<store, others, view, chan, reading, hist>>

Applied(old) == CASE cmd.op = "set" -> cmd.arg
                  [] cmd.op = "add" -> old \cup cmd.arg
                  [] OTHER -> old \ cmd.arg

\* One message: the UNCHANGEDSINCE test on the snapshot's mod-sequence, then
\* GetMessage and NextModSeq inside the store's SetFlags, AddFlags, RemoveFlags.  A
\* store call that fails ends the command, and so does the bound.
FlagsNext ==
    /\ cmd.pc = "flags"
    /\ \/ Done /\ UNCHANGED highest
       \/ /\ cmd.todo # <<>> /\ cmd.floor # 0 /\ Local(Head(cmd.todo)).modseq > cmd.floor
          /\ cmd' = [cmd EXCEPT !.todo = Tail(@)]
          /\ UNCHANGED highest
       \/ /\ cmd.todo # <<>> /\ (cmd.floor = 0 \/ Local(Head(cmd.todo)).modseq <= cmd.floor)
          /\ Head(cmd.todo) \in Stored /\ highest < MaxModSeq
          /\ highest' = highest + 1
          /\ cmd' = [cmd EXCEPT !.pc = "flags_set", !.modseq = highest + 1,
                                !.flags = Applied(stored[Head(cmd.todo)].flags)]
    /\ UNCHANGED <<stored, uidnext, others, view, chan, reading, sent, hist>>

\* modifyFlags' find_and_modify and its Notify; ErrNotFound ends the command, and
\* so does an answer that is lost.
FlagsSet ==
    /\ cmd.pc = "flags_set"
    /\ LET u == Head(cmd.todo)
       IN IF u \in Stored
          THEN /\ stored' = With([uid |-> u, modseq |-> cmd.modseq, flags |-> cmd.flags])
               /\ \/ /\ cmd' = [cmd EXCEPT !.pc = "flags_read"]
                     /\ chan' = (chan \/ Notified) /\ UNCHANGED missed
                  \/ Done /\ Unannounced({u}) /\ UNCHANGED chan
          ELSE Done /\ UNCHANGED <<stored, chan, missed>>
    /\ UNCHANGED <<uidnext, highest, others, view, reading, sent, own, taken, moved, shifted, blind>>

\* The snapshot takes the flags computed from its own copy, and the mod-sequence
\* that GetMessage returns now.
FlagsRead ==
    /\ cmd.pc = "flags_read"
    /\ LET u == Head(cmd.todo)
           n == IF u \in Stored THEN stored[u].modseq ELSE Local(u).modseq
       IN msgs' = [msgs EXCEPT ![IndexOf(msgs, u)] =
                      [@ EXCEPT !.flags = Applied(@), !.modseq = n]]
    /\ cmd' = [cmd EXCEPT !.pc = "flags", !.todo = Tail(@)]
    /\ UNCHANGED <<store, others, phase, uidNext, tracked, chan, reading, sent, hist>>

\* session.Append into the selected mailbox: AppendMessage, then add.
Append1 ==
    /\ Request
    /\ uidnext <= MaxUid /\ highest < MaxModSeq
    /\ cmd' = [Start("app_ins", <<uidnext>>) EXCEPT !.modseq = highest + 1]
    /\ uidnext' = uidnext + 1 /\ highest' = highest + 1
    /\ UNCHANGED <<stored, others, view, chan, reading, hist>>

Appended == [uid |-> Head(cmd.todo), modseq |-> cmd.modseq, flags |-> {}]

AppendInsert ==
    /\ cmd.pc = "app_ins"
    /\ stored' = With(Appended)
    /\ \/ /\ cmd' = [cmd EXCEPT !.pc = "app_add"]
          /\ own' = own \cup {Appended.uid}
          /\ chan' = (chan \/ Notified) /\ UNCHANGED missed
       \/ Done /\ Unannounced({Appended.uid}) /\ UNCHANGED <<own, chan>>
    /\ UNCHANGED <<uidnext, highest, others, view, reading, sent, taken, moved, shifted, blind>>

\* add: nothing to do when a refresh has already folded the message in.
Folded == Appended.uid \in View
Add ==
    /\ cmd.pc = "app_add"
    /\ \/ Folded /\ UNCHANGED <<msgs, uidNext, tracked>>
       \/ /\ ~Folded
          /\ msgs' = Append(msgs, Appended)
          /\ uidNext' = RaisedTo(uidNext, <<Appended>>)
          /\ tracked' = Len(msgs')
    /\ Done
    /\ UNCHANGED <<store, others, phase, chan, reading, sent, hist>>

\* expunge: back to front over the snapshot's \Deleted messages.
Expunge ==
    /\ Request
    /\ \E S \in SUBSET {u \in View : "Deleted" \in Local(u).flags} \ {{}} :
         cmd' = Start("expunge", Reverse(Chosen(S)))
    /\ UNCHANGED <<store, others, view, chan, reading, hist>>

Uncounted == IF QResync THEN 0 ELSE 1

\* DeleteMessage fails with ErrNotFound when the message is gone already; when it
\* fails after the document went (blobDropRef), the entry stays in the snapshot.
ExpungeNext ==
    /\ cmd.pc = "expunge"
    /\ \/ /\ cmd.todo # <<>> => Head(cmd.todo) \notin Stored
          /\ Done /\ UNCHANGED <<stored, chan, msgs, tracked, missed>>
       \/ /\ cmd.todo # <<>> /\ Head(cmd.todo) \in Stored
          /\ stored' = Without(Head(cmd.todo))
          /\ \/ /\ chan' = (chan \/ Notified)
                /\ msgs' = RemoveAt(msgs, IndexOf(msgs, Head(cmd.todo)))
                /\ tracked' = tracked - Uncounted
                /\ cmd' = [cmd EXCEPT !.todo = Tail(@)] /\ UNCHANGED missed
             \/ Done /\ Unannounced({Head(cmd.todo)}) /\ UNCHANGED <<chan, msgs, tracked>>
    /\ UNCHANGED <<uidnext, highest, others, phase, uidNext, reading, sent,
                   own, taken, moved, shifted, blind>>

\* move, first half: MoveMessage for each message, the lock held.
Move ==
    /\ Request
    /\ \E S \in SUBSET View \ {{}} : cmd' = Start("move", Chosen(S))
    /\ UNCHANGED <<store, others, view, chan, reading, hist>>

MoveNext ==
    /\ cmd.pc = "move"
    /\ \/ /\ cmd.todo = <<>>
          /\ cmd' = [cmd EXCEPT !.pc = "move_drop"]
          /\ UNCHANGED <<stored, chan, moved, missed>>
       \/ /\ cmd.todo # <<>> /\ Head(cmd.todo) \notin Stored
          /\ Done /\ moved' = {}
          /\ UNCHANGED <<stored, chan, missed>>
       \/ /\ cmd.todo # <<>> /\ Head(cmd.todo) \in Stored
          /\ stored' = Without(Head(cmd.todo))
          /\ Done /\ moved' = {} /\ Unannounced({Head(cmd.todo)})
          /\ UNCHANGED chan
       \/ /\ cmd.todo # <<>> /\ Head(cmd.todo) \in Stored
          /\ stored' = Without(Head(cmd.todo))
          /\ UNCHANGED missed
          /\ chan' = (chan \/ Notified)
          /\ moved' = moved \cup {Head(cmd.todo)}
          /\ cmd' = [cmd EXCEPT !.todo = Tail(@),
                                !.done = Append(@, IndexOf(msgs, Head(cmd.todo)))]
    /\ UNCHANGED <<uidnext, highest, others, view, reading, sent, own, taken, shifted, blind>>

\* move, second half: the recorded indices leave the snapshot, back to front;
\* one beyond the end is skipped.
DropAt(i, s) == IF i \in DOMAIN s THEN RemoveAt(s, i) ELSE s
Dropped_FrontFirst == FoldLeft(LAMBDA s, i : DropAt(i, s), msgs, cmd.done)
Dropped == FoldRight(DropAt, cmd.done, msgs)
MoveDrop ==
    /\ cmd.pc = "move_drop"
    /\ msgs' = Dropped
    /\ tracked' = tracked - (Len(msgs) - Len(Dropped))
    /\ missed' = missed \cup ((View \ UidsOf(Dropped)) \ moved)
    /\ Done /\ moved' = {} /\ shifted' = FALSE
    /\ UNCHANGED <<store, others, phase, uidNext, chan, reading, sent, own, taken, blind>>

-----------------------------------------------------------------------------
Outside == \E w \in Writer : Deliver(w) \/ ChangeFlags(w) \/ Delete(w) \/ DeleteMailbox(w)
Watch == Wake \/ Refresh
Command == FlagsNext \/ FlagsSet \/ FlagsRead \/ AppendInsert \/ Add
             \/ ExpungeNext \/ MoveNext \/ MoveDrop
Client == Store \/ Fetch \/ Append1 \/ Expunge \/ Move

Next == \/ Outside
        \/ \E w \in Writer : Write(w) \/ Notify(w)
        \/ SelectRow \/ SelectList \/ Subscribe \/ Close
        \/ Watch \/ WakeFails
        \/ Client \/ Command

Spec == Init /\ [][Next]_vars

\* A command that has begun, a writer's Notify and the watch goroutine go on.
Fairness == /\ WF_vars(Watch)
            /\ WF_vars(Command)
            /\ \A w \in Writer : WF_vars(Notify(w))
LiveSpec == Spec /\ Fairness

-----------------------------------------------------------------------------
CmdType == [pc : {"idle", "flags", "flags_set", "flags_read", "app_ins", "app_add",
                  "expunge", "move", "move_drop"},
            todo : Seq(Uid), op : {"set", "add", "del"}, arg : SUBSET Flags,
            floor : 0 .. MaxModSeq, modseq : 0 .. MaxModSeq, flags : SUBSET Flags,
            done : Seq(Uid)]

\* The state has its shape: the snapshot and an unapplied list are sequences of
\* messages, the store holds each message under its own UID.
TypeOK ==
    /\ Stored \subseteq Uid /\ \A u \in Stored : stored[u] \in Msg /\ stored[u].uid = u
    /\ uidnext \in 1 .. MaxUid + 1 /\ highest \in 0 .. MaxModSeq
    /\ wr \in [Writer -> [pc : {"idle", "write", "notify"}, uid : 0 .. MaxUid,
                          op : {"deliver", "flags", "delete"},
                          modseq : 0 .. MaxModSeq, flags : SUBSET Flags]]
    /\ phase \in {"none", "row", "listed", "open", "closed"}
    /\ msgs \in Seq(Msg) /\ uidNext \in 0 .. MaxUid + 1 /\ tracked \in Nat
    /\ chan \in BOOLEAN /\ \A l \in reading : l \in Seq(Msg)
    /\ writes \in 0 .. MaxWrites
    /\ cmd \in CmdType /\ sent \in 0 .. MaxCmds
    /\ own \subseteq Uid /\ taken \subseteq Uid /\ moved \subseteq Uid
    /\ shifted \in BOOLEAN /\ blind \in BOOLEAN /\ missed \subseteq Uid

\* The tracker's count, from which EXISTS and EXPUNGE answers are numbered, is the
\* length of the snapshot after any mixture of refreshes, APPEND, EXPUNGE and MOVE.
\* (With QRESYNC, expunge removes entries and does not tell the tracker.)
TrackerAgrees == QResync \/ tracked = Len(msgs)

\* A refresh applies a list that was read before the lock was taken.  The only
\* messages it can wrongly report as expunged are those this session appended
\* in between; another connection's mail is never declared gone while it exists.
RefreshTruthful == taken \subseteq own

\* The second half of MOVE removes from the snapshot the messages the first half
\* relocated and no others, unless a refresh removed entries in the gap.
MoveDropsMoved ==
    [][cmd.pc = "move_drop" /\ cmd'.pc = "idle" /\ phase' = "open" /\ ~shifted
         => UidsOf(msgs') = View \ moved]_vars

Quiet == /\ ~chan /\ reading = NoList
         /\ \A w \in Writer : wr[w].pc # "notify"

\* A channel that holds one wake-up and drops the rest loses no announced change:
\* when none is waiting, none is being handled and no writer is about to send one,
\* the snapshot has no message that is gone, lacks none that it may still add, and
\* has no older mod-sequence than the store.  Until the next list is read, this
\* leaves out what changed and was not announced to the view (between the SELECT's
\* list and its subscription, by a store operation that failed after its change, by
\* a folder deletion), what MOVE dropped in the place of another message, and
\* everything when a refresh could not list the mailbox; and for good a message of
\* the session's own that was deleted, refresh included, before add put it in.
QuietMeansCurrent ==
    phase = "open" /\ Quiet /\ ~blind =>
      \A u \in Uid \ missed :
        /\ u \in View => u \in Stored \cup own
        /\ u \in Stored => u \in View \/ u < uidNext
        /\ u \in View \cap Stored => Local(u).modseq >= stored[u].modseq

\* The watch goroutine catches up: again and again, no wake-up waits and no list
\* waits for the lock, which every command gives back.
CatchesUp == []<>(phase # "open" \/ (~chan /\ reading = NoList))
=============================================================================
