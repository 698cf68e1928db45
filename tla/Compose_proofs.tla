--------------------------- MODULE Compose_proofs ---------------------------
(***************************************************************************)
(* Theorems about drafts and sending, for any windows, recipients, aliases *)
(* and bounds.  What Route resolves a recipient to is not looked into.     *)
(***************************************************************************)
EXTENDS Compose, TLAPS

-----------------------------------------------------------------------------
(* Types.  The recipients of a request and what they resolve to.           *)

Client == Window \cup {Smtp}

Lists == {CollectRecipients(e) : e \in Envelope} \cup Seq(Submitted)
Locals == UNION {Dests(s[i]).local : s \in Lists, i \in Nat}
Away == UNION {Relayed(s[i]) : s \in Lists, i \in Nat}

Req == [kind : {"save", "send"}, from : Client,
        pc : {"find", "delete", "append", "resolve", "deliver", "enqueue", "routed",
              "ok", "failed"},
        rcpts : Lists, prev : Nat, at : Nat,
        todo : SUBSET Locals, copies : SUBSET Locals, remote : SUBSET Away]

Session == [authed : BOOLEAN, from : BOOLEAN, rcpts : Seq(Submitted)]

Types ==
    /\ job \in Seq(Req)
    /\ \A j \in DOMAIN job : job[j].pc = "deliver" => job[j].todo # {}
    /\ waits \in [Client -> Nat]
    /\ open \subseteq Window
    /\ to \in [Window -> Envelope]
    /\ draftId \in [Window -> Nat]
    /\ envelope \in Session
    /\ drafts \subseteq DOMAIN job /\ queue \subseteq DOMAIN job

-----------------------------------------------------------------------------
(* The inductive invariant.                                                *)

Saves(w) == Jobs(w, "save")
Sends(w) == Jobs(w, "send")

\* A request that runs has a client that waits for it, or that has lost it.
Waiting ==
    /\ \A o \in Client : waits[o] # 0 => waits[o] \in DOMAIN job /\ job[waits[o]].from = o
    /\ \A j \in DOMAIN job : ~Done(j) => waits[job[j].from] = j \/ j \in broken
    /\ \A w \in Window : waits[w] \in Saves(w) => job[waits[w]].prev = draftId[w]

\* The draft a window knows, and every draft a save was told to overwrite, is one
\* that the same window saved and was told of.
Reported(w, d) == d \in Saves(w) /\ job[d].pc = "ok" /\ waits[w] # d
Overwriting ==
    /\ \A w \in Window : draftId[w] = 0 \/ Reported(w, draftId[w])
    /\ \A w \in Window : \A j \in Saves(w) : job[j].prev = 0 \/ Reported(w, job[j].prev)

\* What a save leaves: past the deletion the old draft is gone, or the deletion has
\* failed; a save that has succeeded and is not reported yet has left a draft.
Saved ==
    /\ \A j \in DOMAIN job : job[j].kind = "save" =>
          /\ job[j].from \in Window
          /\ job[j].pc \in {"find", "delete", "append", "ok", "failed"}
          /\ job[j].pc \in {"append", "ok"} /\ job[j].prev \in drafts => j \in broken
          /\ job[j].pc = "ok" /\ waits[job[j].from] = j => j \in drafts \cup removed
    /\ \A j \in DOMAIN job : job[j].pc \in {"find", "delete", "append"} => job[j].kind = "save"
    /\ \A d \in drafts : job[d].pc = "ok"

\* The drafts a window has been told of.
Told(w) == {d \in Saves(w) : d = draftId[w] \/ \E j \in Saves(w) : job[j].prev = d}

\* A draft of w that is not the one it knows was overwritten by a save that could
\* not delete it, or is of a save whose answer was lost, or is about to be reported.
Charged(w) ==
    /\ \A d \in Told(w) \ {draftId[w]} :
          \E j \in Told(w) : job[j].prev = d /\ (d \in drafts => j \in broken)
    /\ \A d \in (drafts \cap Saves(w)) \ Told(w) : d = waits[w] \/ d \in broken

\* A window that has sent is closed, and sends nothing more.
Sent(w) ==
    /\ w \notin open => waits[w] = 0
    /\ \A j \in Sends(w) \ broken : job[j].pc = "ok" /\ waits[w] # j => w \notin open
    /\ \A j \in (Sends(w) \cap queue) \ broken : job[j].pc \in {"routed", "ok"}
    /\ \A i, j \in (Sends(w) \cap queue) \ broken : i = j

ComposeInv ==
    /\ Waiting /\ Overwriting /\ Saved /\ SavedDraftKept
    /\ \A w \in Window : Charged(w) /\ Sent(w)

-----------------------------------------------------------------------------
(* What the actions do to the state the invariant speaks of.               *)

\* Job j goes to `label'; the other jobs stay.
Advance(j, label) ==
    /\ DOMAIN job' = DOMAIN job
    /\ \A i \in DOMAIN job :
          /\ job'[i].kind = job[i].kind /\ job'[i].from = job[i].from
          /\ job'[i].prev = job[i].prev
          /\ job'[i].pc = IF i = j THEN label ELSE job[i].pc

\* A step of job j's handler.
WorkStep(j) ==
    /\ UNCHANGED <<waits, open, draftId, removed>>
    /\ \/ /\ job[j].pc = "find" /\ Advance(j, "delete")
          /\ UNCHANGED <<drafts, queue, broken>>
       \/ /\ job[j].pc = "find" /\ Advance(j, "append")
          /\ broken' \in {broken, broken \cup {j}} /\ (job[j].prev \in drafts => j \in broken')
          /\ UNCHANGED <<drafts, queue>>
       \/ /\ job[j].pc = "delete" /\ Advance(j, "append")
          /\ \/ drafts' = drafts \ {job[j].prev} /\ broken' = broken
             \/ drafts' = drafts /\ broken' = broken \cup {j}
          /\ UNCHANGED queue
       \/ /\ job[j].pc = "append" /\ Advance(j, "ok")
          /\ drafts' = drafts \cup {j} /\ UNCHANGED <<queue, broken>>
       \/ /\ job[j].pc \in {"resolve", "deliver"}
          /\ \E label \in {"resolve", "deliver", "enqueue", "routed"} : Advance(j, label)
          /\ UNCHANGED <<drafts, queue, broken>>
       \/ /\ job[j].pc = "enqueue" /\ Advance(j, "routed")
          /\ queue' = queue \cup {j} /\ UNCHANGED <<drafts, broken>>
       \/ /\ job[j].pc = "routed" /\ Advance(j, "ok")
          /\ UNCHANGED <<drafts, queue, broken>>
       \/ /\ job[j].pc \notin {"routed", "ok", "failed"} /\ Advance(j, "failed")
          /\ UNCHANGED <<drafts, queue, broken>>

\* Client o makes a request: a save of an open window, or a send.
NewJob == Len(job) + 1
StartStep(o) ==
    LET n == NewJob IN
    /\ waits[o] = 0 /\ waits' = [waits EXCEPT ![o] = n]
    /\ n \notin DOMAIN job /\ n \in Nat \ {0} /\ DOMAIN job' = DOMAIN job \cup {n}
    /\ \A i \in DOMAIN job : job'[i] = job[i]
    /\ job'[n].from = o
    /\ o \in open \/ o = Smtp
    /\ \/ job'[n].kind = "save" /\ job'[n].pc = "find" /\ o \in open /\ job'[n].prev = draftId[o]
       \/ job'[n].kind = "send" /\ job'[n].pc = "resolve"
    /\ UNCHANGED <<open, draftId, drafts, queue, removed, broken>>

\* Client o gets the answer it waits for.
AnswerStep(o) ==
    LET j == waits[o] IN
    /\ j \in DOMAIN job /\ job[j].from = o /\ job[j].pc \in {"ok", "failed"}
    /\ Advance(j, job[j].pc)
    /\ waits' = [waits EXCEPT ![o] = 0]
    /\ IF o \in Window /\ job[j].pc = "ok" /\ job[j].kind = "save"
       THEN draftId' = [draftId EXCEPT ![o] = j] ELSE draftId' = draftId
    /\ IF o \in Window /\ job[j].pc = "ok" /\ job[j].kind = "send"
       THEN open' = open \ {o} ELSE open' = open
    /\ UNCHANGED <<drafts, queue, removed, broken>>

\* The clients of S stop waiting; if `down', all do, and the jobs that run end.
Ends(i, down) == IF down /\ ~Done(i) THEN "failed" ELSE job[i].pc
LoseStep(S, down) ==
    /\ down => S = Client
    /\ DOMAIN job' = DOMAIN job
    /\ \A i \in DOMAIN job :
          /\ job'[i].kind = job[i].kind /\ job'[i].from = job[i].from
          /\ job'[i].prev = job[i].prev /\ job'[i].pc = Ends(i, down)
    /\ waits' = [o \in Client |-> IF o \in S THEN 0 ELSE waits[o]]
    /\ broken' = broken \cup ({waits[o] : o \in S} \ {0})
    /\ UNCHANGED <<open, draftId, drafts, queue, removed>>

RemoveStep(d) ==
    /\ d \in drafts /\ drafts' = drafts \ {d} /\ removed' = removed \cup {d}
    /\ UNCHANGED <<job, waits, open, draftId, queue, broken>>

IdleStep == UNCHANGED <<job, waits, open, draftId, drafts, queue, removed, broken>>

\* One request of the sequence is replaced by another of the same client.
LEMMA Replaced ==
    ASSUME job \in Seq(Req), NEW j \in DOMAIN job, NEW r \in Req,
           job' = [job EXCEPT ![j] = r],
           r.kind = job[j].kind, r.from = job[j].from, r.prev = job[j].prev
    PROVE  /\ job' \in Seq(Req) /\ Advance(j, r.pc)
           /\ DOMAIN job' = DOMAIN job
           /\ job'[j] = r /\ \A i \in DOMAIN job \ {j} : job'[i] = job[i]
<1>1. /\ job' \in Seq(Req) /\ DOMAIN job' = DOMAIN job
      /\ job'[j] = r /\ \A i \in DOMAIN job \ {j} : job'[i] = job[i]
  OBVIOUS
<1>2. Advance(j, r.pc)
  BY <1>1, Zenon DEF Advance
<1> QED BY <1>1, <1>2, Zenon

\* Goto moves one request, and Fail ends one, within the types.
LEMMA Moved ==
    ASSUME Types, NEW j \in DOMAIN job, NEW label,
           label \in {"find", "delete", "append", "resolve", "enqueue", "routed", "ok", "failed"},
           \/ Goto(j, label)
           \/ job' = [job EXCEPT ![j] = Ended(@, label)]
    PROVE  /\ job' \in Seq(Req) /\ Advance(j, label)
           /\ DOMAIN job' = DOMAIN job
           /\ \A i \in DOMAIN job' : job'[i].pc = "deliver" => job'[i].todo # {}
<1>1. job \in Seq(Req) /\ job[j] \in Req
  BY DEF Types
<1>2. CASE Goto(j, label)
  <2> DEFINE r == [job[j] EXCEPT !.pc = label]
  <2>1. r \in Req /\ r.kind = job[j].kind /\ r.from = job[j].from /\ r.prev = job[j].prev
        /\ r.pc = label
    BY <1>1, Zenon DEF Req
  <2>2. job' = [job EXCEPT ![j] = r]
    BY <1>1, <1>2, Zenon DEF Goto
  <2> HIDE DEF r
  <2>3. job' \in Seq(Req) /\ Advance(j, r.pc) /\ DOMAIN job' = DOMAIN job
        /\ job'[j] = r /\ \A i \in DOMAIN job \ {j} : job'[i] = job[i]
    BY <1>1, <2>1, <2>2, Replaced, Zenon
  <2> QED BY <2>1, <2>3, Zenon DEF Types
<1>3. CASE job' = [job EXCEPT ![j] = Ended(@, label)]
  <2> DEFINE r == Ended(job[j], label)
  <2>0. <<>> \in Lists
    BY DEF Lists
  <2>1. r \in Req /\ r.kind = job[j].kind /\ r.from = job[j].from /\ r.prev = job[j].prev
        /\ r.pc = label
    BY <1>1, <2>0, Zenon DEF Req, Ended, Request
  <2>2. job' = [job EXCEPT ![j] = r]
    BY <1>1, <1>3, Zenon
  <2> HIDE DEF r
  <2>3. job' \in Seq(Req) /\ Advance(j, r.pc) /\ DOMAIN job' = DOMAIN job
        /\ job'[j] = r /\ \A i \in DOMAIN job \ {j} : job'[i] = job[i]
    BY <1>1, <2>1, <2>2, Replaced, Zenon
  <2> QED BY <2>1, <2>3 DEF Types
<1> QED BY <1>2, <1>3, Zenon

\* The steps of handleSaveDraft, and those of handleSend after Route.
LEMMA SaveWork ==
    ASSUME Types, NEW j \in DOMAIN job,
           FindDraft(j) \/ DeleteDraft(j) \/ AppendDraft(j) \/ Enqueue(j) \/ SentCopy(j)
    PROVE  Types' /\ WorkStep(j)
<1>1. CASE FindDraft(j)
  <2>1. PICK label \in {"delete", "append", "failed"} :
            Goto(j, label) \/ job' = [job EXCEPT ![j] = Ended(@, label)]
    BY <1>1, Zenon DEF FindDraft, Fail
  <2>2. job' \in Seq(Req) /\ DOMAIN job' = DOMAIN job
        /\ \A i \in DOMAIN job' : job'[i].pc = "deliver" => job'[i].todo # {}
    BY <2>1, Moved, Zenon
  <2>3. Types'
    BY <1>1, <2>2, Zenon DEF FindDraft, Types
  <2>4. \A l \in {"delete", "append"} : Goto(j, l) => Advance(j, l)
    BY Moved, Zenon
  <2>5. Fail(j) => Advance(j, "failed")
    BY Moved, Zenon DEF Fail
  <2>6. WorkStep(j)
    BY <1>1, <2>4, <2>5, Zenon DEF FindDraft, WorkStep, Overwrites
  <2> QED BY <2>3, <2>6, Zenon
<1>2. CASE DeleteDraft(j)
  <2>1. job' \in Seq(Req) /\ DOMAIN job' = DOMAIN job /\ Advance(j, "append")
        /\ \A i \in DOMAIN job' : job'[i].pc = "deliver" => job'[i].todo # {}
    BY <1>2, Moved, Zenon DEF DeleteDraft
  <2>2. Types'
    BY <1>2, <2>1, Zenon DEF DeleteDraft, Types
  <2>3. WorkStep(j)
    BY <1>2, <2>1, Zenon DEF DeleteDraft, WorkStep
  <2> QED BY <2>2, <2>3, Zenon
<1>3. CASE AppendDraft(j)
  <2>1. Goto(j, "ok") => Advance(j, "ok")
    BY Moved, Zenon
  <2>2. Fail(j) => Advance(j, "failed")
    BY Moved, Zenon DEF Fail
  <2>3. job' \in Seq(Req) /\ DOMAIN job' = DOMAIN job
        /\ \A i \in DOMAIN job' : job'[i].pc = "deliver" => job'[i].todo # {}
    BY <1>3, Moved, Zenon DEF AppendDraft, Fail
  <2>4. Types'
    BY <1>3, <2>3, Zenon DEF AppendDraft, Types
  <2>5. WorkStep(j)
    BY <1>3, <2>1, <2>2, Zenon DEF AppendDraft, WorkStep
  <2> QED BY <2>4, <2>5, Zenon
<1>4. CASE Enqueue(j)
  <2>1. Goto(j, "routed") => Advance(j, "routed")
    BY Moved, Zenon
  <2>2. Fail(j) => Advance(j, "failed")
    BY Moved, Zenon DEF Fail
  <2>3. job' \in Seq(Req) /\ DOMAIN job' = DOMAIN job
        /\ \A i \in DOMAIN job' : job'[i].pc = "deliver" => job'[i].todo # {}
    BY <1>4, Moved, Zenon DEF Enqueue, Fail
  <2>4. Types'
    BY <1>4, <2>3, Zenon DEF Enqueue, Types
  <2>5. WorkStep(j)
    BY <1>4, <2>1, <2>2, Zenon DEF Enqueue, WorkStep
  <2> QED BY <2>4, <2>5, Zenon
<1>5. CASE SentCopy(j)
  <2>1. job' \in Seq(Req) /\ DOMAIN job' = DOMAIN job /\ Advance(j, "ok")
        /\ \A i \in DOMAIN job' : job'[i].pc = "deliver" => job'[i].todo # {}
    BY <1>5, Moved, Zenon DEF SentCopy
  <2>2. Types'
    BY <1>5, <2>1, Zenon DEF SentCopy, Types
  <2>3. WorkStep(j)
    BY <1>5, <2>1, Zenon DEF SentCopy, WorkStep
  <2> QED BY <2>2, <2>3, Zenon
<1> QED BY <1>1, <1>2, <1>3, <1>4, <1>5, Zenon

\* The steps of Route that resolve and deliver.
LEMMA RouteWork ==
    ASSUME Types, NEW j \in DOMAIN job, Resolve(j) \/ Deliver(j)
    PROVE  Types' /\ WorkStep(j)
<1>1. job \in Seq(Req) /\ job[j] \in Req
  BY DEF Types
<1>2. CASE Fail(j)
  <2>1. job' \in Seq(Req) /\ DOMAIN job' = DOMAIN job /\ Advance(j, "failed")
        /\ \A i \in DOMAIN job' : job'[i].pc = "deliver" => job'[i].todo # {}
    BY <1>2, Moved, Zenon DEF Fail
  <2>2. /\ UNCHANGED <<waits, open, to, draftId, drafts, queue, envelope, named, removed, broken>>
        /\ job[j].pc \in {"resolve", "deliver"}
    BY Zenon DEF Resolve, Deliver
  <2>3. Types'
    BY <2>1, <2>2, Zenon DEF Types
  <2>4. WorkStep(j)
    BY <2>1, <2>2, Zenon DEF WorkStep
  <2> QED BY <2>3, <2>4, Zenon
<1>3. CASE Resolve(j) /\ job[j].at > Len(job[j].rcpts)
  <2>1. PICK label \in {"routed", "enqueue"} : Goto(j, label)
    BY <1>3, Zenon DEF Resolve
  <2>2. job' \in Seq(Req) /\ DOMAIN job' = DOMAIN job /\ Advance(j, label)
        /\ \A i \in DOMAIN job' : job'[i].pc = "deliver" => job'[i].todo # {}
    BY <2>1, Moved, Zenon
  <2>3. Types'
    BY <1>3, <2>2, Zenon DEF Resolve, Types
  <2>4. WorkStep(j)
    BY <1>3, <2>2, Zenon DEF Resolve, WorkStep
  <2> QED BY <2>3, <2>4, Zenon
<1>4. CASE Resolve(j) /\ ~(job[j].at > Len(job[j].rcpts)) /\ ~Fail(j)
  <2> DEFINE a == job[j].rcpts[job[j].at]
             label == IF Dests(a).local = {} THEN "resolve" ELSE "deliver"
             r == [job[j] EXCEPT !.at = @ + 1, !.todo = Dests(a).local, !.pc = label,
                                 !.remote = @ \cup Relayed(a)]
  <2>1. job' = [job EXCEPT ![j] = r]
    BY <1>1, <1>4, Zenon DEF Resolve, Req
  <2>2. Dests(a).local \subseteq Locals /\ Relayed(a) \subseteq Away
    BY <1>1 DEF Req, Locals, Away
  <2>3. label \in {"resolve", "deliver"} /\ (label = "deliver" => Dests(a).local # {})
    BY Zenon
  <2> HIDE DEF a, label
  <2> DEFINE at == job[j].at + 1
             todo == Dests(a).local
             remote == job[j].remote \cup Relayed(a)
  <2>4. at \in Nat /\ todo \in SUBSET Locals /\ remote \in SUBSET Away
    BY <1>1, <2>2 DEF Req
  <2>5. r = [job[j] EXCEPT !.at = at, !.todo = todo, !.pc = label, !.remote = remote]
    BY <1>1, Zenon DEF Req
  <2> HIDE DEF r, at, todo, remote
  <2>6. r \in Req /\ r.kind = job[j].kind /\ r.from = job[j].from /\ r.prev = job[j].prev
        /\ r.pc = label /\ r.todo = todo
    BY <1>1, <2>3, <2>4, <2>5, Zenon DEF Req
  <2> HIDE DEF r
  <2>7. job' \in Seq(Req) /\ Advance(j, label) /\ DOMAIN job' = DOMAIN job
        /\ job'[j] = r /\ \A i \in DOMAIN job \ {j} : job'[i] = job[i]
    BY <1>1, <2>1, <2>6, Replaced, Zenon
  <2>8. \A i \in DOMAIN job' : job'[i].pc = "deliver" => job'[i].todo # {}
    BY <2>3, <2>6, <2>7, Zenon DEF Types, todo
  <2>9. Types'
    BY <1>4, <2>7, <2>8, Zenon DEF Resolve, Types
  <2>10. WorkStep(j)
    BY <1>4, <2>3, <2>7, Zenon DEF Resolve, WorkStep
  <2> QED BY <2>9, <2>10, Zenon
<1>5. CASE Deliver(j) /\ ~Fail(j)
  <2> DEFINE a == CHOOSE x \in job[j].todo : TRUE
             label == IF job[j].todo = {a} THEN "resolve" ELSE "deliver"
             r == [job[j] EXCEPT !.todo = @ \ {a}, !.copies = @ \cup {a}, !.pc = label]
  <2>1. job' = [job EXCEPT ![j] = r]
    BY <1>1, <1>5, Zenon DEF Deliver, Req
  <2>2. a \in job[j].todo
    BY <1>5, Zenon DEF Deliver, Types
  <2>3. label \in {"resolve", "deliver"} /\ (label = "deliver" => job[j].todo # {a})
    BY Zenon
  <2> HIDE DEF a, label
  <2> DEFINE todo == job[j].todo \ {a}
             copies == job[j].copies \cup {a}
  <2>4. todo \in SUBSET Locals /\ copies \in SUBSET Locals
    BY <1>1, <2>2, Zenon DEF Req
  <2>5. r = [job[j] EXCEPT !.todo = todo, !.copies = copies, !.pc = label]
    BY <1>1, Zenon DEF Req
  <2> HIDE DEF r, todo, copies
  <2>6. r \in Req /\ r.kind = job[j].kind /\ r.from = job[j].from /\ r.prev = job[j].prev
        /\ r.pc = label /\ r.todo = todo
    BY <1>1, <2>3, <2>4, <2>5, Zenon DEF Req
  <2> HIDE DEF r
  <2>7. job' \in Seq(Req) /\ Advance(j, label) /\ DOMAIN job' = DOMAIN job
        /\ job'[j] = r /\ \A i \in DOMAIN job \ {j} : job'[i] = job[i]
    BY <1>1, <2>1, <2>6, Replaced, Zenon
  <2>8. \A i \in DOMAIN job' : job'[i].pc = "deliver" => job'[i].todo # {}
    BY <2>2, <2>3, <2>6, <2>7, Zenon DEF Types, todo
  <2>9. Types'
    BY <1>5, <2>7, <2>8, Zenon DEF Deliver, Types
  <2>10. WorkStep(j)
    BY <1>5, <2>3, <2>7, Zenon DEF Deliver, WorkStep
  <2> QED BY <2>9, <2>10, Zenon
<1> QED BY <1>2, <1>3, <1>4, <1>5, Zenon

\* A new request goes to the end of the sequence.
LEMMA Started ==
    ASSUME Types, NEW o \in Client, NEW kind \in {"save", "send"}, NEW rcpts \in Lists,
           NEW prev \in Nat, Start(Request(kind, o, rcpts, prev)),
           UNCHANGED <<open, to, draftId, drafts, queue, envelope, named, removed, broken>>,
           o \in open \/ o = Smtp,
           kind = "save" => o \in open /\ prev = draftId[o]
    PROVE  Types' /\ StartStep(o)
<1> DEFINE r == Request(kind, o, rcpts, prev)
           n == Len(job) + 1
<1>1. r \in Req /\ r.from = o /\ r.kind = kind /\ r.prev = prev
      /\ r.pc = IF kind = "save" THEN "find" ELSE "resolve"
  BY Zenon DEF Request, Req
<1>2. waits[o] = 0 /\ job' = Append(job, r) /\ waits' = [waits EXCEPT ![o] = n]
  BY <1>1, Zenon DEF Start
<1> HIDE DEF r
<1>3. job \in Seq(Req)
  BY Zenon DEF Types
<1>4. /\ n \notin DOMAIN job /\ n \in Nat \ {0} /\ DOMAIN job' = DOMAIN job \cup {n}
      /\ job' \in Seq(Req) /\ job'[n] = r /\ \A i \in DOMAIN job : job'[i] = job[i]
  BY <1>1, <1>2, <1>3
<1>5. Types'
  <2>1. \A i \in DOMAIN job' : job'[i].pc = "deliver" => job'[i].todo # {}
    BY <1>1, <1>4, Zenon DEF Types
  <2>2. waits' \in [Client -> Nat]
    BY <1>2, <1>4, Zenon DEF Types
  <2> QED BY <1>4, <2>1, <2>2, Zenon DEF Types
<1>6. StartStep(o)
  BY <1>1, <1>2, <1>4, Zenon DEF StartStep, NewJob
<1> QED BY <1>5, <1>6, Zenon

\* A window saves or sends; the submission client sends.
LEMMA StartWork ==
    ASSUME Types, Data \/ \E w \in Window : SaveDraft(w) \/ Send(w)
    PROVE  Types' /\ \E o \in Client : StartStep(o)
<1>0. <<>> \in Lists
  BY DEF Lists
<1>1. CASE Data
  <2>1. envelope.rcpts \in Lists
    BY Zenon DEF Types, Lists, Session
  <2>2. Types' /\ StartStep(Smtp)
    <3>1. Smtp \in Client /\ 0 \in Nat
      BY Zenon DEF Client
    <3> HIDE DEF Client
    <3>2. Start(Request("send", Smtp, envelope.rcpts, 0))
          /\ UNCHANGED <<open, to, draftId, drafts, queue, envelope, named, removed, broken>>
      BY <1>1, Zenon DEF Data
    <3> QED BY <2>1, <3>1, <3>2, Started, Zenon
  <2> QED BY <2>2, Zenon DEF Client
<1>2. ASSUME NEW w \in Window, SaveDraft(w)
      PROVE  Types' /\ StartStep(w)
  <2>1. w \in Client /\ draftId[w] \in Nat /\ w \in open
    BY <1>2, Zenon DEF Types, Client, SaveDraft
  <2>2. Start(Request("save", w, <<>>, draftId[w]))
        /\ UNCHANGED <<open, to, draftId, drafts, queue, envelope, named, removed, broken>>
    BY <1>2, Zenon DEF SaveDraft
  <2> QED BY <1>0, <2>1, <2>2, Started, Zenon
<1>3. ASSUME NEW w \in Window, Send(w)
      PROVE  Types' /\ StartStep(w)
  <2>1. w \in Client /\ 0 \in Nat /\ w \in open /\ CollectRecipients(to[w]) \in Lists
    BY <1>3, Zenon DEF Types, Client, Send, Lists
  <2>2. Start(Request("send", w, CollectRecipients(to[w]), 0))
        /\ UNCHANGED <<open, to, draftId, drafts, queue, envelope, named, removed, broken>>
    BY <1>3, Zenon DEF Send
  <2> QED BY <2>1, <2>2, Started, Zenon
<1> QED BY <1>1, <1>2, <1>3, Zenon DEF Client

\* What the commands make of the submission session.
LEMMA Sessions ==
    ASSUME envelope \in Session
    PROVE  /\ Reset \in Session /\ NewSession \in Session
           /\ [envelope EXCEPT !.authed = TRUE] \in Session
           /\ [envelope EXCEPT !.from = TRUE] \in Session
           /\ \A a \in Submitted : [envelope EXCEPT !.rcpts = Append(@, a)] \in Session
<1>1. <<>> \in Seq(Submitted) /\ envelope.rcpts \in Seq(Submitted)
  BY DEF Session
<1>2. Reset \in Session
  BY <1>1, Zenon DEF Reset, Session
<1>3. NewSession \in Session
  BY <1>1, Zenon DEF NewSession, Session
<1>4. [envelope EXCEPT !.authed = TRUE] \in Session /\ [envelope EXCEPT !.from = TRUE] \in Session
  BY Zenon DEF Session
<1>5. ASSUME NEW a \in Submitted
      PROVE  [envelope EXCEPT !.rcpts = Append(@, a)] \in Session
  <2> DEFINE s == Append(envelope.rcpts, a)
  <2>1. s \in Seq(Submitted)
    BY <1>1
  <2> HIDE DEF s
  <2>2. [envelope EXCEPT !.rcpts = s] \in Session
    BY <2>1, Zenon DEF Session
  <2> QED BY <2>2, Zenon DEF s, Session
<1> QED BY <1>2, <1>3, <1>4, <1>5, Zenon

\* The answer to a request.
LEMMA AnswerWork ==
    ASSUME Types, NEW j \in DOMAIN job, Answer(j)
    PROVE  Types' /\ \E o \in Client : AnswerStep(o)
<1> DEFINE o == job[j].from
<1>0. job \in Seq(Req) /\ job[j] \in Req
  BY DEF Types
<1>1. job \in Seq(Req) /\ job[j] \in Req /\ o \in Client
  BY <1>0, Zenon DEF Req
<1>2. waits[o] = j /\ job[j].pc \in {"ok", "failed"}
  BY Zenon DEF Answer, Done
<1>3. job' = [job EXCEPT ![j] = Ended(@, job[j].pc)]
  BY <1>1, Zenon DEF Answer
<1>4. job' \in Seq(Req) /\ Advance(j, job[j].pc) /\ DOMAIN job' = DOMAIN job
      /\ \A i \in DOMAIN job' : job'[i].pc = "deliver" => job'[i].todo # {}
  BY <1>2, <1>3, Moved, Zenon
<1>5. waits' = [waits EXCEPT ![o] = 0] /\ UNCHANGED <<to, drafts, queue, removed, broken>>
  BY Zenon DEF Answer
<1>6. CASE o = Smtp
  <2>1. UNCHANGED <<draftId, open>> /\ envelope' = Reset
    BY <1>6, Zenon DEF Answer
  <2>2. Types'
    <3>1. envelope' \in Session
      BY <2>1, Sessions, Zenon DEF Types
    <3> QED BY <1>1, <1>4, <1>5, <2>1, <3>1, Zenon DEF Types
  <2>3. AnswerStep(o)
    BY <1>1, <1>2, <1>4, <1>5, <1>6, <2>1, ComposeAssumption, Zenon DEF AnswerStep
  <2> QED BY <1>1, <2>2, <2>3, Zenon
<1>7. CASE o # Smtp
  <2>1. /\ draftId' = NewDraftId(j) /\ envelope' = envelope
        /\ open' = IF job[j].kind = "send" /\ job[j].pc = "ok" THEN open \ {o} ELSE open
    BY <1>7, Zenon DEF Answer
  <2>2. o \in Window /\ j \in Nat
    BY <1>1, <1>7 DEF Client
  <2>3. Types'
    BY <1>1, <1>4, <1>5, <2>1, <2>2, Zenon DEF Types, NewDraftId
  <2>4. AnswerStep(o)
    BY <1>1, <1>2, <1>4, <1>5, <2>1, <2>2, Zenon DEF AnswerStep, NewDraftId
  <2> QED BY <1>1, <2>3, <2>4, Zenon
<1> QED BY <1>6, <1>7, Zenon

\* Connections that break, and a restart.
LEMMA LoseWork ==
    ASSUME Types, Restart \/ \E o \in DOMAIN waits : Disconnect(o)
    PROVE  Types' /\ \E S \in SUBSET Client, down \in BOOLEAN : LoseStep(S, down)
<1>0. DOMAIN waits = Client /\ job \in Seq(Req)
  BY Zenon DEF Types
<1>1. ASSUME NEW o \in Client, Disconnect(o)
      PROVE  Types' /\ LoseStep({o}, FALSE)
  <2>1. /\ job' = job /\ waits' = [waits EXCEPT ![o] = 0] /\ waits[o] # 0
        /\ broken' = broken \cup {waits[o]}
        /\ UNCHANGED <<open, to, draftId, drafts, queue, removed>>
    BY <1>1, Zenon DEF Disconnect
  <2>2. envelope' \in Session
    <3>1. envelope \in Session
      BY Zenon DEF Types
    <3> QED BY <1>1, <3>1, Sessions, Zenon DEF Disconnect
  <2>3. Types'
    BY <2>1, <2>2, Zenon DEF Types
  <2>4. waits' = [x \in Client |-> IF x \in {o} THEN 0 ELSE waits[x]]
    BY <2>1, Zenon DEF Types
  <2>5. broken' = broken \cup ({waits[x] : x \in {o}} \ {0})
    BY <2>1, Zenon
  <2>6. LoseStep({o}, FALSE)
    BY <2>1, <2>4, <2>5, Zenon DEF LoseStep, Ends
  <2> QED BY <2>3, <2>6, Zenon
<1>2. CASE Restart
  <2>1. /\ job' = [j \in DOMAIN job |-> IF Done(j) THEN job[j] ELSE Ended(job[j], "failed")]
        /\ waits' = [o \in Client |-> 0]
        /\ broken' = broken \cup ({waits[o] : o \in Client} \ {0})
        /\ envelope' = NewSession
        /\ UNCHANGED <<open, to, draftId, drafts, queue, removed>>
    BY <1>0, <1>2, Zenon DEF Restart
  <2>2. <<>> \in Lists
    BY DEF Lists
  <2>3. ASSUME NEW i \in DOMAIN job
        PROVE  /\ job'[i] \in Req /\ job'[i].pc = Ends(i, TRUE)
               /\ job'[i].kind = job[i].kind /\ job'[i].from = job[i].from
               /\ job'[i].prev = job[i].prev
               /\ job'[i].pc = "deliver" => job'[i].todo # {}
    <3>1. job[i] \in Req
      BY <1>0
    <3>2. CASE Done(i)
      BY <2>1, <3>1, <3>2, Zenon DEF Ends, Types
    <3>3. CASE ~Done(i)
      <4>1. job'[i] = Ended(job[i], "failed")
        BY <2>1, <3>3, Zenon
      <4>2. Ended(job[i], "failed") \in Req
        BY <2>2, <3>1, Zenon DEF Ended, Request, Req
      <4>3. Ended(job[i], "failed").pc = "failed"
            /\ Ended(job[i], "failed").kind = job[i].kind
            /\ Ended(job[i], "failed").from = job[i].from
            /\ Ended(job[i], "failed").prev = job[i].prev
        BY Zenon DEF Ended, Request
      <4> QED BY <3>3, <4>1, <4>2, <4>3, Zenon DEF Ends
    <3> QED BY <3>2, <3>3, Zenon
  <2>4. DOMAIN job' = DOMAIN job /\ job' \in Seq(Req)
    <3>1. DOMAIN job' = DOMAIN job
      BY <2>1, Zenon
    <3>2. DOMAIN job = 1 .. Len(job) /\ Len(job) \in Nat
      BY <1>0
    <3>3. job' = [j \in 1 .. Len(job) |-> job'[j]]
      BY <2>1, <3>2, Zenon
    <3>4. job' \in [1 .. Len(job) -> Req]
      BY <2>3, <3>2, <3>3, Zenon
    <3> QED BY <3>1, <3>2, <3>4
  <2>5. Types'
    <3>1. envelope' \in Session
      BY <2>1, Sessions, Zenon DEF Types
    <3>2. waits' \in [Client -> Nat]
      BY <2>1, Zenon
    <3>3. \A i \in DOMAIN job' : job'[i].pc = "deliver" => job'[i].todo # {}
      BY <2>3, <2>4, Zenon
    <3> QED BY <2>1, <2>4, <3>1, <3>2, <3>3, Zenon DEF Types
  <2>6. waits' = [o \in Client |-> IF o \in Client THEN 0 ELSE waits[o]]
    BY <2>1, Zenon
  <2>7. LoseStep(Client, TRUE)
    BY <2>1, <2>3, <2>4, <2>6, Zenon DEF LoseStep
  <2> QED BY <2>5, <2>7, Zenon
<1> QED BY <1>0, <1>1, <1>2, Zenon

\* Every step is one of the kinds above, and keeps the types.
LEMMA Steps ==
    ASSUME Types, [Next]_vars
    PROVE  /\ Types'
           /\ \/ \E j \in DOMAIN job : WorkStep(j)
              \/ \E o \in Client : StartStep(o) \/ AnswerStep(o)
              \/ \E S \in SUBSET Client, down \in BOOLEAN : LoseStep(S, down)
              \/ \E d \in drafts : RemoveStep(d)
              \/ IdleStep
<1>1. CASE \E j \in DOMAIN job : FindDraft(j) \/ DeleteDraft(j) \/ AppendDraft(j)
                                   \/ Enqueue(j) \/ SentCopy(j)
  BY <1>1, SaveWork, Zenon
<1>2. CASE \E j \in DOMAIN job : Resolve(j) \/ Deliver(j)
  BY <1>2, RouteWork, Zenon
<1>3. CASE \E j \in DOMAIN job : Answer(j)
  BY <1>3, AnswerWork, Zenon
<1>4. CASE Data \/ \E w \in Window : SaveDraft(w) \/ Send(w)
  BY <1>4, StartWork, Zenon
<1>5. CASE Restart \/ \E o \in DOMAIN waits : Disconnect(o)
  BY <1>5, LoseWork, Zenon
<1>6. CASE \E d \in drafts : RemoveDraft(d)
  <2>1. PICK d \in drafts : RemoveDraft(d)
    BY <1>6, Zenon
  <2>2. Types' /\ RemoveStep(d)
    BY <2>1, Zenon DEF RemoveDraft, RemoveStep, Types
  <2> QED BY <2>2, Zenon
<1>7. CASE Auth \/ Mail \/ Rset \/ \E a \in Submitted : Rcpt(a)
  <2>1. envelope' \in Session
    <3>1. envelope \in Session
      BY Zenon DEF Types
    <3> QED BY <1>7, <3>1, Sessions, Zenon DEF Auth, Mail, Rset, Rcpt
  <2>2. UNCHANGED <<job, waits, open, to, draftId, drafts, queue, removed, broken>>
    BY <1>7, Zenon DEF Auth, Mail, Rset, Rcpt
  <2> QED BY <2>1, <2>2, Zenon DEF Types, IdleStep
<1>8. CASE UNCHANGED vars
  BY <1>8, Zenon DEF vars, Types, IdleStep
<1> QED BY <1>1, <1>2, <1>3, <1>4, <1>5, <1>6, <1>7, <1>8, Zenon DEF Next

-----------------------------------------------------------------------------
(* A step of a handler.                                                    *)

\* The job that steps had not ended; the others stay, and so does what is known
\* of every job.
LEMMA WorkFacts ==
    ASSUME Types, NEW j \in DOMAIN job, WorkStep(j)
    PROVE  /\ job[j].pc \notin {"ok", "failed"}
           /\ DOMAIN job' = DOMAIN job
           /\ \A i \in DOMAIN job :
                 /\ job'[i].kind = job[i].kind /\ job'[i].from = job[i].from
                 /\ job'[i].prev = job[i].prev
                 /\ i # j => job'[i].pc = job[i].pc
           /\ \A o, kind : Jobs(o, kind)' = Jobs(o, kind)
           /\ \A w : Told(w)' = Told(w)
           /\ UNCHANGED <<waits, open, draftId, removed>>
           /\ broken \subseteq broken' /\ broken' \subseteq broken \cup {j}
<1>1. PICK label : Advance(j, label)
  BY Zenon DEF WorkStep
<1>2. /\ DOMAIN job' = DOMAIN job
      /\ \A i \in DOMAIN job :
            /\ job'[i].kind = job[i].kind /\ job'[i].from = job[i].from
            /\ job'[i].prev = job[i].prev
            /\ i # j => job'[i].pc = job[i].pc
  BY <1>1, Zenon DEF Advance
<1>3. \A o, kind : Jobs(o, kind)' = Jobs(o, kind)
  BY <1>2, Zenon DEF Jobs
<1>4. /\ job[j].pc \notin {"ok", "failed"}
      /\ UNCHANGED <<waits, open, draftId, removed>>
      /\ broken \subseteq broken' /\ broken' \subseteq broken \cup {j}
  BY Zenon DEF WorkStep
<1>5. \A w : Told(w)' = Told(w)
  <2> TAKE w
  <2>1. \A i \in Saves(w) : i \in DOMAIN job
    BY Zenon DEF Saves, Jobs
  <2> QED BY <1>2, <1>3, <1>4, <2>1, Zenon DEF Told, Saves
<1> QED BY <1>2, <1>3, <1>4, <1>5, Zenon

\* What the clients wait for, and the drafts they know.
LEMMA WorkWaiting ==
    ASSUME Types, Waiting, Overwriting, NEW j \in DOMAIN job, WorkStep(j)
    PROVE  Waiting' /\ Overwriting'
<1> USE WorkFacts
<1>1. Waiting'
  <2>1. \A o \in Client : waits'[o] # 0 => waits'[o] \in DOMAIN job' /\ job'[waits'[o]].from = o
    BY DEF Waiting
  <2>2. \A i \in DOMAIN job' : ~Done(i)' => waits'[job'[i].from] = i \/ i \in broken'
    BY Zenon DEF Waiting, Done
  <2>3. \A w \in Window : waits'[w] \in Saves(w)' => job'[waits'[w]].prev = draftId'[w]
    BY DEF Waiting, Saves, Jobs
  <2> QED BY <2>1, <2>2, <2>3, Zenon DEF Waiting
<1>2. \A w \in Window : \A d : Reported(w, d) => Reported(w, d)'
  BY Zenon DEF Reported, Saves, Jobs
<1>3. Overwriting'
  <2>1. \A w \in Window : \A i \in Saves(w) : job'[i].prev = job[i].prev
    BY Zenon DEF Saves, Jobs
  <2>2. \A w \in Window : Saves(w)' = Saves(w)
    BY DEF Saves
  <2> QED BY <1>2, <2>1, <2>2 DEF Overwriting
<1> QED BY <1>1, <1>3, Zenon

\* A draft that is in the folder after the step was there before, or is the one
\* that the step appended; then it is not an overwritten one.
LEMMA WorkDrafts ==
    ASSUME Types, Overwriting, Saved, NEW j \in DOMAIN job, WorkStep(j)
    PROVE  /\ \A w \in Window : \A i \in Saves(w) :
                 job[i].prev \in drafts' => job[i].prev \in drafts
           /\ \A w \in Window : draftId[w] \in drafts' => draftId[w] \in drafts
           /\ \A d \in drafts' : d \in drafts \/ (d = j /\ job[j].pc = "append" /\ job'[j].pc = "ok")
           /\ \A d \in drafts : d \in drafts' \/ (d = job[j].prev /\ job[j].pc = "delete"
                                                    /\ job'[j].pc = "append")
<1>0. j # 0 /\ 0 \notin drafts
  BY DEF Types
<1>1. \A d \in drafts' : d \in drafts \/ (d = j /\ job[j].pc = "append" /\ job'[j].pc = "ok")
  BY Zenon DEF WorkStep, Advance
<1>2. \A d \in drafts : d \in drafts' \/ (d = job[j].prev /\ job[j].pc = "delete"
                                            /\ job'[j].pc = "append")
  BY Zenon DEF WorkStep, Advance
<1>3. \A w \in Window : \A d : Reported(w, d) => job[d].pc = "ok"
  BY Zenon DEF Reported
<1>4. \A w \in Window : \A i \in Saves(w) : job[i].prev \in drafts' => job[i].prev \in drafts
  BY <1>0, <1>1, <1>3, Zenon DEF Overwriting
<1>5. \A w \in Window : draftId[w] \in drafts' => draftId[w] \in drafts
  BY <1>0, <1>1, <1>3, Zenon DEF Overwriting
<1> QED BY <1>1, <1>2, <1>4, <1>5, Zenon

\* What saves leave.
LEMMA WorkSaved ==
    ASSUME Types, Waiting, Overwriting, Saved, NEW j \in DOMAIN job, WorkStep(j)
    PROVE  Saved'
<1>1. ASSUME NEW i \in DOMAIN job, job[i].kind = "save"
      PROVE  /\ job'[i].from \in Window
             /\ job'[i].pc \in {"find", "delete", "append", "ok", "failed"}
             /\ job'[i].pc \in {"append", "ok"} /\ job'[i].prev \in drafts' => i \in broken'
             /\ job'[i].pc = "ok" /\ waits'[job'[i].from] = i => i \in drafts' \cup removed'
  <2>1. /\ job'[i].from = job[i].from /\ job'[i].prev = job[i].prev
        /\ job[i].from \in Window /\ i \in Saves(job[i].from)
        /\ job[i].pc \in {"find", "delete", "append", "ok", "failed"}
    BY <1>1, WorkFacts, Zenon DEF Saved, Saves, Jobs
  <2>2. CASE i # j
    <3>1. job'[i].pc = job[i].pc
      BY <2>2, WorkFacts, Zenon
    <3>2. job'[i].prev \in drafts' => job[i].prev \in drafts
      BY <2>1, WorkDrafts, Zenon
    <3>3. job[i].pc \in {"append", "ok"} /\ job[i].prev \in drafts => i \in broken'
      BY <1>1, WorkFacts, Zenon DEF Saved
    <3>4. ASSUME job[i].pc = "ok", waits[job[i].from] = i
          PROVE  i \in drafts' \cup removed'
      <4>1. i \in drafts \cup removed
        BY <1>1, <3>4, Zenon DEF Saved
      <4>2. CASE i = job[j].prev /\ job[j].pc = "delete"
        <5>1. job[j].kind = "save" => j \in Saves(job[j].from) /\ job[j].from \in Window
          BY Zenon DEF Saves, Jobs, Saved
        <5>2. job[j].kind = "save"
          BY <4>2, Zenon DEF Saved
        <5>3. i # 0
          BY DEF Types
        <5>4. Reported(job[j].from, i)
          BY <4>2, <5>1, <5>2, <5>3, Zenon DEF Overwriting
        <5> QED BY <2>1, <3>4, <5>4, Zenon DEF Reported, Saves, Jobs
      <4> QED BY <4>1, <4>2, WorkDrafts, WorkFacts, Zenon
    <3> QED BY <2>1, <3>1, <3>2, <3>3, <3>4, WorkFacts, Zenon
  <2>3. CASE i = j
    <3>1. job'[i].prev \in drafts' => job[i].prev \in drafts
      BY <2>1, WorkDrafts, Zenon
    <3> QED BY <2>1, <2>3, <3>1, Zenon DEF WorkStep, Advance, Saved
  <2> QED BY <2>2, <2>3, Zenon
<1>2. \A d \in drafts' : job'[d].pc = "ok"
  <2>1. \A d \in drafts : d \in DOMAIN job /\ d # j
    BY WorkFacts DEF Saved, Types
  <2> QED BY <2>1, WorkFacts, WorkDrafts DEF Saved
<1>3. \A i \in DOMAIN job : job'[i].kind = job[i].kind
  BY WorkFacts, Zenon
<1>4. DOMAIN job' = DOMAIN job
  BY WorkFacts, Zenon
<1>5. \A i \in DOMAIN job : job'[i].pc \in {"find", "delete", "append"} => job'[i].kind = "save"
  <2> TAKE i \in DOMAIN job
  <2>1. CASE i # j
    BY <2>1, WorkFacts DEF Saved
  <2>2. CASE i = j
    BY <2>2, <1>3, Zenon DEF WorkStep, Advance, Saved
  <2> QED BY <2>1, <2>2, Zenon
<1> QED BY <1>1, <1>2, <1>3, <1>4, <1>5, Zenon DEF Saved

\* The draft a window knows.
LEMMA WorkKept ==
    ASSUME Types, Waiting, Overwriting, Saved, SavedDraftKept,
           NEW j \in DOMAIN job, WorkStep(j)
    PROVE  SavedDraftKept'
<1> SUFFICES ASSUME NEW w \in Window, draftId[w] \notin drafts' \cup removed \cup {0}
             PROVE  \E i \in Jobs(w, "save") :
                        /\ job'[i].prev = draftId[w]
                        /\ job'[i].pc \in {"append", "failed"} \/ i \in broken' \/ waits[w] = i
  BY WorkFacts DEF SavedDraftKept
<1>1. Reported(w, draftId[w])
  BY Zenon DEF Overwriting
<1>2. CASE draftId[w] \in drafts
  <2>1. draftId[w] = job[j].prev /\ job[j].pc = "delete" /\ job'[j].pc = "append"
    BY <1>2, WorkDrafts, Zenon
  <2>2. job[j].from \in Window /\ j \in Saves(job[j].from)
    BY <2>1, Zenon DEF Saved, Saves, Jobs
  <2>3. Reported(job[j].from, draftId[w])
    BY <2>1, <2>2, Zenon DEF Overwriting
  <2>4. job[j].from = w
    BY <1>1, <2>3, Zenon DEF Reported, Saves, Jobs
  <2> QED BY <2>1, <2>2, <2>4, WorkFacts DEF Saves
<1>3. CASE draftId[w] \notin drafts
  <2>1. PICK i \in Jobs(w, "save") :
            /\ job[i].prev = draftId[w]
            /\ job[i].pc \in {"append", "failed"} \/ i \in broken \/ waits[w] = i
    BY <1>3, Zenon DEF SavedDraftKept
  <2>2. i \in DOMAIN job /\ job[i].from = w
    BY <2>1, Zenon DEF Jobs
  <2>3. i = j => waits[w] = i \/ i \in broken
    BY <2>2, WorkFacts, Zenon DEF Waiting, Done
  <2> QED BY <2>1, <2>2, <2>3, WorkFacts
<1> QED BY <1>2, <1>3, Zenon

\* What becomes of a window's drafts, and of what it sends.
LEMMA WorkCharged ==
    ASSUME Types, Waiting, Overwriting, Saved, NEW j \in DOMAIN job, WorkStep(j),
           NEW w \in Window, Charged(w)
    PROVE  Charged(w)'
<1>1. \A d \in Told(w) : d \in Saves(w) /\ (d \in drafts' => d \in drafts)
  BY WorkDrafts, Zenon DEF Told
<1>2. ASSUME NEW d \in Told(w) \ {draftId[w]}
      PROVE  \E i \in Told(w) : job'[i].prev = d /\ (d \in drafts' => i \in broken')
  <2>1. PICK i \in Told(w) : job[i].prev = d /\ (d \in drafts => i \in broken)
    BY Zenon DEF Charged
  <2>2. i \in DOMAIN job
    BY Zenon DEF Told, Saves, Jobs
  <2> QED BY <1>1, <2>1, <2>2, WorkFacts, Zenon
<1>3. ASSUME NEW d \in (drafts' \cap Saves(w)) \ Told(w)
      PROVE  d = waits[w] \/ d \in broken'
  <2>1. CASE d \in drafts
    BY <2>1, WorkFacts, Zenon DEF Charged
  <2>2. CASE d = j
    BY <2>2, WorkFacts, Zenon DEF Waiting, Done, Saves, Jobs
  <2> QED BY <2>1, <2>2, WorkDrafts, Zenon
<1>4. Saves(w)' = Saves(w)
  BY WorkFacts DEF Saves
<1> QED BY <1>2, <1>3, <1>4, WorkFacts DEF Charged

\* The rows of a window in the outbound queue, when a handler steps.
LEMMA WorkSent ==
    ASSUME Types, Waiting, Saved, NEW j \in DOMAIN job, WorkStep(j), NEW w \in Window, Sent(w)
    PROVE  Sent(w)'
<1>1. Sends(w)' = Sends(w) /\ \A i \in Sends(w) : i \in DOMAIN job /\ job[i].from = w
  BY WorkFacts DEF Sends, Jobs
<1>2. j \in Sends(w) \ broken' => waits[w] = j
  BY <1>1, WorkFacts, Zenon DEF Waiting, Done
<1>3. \A i \in queue' : i \in queue \/ (i = j /\ job[j].pc = "enqueue" /\ job'[j].pc = "routed")
  BY Zenon DEF WorkStep, Advance
<1>4. ASSUME NEW i \in Sends(w) \ broken', job'[i].pc = "ok", waits[w] # i
      PROVE  w \notin open
  <2>1. i # j
    BY <1>2, <1>4, Zenon
  <2> QED BY <1>1, <1>4, <2>1, WorkFacts, Zenon DEF Sent
<1>5. ASSUME NEW i \in (Sends(w) \cap queue') \ broken'
      PROVE  job'[i].pc \in {"routed", "ok"}
  <2>1. CASE i \notin queue
    BY <1>3, <2>1, Zenon
  <2>2. CASE i \in queue /\ i # j
    BY <1>1, <2>2, WorkFacts DEF Sent
  <2>3. CASE i \in queue /\ i = j
    <3>1. job[j].pc = "routed"
      BY <2>3, WorkFacts, Zenon DEF Sent
    <3> QED BY <2>3, <3>1, Zenon DEF WorkStep, Advance
  <2> QED BY <2>1, <2>2, <2>3, Zenon
<1>6. ASSUME NEW i \in (Sends(w) \cap queue') \ broken', NEW k \in (Sends(w) \cap queue') \ broken'
      PROVE  i = k
  <2>1. ASSUME NEW x \in (Sends(w) \cap queue') \ broken', x # j, j \in Sends(w) \ broken',
               job[j].pc = "enqueue"
        PROVE  FALSE
    <3>1. x \in queue /\ waits[w] = j /\ j # 0
      BY <1>2, <1>3, <2>1 DEF Types
    <3>2. job[x].pc \in {"routed", "ok"} /\ x \notin broken
      BY <2>1, <3>1, WorkFacts, Zenon DEF Sent
    <3>3. job[x].pc = "ok"
      BY <1>1, <2>1, <3>1, <3>2, Zenon DEF Waiting, Done
    <3> QED BY <2>1, <3>1, <3>2, <3>3, Zenon DEF Sent
  <2>2. CASE i \in queue /\ k \in queue
    BY <2>2, WorkFacts, Zenon DEF Sent
  <2> QED BY <1>3, <2>1, <2>2, Zenon
<1> QED BY <1>1, <1>4, <1>5, <1>6, WorkFacts, Zenon DEF Sent

-----------------------------------------------------------------------------
(* A new request.                                                          *)

\* The new job adds to no set of drafts that its window was told of.
LEMMA StartFacts ==
    ASSUME Types, Waiting, Overwriting, NEW o \in Client, StartStep(o)
    PROVE  /\ NewJob \notin DOMAIN job /\ NewJob # 0 /\ DOMAIN job' = DOMAIN job \cup {NewJob}
           /\ \A i \in DOMAIN job : job'[i] = job[i]
           /\ waits[o] = 0 /\ waits'[o] = NewJob /\ job'[NewJob].from = o
           /\ \A x \in Client \ {o} : waits'[x] = waits[x]
           /\ UNCHANGED <<open, draftId, drafts, queue, removed, broken>>
           /\ \A w, kind : /\ Jobs(w, kind) \subseteq Jobs(w, kind)'
                           /\ Jobs(w, kind)' \subseteq Jobs(w, kind) \cup {NewJob}
                           /\ NewJob \in Jobs(w, kind)' => w = o /\ job'[NewJob].kind = kind
           /\ \A w \in Window : Told(w)' = Told(w)
<1>0. PICK n : n = NewJob
  BY Zenon
<1>1. /\ n \notin DOMAIN job /\ n # 0 /\ DOMAIN job' = DOMAIN job \cup {n}
      /\ \A i \in DOMAIN job : job'[i] = job[i]
      /\ waits[o] = 0 /\ job'[n].from = o
      /\ UNCHANGED <<open, draftId, drafts, queue, removed, broken>>
  BY <1>0, Zenon DEF StartStep, NewJob
<1>2. waits'[o] = n /\ \A x \in Client \ {o} : waits'[x] = waits[x]
  BY <1>0, Zenon DEF StartStep, NewJob, Types
<1>3. \A w, kind : /\ Jobs(w, kind) \subseteq Jobs(w, kind)'
                   /\ Jobs(w, kind)' \subseteq Jobs(w, kind) \cup {n}
                   /\ n \in Jobs(w, kind)' => w = o /\ job'[n].kind = kind
  BY <1>1, Zenon DEF Jobs
<1>4. ASSUME NEW w \in Window
      PROVE  Told(w)' = Told(w)
  <2>1. \A d : Reported(w, d) => d \in DOMAIN job
    BY Zenon DEF Reported, Saves, Jobs
  <2>2. draftId[w] # n /\ \A i \in Saves(w) : i \in DOMAIN job /\ job[i].prev # n
    BY <1>1, <2>1, Zenon DEF Overwriting, Saves, Jobs
  <2>3. n \in Saves(w)' => w = o /\ job'[n].prev = draftId[w]
    BY <1>0, <1>3 DEF StartStep, NewJob, Saves
  <2>4. n \in Saves(w)' => job'[n].prev # n
    BY <2>2, <2>3, Zenon
  <2>5. ASSUME NEW d \in Told(w)'
        PROVE  d \in Told(w)
    <3>1. d # n
      BY <1>1, <1>3, <2>2, <2>4 DEF Told, Saves
    <3>2. d \in Saves(w)
      BY <1>3, <3>1, Zenon DEF Told, Saves
    <3> QED BY <1>1, <1>3, <2>2, <2>3, <3>2 DEF Told, Saves
  <2>6. Told(w) \subseteq Told(w)'
    BY <1>1, <1>3, <2>2, Zenon DEF Told, Saves
  <2> QED BY <2>5, <2>6, Zenon
<1> QED BY <1>0, <1>1, <1>2, <1>3, <1>4, Zenon

\* A new request keeps the invariant.
LEMMA StartInv ==
    ASSUME Types, ComposeInv, NEW o \in Client, StartStep(o)
    PROVE  ComposeInv'
<1>0. PICK n : n = NewJob
  BY Zenon
<1>1. Waiting /\ Overwriting /\ Saved /\ SavedDraftKept
  BY Zenon DEF ComposeInv
<1>2. /\ n \notin DOMAIN job /\ n # 0 /\ DOMAIN job' = DOMAIN job \cup {n}
      /\ \A i \in DOMAIN job : job'[i] = job[i]
      /\ waits[o] = 0 /\ waits'[o] = n /\ job'[n].from = o
      /\ \A x \in Client \ {o} : waits'[x] = waits[x]
      /\ UNCHANGED <<open, draftId, drafts, queue, removed, broken>>
      /\ \A w, kind : /\ Jobs(w, kind) \subseteq Jobs(w, kind)'
                      /\ Jobs(w, kind)' \subseteq Jobs(w, kind) \cup {n}
                      /\ n \in Jobs(w, kind)' => w = o /\ job'[n].kind = kind
      /\ \A w \in Window : Told(w)' = Told(w)
  BY <1>0, <1>1, StartFacts
<1>3. /\ job'[n].kind \in {"save", "send"} /\ job'[n].pc \in {"find", "resolve"}
      /\ job'[n].kind = "save" => job'[n].pc = "find" /\ o \in open /\ job'[n].prev = draftId[o]
      /\ job'[n].kind = "send" => job'[n].pc = "resolve"
      /\ o \in open \/ o = Smtp
  BY <1>0, Zenon DEF StartStep, NewJob
<1>4. \A w \in Window : w \in Client
  BY Zenon DEF Client
<1>5. \A i \in DOMAIN job : i # n
  BY <1>2, Zenon
<1>6. Waiting'
  <2>1. \A x \in Client : waits'[x] # 0 => waits'[x] \in DOMAIN job' /\ job'[waits'[x]].from = x
    BY <1>1, <1>2 DEF Waiting
  <2>2. \A i \in DOMAIN job' : ~Done(i)' => waits'[job'[i].from] = i \/ i \in broken'
    <3> SUFFICES ASSUME NEW i \in DOMAIN job', ~Done(i)'
                 PROVE  waits'[job'[i].from] = i \/ i \in broken'
      BY Zenon
    <3>1. CASE i = n
      BY <1>2, <3>1, Zenon
    <3>2. CASE i \in DOMAIN job
      <4>0. job[i] \in Req /\ i # 0
        BY <3>2 DEF Types
      <4>1. job[i].from \in Client /\ i # 0
        BY <4>0, Zenon DEF Req
      <4> QED BY <1>1, <1>2, <3>2, <4>1 DEF Waiting, Done
    <3> QED BY <1>2, <3>1, <3>2, Zenon
  <2>3. \A w \in Window : waits'[w] \in Saves(w)' => job'[waits'[w]].prev = draftId'[w]
    <3> TAKE w \in Window
    <3>1. CASE w = o
      BY <1>2, <1>3, <3>1, Zenon DEF Saves
    <3>2. CASE w # o
      <4>1. waits'[w] = waits[w] /\ n \notin Saves(w)'
        BY <1>2, <1>4, <3>2 DEF Saves
      <4>2. \A i \in Saves(w) : i \in DOMAIN job
        BY Zenon DEF Saves, Jobs
      <4> QED BY <1>1, <1>2, <4>1, <4>2 DEF Waiting, Saves
    <3> QED BY <3>1, <3>2, Zenon
  <2> QED BY <2>1, <2>2, <2>3, Zenon DEF Waiting
<1>7. \A w \in Window : \A d : Reported(w, d) => Reported(w, d)'
  BY <1>2, <1>4, <1>5, Zenon DEF Reported, Saves, Jobs
<1>8. Overwriting'
  <2>1. \A w \in Window : draftId'[w] = 0 \/ Reported(w, draftId[w])'
    BY <1>1, <1>2, <1>7, Zenon DEF Overwriting
  <2>2. ASSUME NEW w \in Window, NEW i \in Saves(w)'
        PROVE  (job[i].prev = 0 \/ Reported(w, job[i].prev))'
    <3>1. CASE i = n
      BY <1>2, <1>3, <2>1, <3>1 DEF Saves
    <3>2. CASE i \in Saves(w)
      <4>1. i \in DOMAIN job
        BY <3>2, Zenon DEF Saves, Jobs
      <4> QED BY <1>1, <1>2, <1>7, <3>2, <4>1 DEF Overwriting
    <3> QED BY <1>2, <3>1, <3>2 DEF Saves
  <2> QED BY <1>2, <2>1, <2>2, Zenon DEF Overwriting, Reported
<1>9. Saved'
  <2>1. ASSUME NEW i \in DOMAIN job', job'[i].kind = "save"
        PROVE  /\ job'[i].from \in Window
               /\ job'[i].pc \in {"find", "delete", "append", "ok", "failed"}
               /\ job'[i].pc \in {"append", "ok"} /\ job'[i].prev \in drafts' => i \in broken'
               /\ job'[i].pc = "ok" /\ waits'[job'[i].from] = i => i \in drafts' \cup removed'
    <3>1. CASE i = n
      BY <1>2, <1>3, <2>1, <3>1, Zenon DEF Types
    <3>2. CASE i \in DOMAIN job
      BY <1>1, <1>2, <1>4, <1>5, <2>1, <3>2 DEF Saved
    <3> QED BY <1>2, <3>1, <3>2, Zenon
  <2>2. \A i \in DOMAIN job' : job'[i].pc \in {"find", "delete", "append"} => job'[i].kind = "save"
    BY <1>1, <1>2, <1>3 DEF Saved
  <2>3. \A d \in drafts' : job'[d].pc = "ok"
    BY <1>1, <1>2, Zenon DEF Saved, Types
  <2> QED BY <2>1, <2>2, <2>3, Zenon DEF Saved
<1>10. SavedDraftKept'
  <2> SUFFICES ASSUME NEW w \in Window, draftId[w] \notin drafts \cup removed \cup {0}
               PROVE  \E i \in Jobs(w, "save")' :
                        /\ job'[i].prev = draftId[w]
                        /\ job'[i].pc \in {"append", "failed"} \/ i \in broken \/ waits'[w] = i
    BY <1>2, Zenon DEF SavedDraftKept
  <2>1. PICK i \in Jobs(w, "save") :
            /\ job[i].prev = draftId[w]
            /\ job[i].pc \in {"append", "failed"} \/ i \in broken \/ waits[w] = i
    BY <1>1, Zenon DEF SavedDraftKept
  <2>2. i \in DOMAIN job /\ i # 0
    BY <2>1 DEF Jobs, Types
  <2> QED BY <1>2, <1>4, <2>1, <2>2, Zenon
<1>11. ASSUME NEW w \in Window
       PROVE  Charged(w)' /\ Sent(w)'
  <2>1. Charged(w) /\ Sent(w)
    BY Zenon DEF ComposeInv
  <2>2. \A i \in Told(w) : i \in DOMAIN job
    BY Zenon DEF Told, Saves, Jobs
  <2>3. n \notin drafts /\ n \notin queue
    BY <1>2, Zenon DEF Types
  <2>4. Charged(w)'
    <3>1. \A d \in Told(w) \ {draftId[w]} :
             \E i \in Told(w) : job'[i].prev = d /\ (d \in drafts => i \in broken)
      BY <1>2, <2>1, <2>2, Zenon DEF Charged
    <3>2. ASSUME NEW d \in (drafts \cap Saves(w)') \ Told(w)
          PROVE  d = waits'[w] \/ d \in broken
      <4>1. d \in Saves(w) /\ d # 0
        BY <1>2, <2>3 DEF Saves, Types
      <4> QED BY <1>2, <1>4, <2>1, <4>1, Zenon DEF Charged
    <3> QED BY <1>2, <3>1, <3>2 DEF Charged
  <2>5. Sent(w)'
    <3>1. w \notin open => waits'[w] = 0
      BY <1>2, <1>3, <1>4, <2>1, ComposeAssumption, Zenon DEF Sent
    <3>2. ASSUME NEW i \in Sends(w)' \ broken, job'[i].pc = "ok", waits'[w] # i
          PROVE  w \notin open
      <4>1. i \in Sends(w) /\ i \in DOMAIN job /\ i # 0
        BY <1>2, <1>3, <3>2 DEF Sends, Jobs, Types
      <4> QED BY <1>2, <1>4, <2>1, <3>2, <4>1, Zenon DEF Sent
    <3>3. Sends(w)' \cap queue = Sends(w) \cap queue
      BY <1>2, <2>3 DEF Sends
    <3>4. \A i \in Sends(w) : job'[i] = job[i]
      BY <1>2, Zenon DEF Sends, Jobs
    <3>5. \A i \in (Sends(w)' \cap queue) \ broken : job'[i].pc \in {"routed", "ok"}
      BY <2>1, <3>3, <3>4, Zenon DEF Sent
    <3>6. \A i, k \in (Sends(w)' \cap queue) \ broken : i = k
      BY <2>1, <3>3, Zenon DEF Sent
    <3> QED BY <1>2, <3>1, <3>2, <3>5, <3>6, Zenon DEF Sent
  <2> QED BY <2>4, <2>5, Zenon
<1> QED BY <1>6, <1>8, <1>9, <1>10, <1>11, Zenon DEF ComposeInv

-----------------------------------------------------------------------------
(* An answer.                                                              *)

\* The answer leaves the jobs as they are; a successful save adds the draft its
\* window is told of, and keeps those it was told of before.
LEMMA AnswerFacts ==
    ASSUME Types, Waiting, NEW o \in Client, AnswerStep(o)
    PROVE  /\ waits[o] \in DOMAIN job /\ waits[o] # 0 /\ job[waits[o]].from = o
           /\ job[waits[o]].pc \in {"ok", "failed"}
           /\ DOMAIN job' = DOMAIN job
           /\ \A i \in DOMAIN job :
                 /\ job'[i].kind = job[i].kind /\ job'[i].from = job[i].from
                 /\ job'[i].prev = job[i].prev /\ job'[i].pc = job[i].pc
           /\ \A x, kind : Jobs(x, kind)' = Jobs(x, kind)
           /\ waits'[o] = 0 /\ \A x \in Client \ {o} : waits'[x] = waits[x]
           /\ \A w \in Window \ {o} : draftId'[w] = draftId[w] /\ (w \in open' <=> w \in open)
           /\ UNCHANGED <<drafts, queue, removed, broken>>
<1>1. /\ waits[o] \in DOMAIN job /\ job[waits[o]].from = o /\ job[waits[o]].pc \in {"ok", "failed"}
      /\ Advance(waits[o], job[waits[o]].pc) /\ waits' = [waits EXCEPT ![o] = 0]
      /\ UNCHANGED <<drafts, queue, removed, broken>>
  BY Zenon DEF AnswerStep
<1>2. waits[o] # 0
  BY <1>1 DEF Types
<1>3. /\ DOMAIN job' = DOMAIN job
      /\ \A i \in DOMAIN job :
            /\ job'[i].kind = job[i].kind /\ job'[i].from = job[i].from
            /\ job'[i].prev = job[i].prev /\ job'[i].pc = job[i].pc
  BY <1>1, Zenon DEF Advance
<1>4. \A x, kind : Jobs(x, kind)' = Jobs(x, kind)
  BY <1>3, Zenon DEF Jobs
<1>5. waits'[o] = 0 /\ \A x \in Client \ {o} : waits'[x] = waits[x]
  BY <1>1, Zenon DEF Types
<1>6. \A w \in Window \ {o} : draftId'[w] = draftId[w] /\ (w \in open' <=> w \in open)
  BY Zenon DEF AnswerStep, Types
<1> QED BY <1>1, <1>2, <1>3, <1>4, <1>5, <1>6, Zenon

\* An answer keeps the invariant.
LEMMA AnswerInv ==
    ASSUME Types, ComposeInv, NEW o \in Client, AnswerStep(o)
    PROVE  ComposeInv'
<1>0. PICK j : j = waits[o]
  BY Zenon
<1>1. Waiting /\ Overwriting /\ Saved /\ SavedDraftKept
  BY Zenon DEF ComposeInv
<1>2. /\ j \in DOMAIN job /\ j # 0 /\ job[j].from = o /\ job[j].pc \in {"ok", "failed"}
      /\ DOMAIN job' = DOMAIN job
      /\ \A i \in DOMAIN job :
            /\ job'[i].kind = job[i].kind /\ job'[i].from = job[i].from
            /\ job'[i].prev = job[i].prev /\ job'[i].pc = job[i].pc
      /\ \A x, kind : Jobs(x, kind)' = Jobs(x, kind)
      /\ waits'[o] = 0 /\ \A x \in Client \ {o} : waits'[x] = waits[x]
      /\ \A w \in Window \ {o} : draftId'[w] = draftId[w] /\ (w \in open' <=> w \in open)
      /\ UNCHANGED <<drafts, queue, removed, broken>>
  BY <1>0, <1>1, AnswerFacts, Zenon
<1> DEFINE news(w) == w = o /\ job[j].pc = "ok" /\ job[j].kind = "save"
<1>3. ASSUME NEW w \in Window
      PROVE  /\ draftId'[w] = IF news(w) THEN j ELSE draftId[w]
             /\ w \in open' <=> w \in open /\ ~(w = o /\ job[j].pc = "ok" /\ job[j].kind = "send")
  BY <1>0, <1>2 DEF AnswerStep, Types
<1>4. ASSUME NEW w \in Window
      PROVE  /\ w \in Client /\ Saves(w)' = Saves(w) /\ Sends(w)' = Sends(w)
             /\ news(w) => j \in Saves(w) /\ job[j].prev = draftId[w]
             /\ \A i \in Saves(w) \cup Sends(w) : i \in DOMAIN job /\ i # 0 /\ job[i].from = w
             /\ \A i \in Saves(w) : job[i].kind = "save"
             /\ \A i \in Sends(w) : job[i].kind = "send"
  <2>1. w \in Client /\ Saves(w)' = Saves(w) /\ Sends(w)' = Sends(w)
    BY <1>2, Zenon DEF Client, Saves, Sends
  <2>2. \A i \in Saves(w) \cup Sends(w) : i \in DOMAIN job /\ i # 0 /\ job[i].from = w
    BY DEF Saves, Sends, Jobs, Types
  <2>3. news(w) => j \in Saves(w)
    BY <1>2, Zenon DEF Saves, Jobs
  <2>4. news(w) => job[j].prev = draftId[w]
    BY <1>0, <1>1, <2>3, Zenon DEF Waiting
  <2>5. /\ \A i \in Saves(w) : job[i].kind = "save"
        /\ \A i \in Sends(w) : job[i].kind = "send"
    BY Zenon DEF Saves, Sends, Jobs
  <2> QED BY <2>1, <2>2, <2>3, <2>4, <2>5, Zenon
<1>5. \A w \in Window : \A d : Reported(w, d) => Reported(w, d)'
  <2> SUFFICES ASSUME NEW w \in Window, NEW d, Reported(w, d)
               PROVE  Reported(w, d)'
    BY Zenon
  <2>1. d \in Saves(w) /\ job[d].pc = "ok" /\ waits[w] # d
    BY Zenon DEF Reported
  <2>2. waits'[w] # d
    BY <1>2, <1>4, <2>1
  <2>3. d \in Saves(w)' /\ job'[d].pc = "ok"
    BY <1>2, <1>4, <2>1, Zenon
  <2> QED BY <2>2, <2>3, Zenon DEF Reported
<1>6. \A w \in Window : news(w) => Reported(w, j)'
  BY <1>2, <1>4 DEF Reported
<1> HIDE DEF news
<1>7. Waiting'
  <2>1. \A x \in Client : waits'[x] # 0 => waits'[x] \in DOMAIN job' /\ job'[waits'[x]].from = x
    BY <1>1, <1>2 DEF Waiting
  <2>2. \A i \in DOMAIN job' : ~Done(i)' => waits'[job'[i].from] = i \/ i \in broken'
    <3> SUFFICES ASSUME NEW i \in DOMAIN job, ~Done(i)
                 PROVE  waits'[job[i].from] = i \/ i \in broken
      BY <1>2, Zenon DEF Done
    <3>1. job[i] \in Req
      BY DEF Types
    <3>2. job[i].from \in Client
      BY <3>1, Zenon DEF Req
    <3>3. waits[job[i].from] = i \/ i \in broken
      BY <1>1, Zenon DEF Waiting
    <3> QED BY <1>0, <1>2, <3>2, <3>3, Zenon DEF Done
  <2>3. \A w \in Window : waits'[w] \in Saves(w)' => job'[waits'[w]].prev = draftId'[w]
    <3> TAKE w \in Window
    <3>1. CASE w = o
      BY <1>2, <1>4, <3>1
    <3>2. CASE w # o
      <4>1. waits[w] \in Saves(w) => job[waits[w]].prev = draftId[w]
        BY <1>1, Zenon DEF Waiting
      <4> QED BY <1>2, <1>4, <3>2, <4>1
    <3> QED BY <3>1, <3>2, Zenon
  <2> QED BY <2>1, <2>2, <2>3, Zenon DEF Waiting
<1>8. Overwriting'
  <2>1. ASSUME NEW w \in Window
        PROVE  (draftId[w] = 0 \/ Reported(w, draftId[w]))'
    <3>1. CASE news(w)
      BY <1>3, <1>6, <3>1, Zenon DEF Reported
    <3>2. CASE ~news(w)
      <4>1. draftId'[w] = draftId[w]
        BY <1>3, <3>2, Zenon
      <4>2. draftId[w] = 0 \/ Reported(w, draftId[w])
        BY <1>1, Zenon DEF Overwriting
      <4> QED BY <1>5, <4>1, <4>2, Zenon DEF Reported
    <3> QED BY <3>1, <3>2, Zenon
  <2>2. ASSUME NEW w \in Window, NEW i \in Saves(w)'
        PROVE  (job[i].prev = 0 \/ Reported(w, job[i].prev))'
    <3>1. i \in Saves(w) /\ job'[i].prev = job[i].prev
      BY <1>2, <1>4
    <3>2. job[i].prev = 0 \/ Reported(w, job[i].prev)
      BY <1>1, <3>1, Zenon DEF Overwriting
    <3> QED BY <1>5, <3>1, <3>2, Zenon DEF Reported
  <2> QED BY <2>1, <2>2, Zenon DEF Overwriting
<1>9. Saved'
  <2>1. ASSUME NEW i \in DOMAIN job, job[i].kind = "save"
        PROVE  /\ job'[i].from \in Window
               /\ job'[i].pc \in {"find", "delete", "append", "ok", "failed"}
               /\ job'[i].pc \in {"append", "ok"} /\ job'[i].prev \in drafts' => i \in broken'
               /\ job'[i].pc = "ok" /\ waits'[job'[i].from] = i => i \in drafts' \cup removed'
    <3>1. /\ job[i].from \in Window
          /\ job[i].pc \in {"find", "delete", "append", "ok", "failed"}
          /\ job[i].pc \in {"append", "ok"} /\ job[i].prev \in drafts => i \in broken
          /\ job[i].pc = "ok" /\ waits[job[i].from] = i => i \in drafts \cup removed
      BY <1>1, <2>1, Zenon DEF Saved
    <3>2. waits'[job[i].from] = i => waits[job[i].from] = i
      <4>1. i # 0
        BY DEF Types
      <4> QED BY <1>2, <1>4, <3>1, <4>1
    <3> QED BY <1>2, <3>1, <3>2, Zenon
  <2>2. \A i \in DOMAIN job : job'[i].pc \in {"find", "delete", "append"} => job'[i].kind = "save"
    BY <1>1, <1>2 DEF Saved
  <2>3. \A d \in drafts' : job'[d].pc = "ok"
    BY <1>1, <1>2, Zenon DEF Saved, Types
  <2> QED BY <1>2, <2>1, <2>2, <2>3, Zenon DEF Saved
<1>10. SavedDraftKept'
  <2> SUFFICES ASSUME NEW w \in Window, draftId'[w] \notin drafts \cup removed \cup {0}
               PROVE  \E i \in Jobs(w, "save") :
                        /\ job[i].prev = draftId'[w]
                        /\ job[i].pc \in {"append", "failed"} \/ i \in broken \/ waits'[w] = i
    <3>1. \A w \in Window : \A i \in Jobs(w, "save") :
             job'[i].prev = job[i].prev /\ job'[i].pc = job[i].pc
      BY <1>2, Zenon DEF Jobs
    <3> QED BY <1>2, <3>1 DEF SavedDraftKept
  <2>1. ~news(w)
    BY <1>0, <1>1, <1>2, <1>3, Zenon DEF news, Saved
  <2>2. draftId'[w] = draftId[w]
    BY <1>3, <2>1, Zenon
  <2>3. PICK i \in Jobs(w, "save") :
            /\ job[i].prev = draftId[w]
            /\ job[i].pc \in {"append", "failed"} \/ i \in broken \/ waits[w] = i
    BY <1>1, <2>2, Zenon DEF SavedDraftKept
  <2>4. i \in Saves(w) /\ i \in DOMAIN job
    BY <1>4, Zenon DEF Saves
  <2>5. w # o => waits'[w] = waits[w]
    BY <1>2, <1>4, Zenon
  <2>6. w = o /\ waits[w] = i => job[i].pc = "failed"
    BY <1>0, <1>2, <1>4, <2>1, <2>4 DEF news
  <2> QED BY <2>2, <2>3, <2>5, <2>6, Zenon
<1>11. ASSUME NEW w \in Window
       PROVE  Charged(w)'
  <2>1. Charged(w)
    BY Zenon DEF ComposeInv
  <2>2. Told(w) \subseteq Told(w)' /\ Told(w)' \subseteq Told(w) \cup {draftId'[w]}
    <3>1. \A i \in Saves(w) : job'[i].prev = job[i].prev
      BY <1>2, <1>4, Zenon
    <3> QED BY <1>3, <1>4, <3>1 DEF Told
  <2>3. \A i \in Told(w) : i \in Saves(w) /\ job'[i].prev = job[i].prev
    BY <1>2, <1>4, Zenon DEF Told
  <2>4. CASE news(w)
    <3>1. draftId'[w] = j /\ j \in Saves(w) /\ j \in Told(w)' /\ job'[j].prev = draftId[w]
      BY <1>2, <1>3, <1>4, <2>4 DEF Told
    <3>2. draftId[w] \in drafts => j \in broken
      BY <1>1, <1>2, <1>4, <2>4, Zenon DEF Saved, news
    <3>3. ASSUME NEW d \in Told(w)' \ {j}
          PROVE  \E i \in Told(w)' : job'[i].prev = d /\ (d \in drafts => i \in broken)
      <4>1. d \in Told(w)
        BY <2>2, <3>1, Zenon
      <4>2. CASE d = draftId[w]
        BY <3>1, <3>2, <4>2, Zenon
      <4>3. CASE d # draftId[w]
        <5>1. PICK i \in Told(w) : job[i].prev = d /\ (d \in drafts => i \in broken)
          BY <2>1, <4>1, <4>3, Zenon DEF Charged
        <5> QED BY <2>2, <2>3, <5>1, Zenon
      <4> QED BY <4>2, <4>3, Zenon
    <3>4. ASSUME NEW d \in (drafts \cap Saves(w)) \ Told(w)'
          PROVE  d \in broken
      BY <1>0, <2>1, <2>2, <2>4, <3>1 DEF Charged, news
    <3> QED BY <1>2, <1>4, <3>1, <3>3, <3>4, Zenon DEF Charged
  <2>5. CASE ~news(w)
    <3>1. draftId'[w] = draftId[w]
      BY <1>3, <2>5, Zenon
    <3>2. Told(w)' = Told(w)
      <4>1. \A i \in Saves(w) : job'[i].prev = job[i].prev
        BY <1>2, <1>4, Zenon
      <4> QED BY <1>4, <3>1, <4>1 DEF Told
    <3>3. \A d \in Told(w) \ {draftId[w]} :
             \E i \in Told(w) : job'[i].prev = d /\ (d \in drafts => i \in broken)
      BY <2>1, <2>3, Zenon DEF Charged
    <3>4. ASSUME NEW d \in (drafts \cap Saves(w)) \ Told(w)
          PROVE  d = waits'[w] \/ d \in broken
      <4>1. d = waits[w] \/ d \in broken
        BY <2>1, Zenon DEF Charged
      <4>2. d = waits[w] => w # o
        BY <1>0, <1>1, <1>4, <2>5 DEF news, Saved
      <4> QED BY <1>2, <1>4, <4>1, <4>2, Zenon
    <3> QED BY <1>2, <1>4, <3>1, <3>2, <3>3, <3>4 DEF Charged
  <2> QED BY <2>4, <2>5, Zenon
<1>12. ASSUME NEW w \in Window
       PROVE  Sent(w)'
  <2>1. Sent(w)
    BY Zenon DEF ComposeInv
  <2>2. w \notin open' => waits'[w] = 0
    BY <1>2, <1>3, <1>4, <2>1, Zenon DEF Sent
  <2>3. ASSUME NEW i \in Sends(w) \ broken, job[i].pc = "ok", waits'[w] # i
        PROVE  w \notin open'
    <3>1. CASE w = o /\ i = j
      BY <1>3, <1>4, <2>3, <3>1, Zenon
    <3>2. CASE ~(w = o /\ i = j)
      <4>1. waits[w] # i
        BY <1>0, <1>2, <1>4, <2>3, <3>2
      <4> QED BY <1>3, <2>1, <2>3, <4>1, Zenon DEF Sent
    <3> QED BY <3>1, <3>2, Zenon
  <2>4. \A i \in Sends(w) : job'[i].pc = job[i].pc
    BY <1>2, <1>4, Zenon
  <2> QED BY <1>2, <1>4, <2>1, <2>2, <2>3, <2>4 DEF Sent
<1> QED BY <1>7, <1>8, <1>9, <1>10, <1>11, <1>12, Zenon DEF ComposeInv

-----------------------------------------------------------------------------
(* Lost answers, a restart, and drafts the user removes.                   *)

\* Who waited for a job that goes on, or that had ended, is lost to it.
LEMMA LoseInv ==
    ASSUME Types, ComposeInv, NEW S \in SUBSET Client, NEW down \in BOOLEAN, LoseStep(S, down)
    PROVE  ComposeInv'
<1>1. Waiting /\ Overwriting /\ Saved /\ SavedDraftKept
  BY Zenon DEF ComposeInv
<1>2. /\ DOMAIN job' = DOMAIN job
      /\ \A i \in DOMAIN job :
            /\ job'[i].kind = job[i].kind /\ job'[i].from = job[i].from
            /\ job'[i].prev = job[i].prev
            /\ job'[i].pc = job[i].pc \/ (S = Client /\ ~Done(i) /\ job'[i].pc = "failed")
      /\ broken \subseteq broken'
      /\ UNCHANGED <<open, draftId, drafts, queue, removed>>
  BY Zenon DEF LoseStep, Ends
<1>3. \A x \in Client : /\ waits'[x] \in {0, waits[x]}
                        /\ x \notin S => waits'[x] = waits[x]
                        /\ x \in S /\ waits[x] # 0 => waits[x] \in broken'
  BY Zenon DEF LoseStep
<1>4. \A i \in DOMAIN job : i # 0 /\ job[i].from \in Client
  <2> TAKE i \in DOMAIN job
  <2>1. i # 0 /\ job[i] \in Req
    BY DEF Types
  <2> QED BY <2>1, Zenon DEF Req
<1>5. \A x, kind : Jobs(x, kind)' = Jobs(x, kind)
  BY <1>2, Zenon DEF Jobs
<1>6. ASSUME NEW w \in Window
      PROVE  /\ w \in Client /\ Saves(w)' = Saves(w) /\ Sends(w)' = Sends(w)
             /\ \A i \in Saves(w) \cup Sends(w) : i \in DOMAIN job /\ i # 0 /\ job[i].from = w
             /\ Told(w)' = Told(w)
  <2>1. w \in Client /\ Saves(w)' = Saves(w) /\ Sends(w)' = Sends(w)
    BY <1>5, Zenon DEF Client, Saves, Sends
  <2>2. \A i \in Saves(w) \cup Sends(w) : i \in DOMAIN job /\ i # 0 /\ job[i].from = w
    BY <1>4, Zenon DEF Saves, Sends, Jobs
  <2>3. Told(w)' = Told(w)
    BY <1>2, <2>1, <2>2, Zenon DEF Told
  <2> QED BY <2>1, <2>2, <2>3, Zenon
<1>7. \A w \in Window : \A d : Reported(w, d) => Reported(w, d)'
  BY <1>2, <1>3, <1>6 DEF Reported, Done
<1>8. Waiting'
  <2>1. \A x \in Client : waits'[x] # 0 => waits'[x] \in DOMAIN job' /\ job'[waits'[x]].from = x
    BY <1>1, <1>2, <1>3 DEF Waiting
  <2>2. ASSUME NEW i \in DOMAIN job, ~Done(i)'
        PROVE  waits'[job'[i].from] = i \/ i \in broken'
    <3>1. ~Done(i)
      BY <1>2, <2>2, Zenon DEF Done
    <3>2. waits[job[i].from] = i \/ i \in broken
      BY <1>1, <3>1, Zenon DEF Waiting
    <3> QED BY <1>2, <1>3, <1>4, <3>2, Zenon
  <2>3. ASSUME NEW w \in Window, waits'[w] \in Saves(w)
        PROVE  job'[waits'[w]].prev = draftId[w]
    <3>1. waits'[w] = waits[w] /\ waits[w] \in DOMAIN job
      BY <1>3, <1>6, <2>3, Zenon
    <3> QED BY <1>1, <1>2, <2>3, <3>1, Zenon DEF Waiting
  <2> QED BY <1>2, <1>6, <2>1, <2>2, <2>3, Zenon DEF Waiting
<1>9. Overwriting'
  <2>1. \A w \in Window : \A i \in Saves(w) : job'[i].prev = job[i].prev
    BY <1>2, <1>6, Zenon
  <2> QED BY <1>1, <1>2, <1>6, <1>7, <2>1, Zenon DEF Overwriting
<1>10. Saved'
  <2>1. ASSUME NEW i \in DOMAIN job, job[i].kind = "save"
        PROVE  /\ job'[i].from \in Window
               /\ job'[i].pc \in {"find", "delete", "append", "ok", "failed"}
               /\ job'[i].pc \in {"append", "ok"} /\ job'[i].prev \in drafts' => i \in broken'
               /\ job'[i].pc = "ok" /\ waits'[job'[i].from] = i => i \in drafts' \cup removed'
    <3>1. /\ job[i].from \in Window
          /\ job[i].pc \in {"find", "delete", "append", "ok", "failed"}
          /\ job[i].pc \in {"append", "ok"} /\ job[i].prev \in drafts => i \in broken
          /\ job[i].pc = "ok" /\ waits[job[i].from] = i => i \in drafts \cup removed
      BY <1>1, <2>1, Zenon DEF Saved
    <3>2. waits'[job[i].from] = i => waits[job[i].from] = i
      BY <1>3, <1>4, Zenon
    <3> QED BY <1>2, <3>1, <3>2, Zenon
  <2>2. \A i \in DOMAIN job : job'[i].pc \in {"find", "delete", "append"} => job'[i].kind = "save"
    BY <1>1, <1>2, Zenon DEF Saved
  <2>3. \A d \in drafts : job'[d].pc = "ok"
    BY <1>1, <1>2, Zenon DEF Saved, Types, Done
  <2> QED BY <1>2, <2>1, <2>2, <2>3, Zenon DEF Saved
<1>11. SavedDraftKept'
  <2> SUFFICES ASSUME NEW w \in Window, draftId[w] \notin drafts \cup removed \cup {0}
               PROVE  \E i \in Jobs(w, "save") :
                        /\ job'[i].prev = draftId[w]
                        /\ job'[i].pc \in {"append", "failed"} \/ i \in broken' \/ waits'[w] = i
    BY <1>2, <1>5, Zenon DEF SavedDraftKept
  <2>1. PICK i \in Jobs(w, "save") :
            /\ job[i].prev = draftId[w]
            /\ job[i].pc \in {"append", "failed"} \/ i \in broken \/ waits[w] = i
    BY <1>1, Zenon DEF SavedDraftKept
  <2>2. i \in DOMAIN job /\ i # 0 /\ w \in Client
    BY <1>6, Zenon DEF Saves
  <2> QED BY <1>2, <1>3, <2>1, <2>2
<1>12. ASSUME NEW w \in Window
       PROVE  Charged(w)'
  <2>1. Charged(w)
    BY Zenon DEF ComposeInv
  <2>2. \A i \in Told(w) : job'[i].prev = job[i].prev
    BY <1>2, <1>6, Zenon DEF Told
  <2>3. \A d \in Told(w) \ {draftId[w]} :
           \E i \in Told(w) : job'[i].prev = d /\ (d \in drafts => i \in broken')
    BY <1>2, <2>1, <2>2, Zenon DEF Charged
  <2>4. \A d \in (drafts \cap Saves(w)) \ Told(w) : d = waits'[w] \/ d \in broken'
    BY <1>2, <1>3, <1>6, <2>1 DEF Charged
  <2> QED BY <1>2, <1>6, <2>3, <2>4 DEF Charged
<1>13. ASSUME NEW w \in Window
       PROVE  Sent(w)'
  <2>1. Sent(w)
    BY Zenon DEF ComposeInv
  <2>2. w \notin open => waits'[w] = 0
    BY <1>3, <1>6, <2>1, Zenon DEF Sent
  <2>3. ASSUME NEW i \in Sends(w) \ broken', job'[i].pc = "ok", waits'[w] # i
        PROVE  w \notin open
    <3>1. job[i].pc = "ok" /\ i \notin broken
      BY <1>2, <1>6, <2>3, Zenon
    <3>2. waits[w] # i
      BY <1>3, <1>6, <2>3, Zenon
    <3> QED BY <2>1, <3>1, <3>2, Zenon DEF Sent
  <2>4. ASSUME NEW i \in (Sends(w) \cap queue) \ broken'
        PROVE  job'[i].pc \in {"routed", "ok"}
    <3>1. job[i].pc \in {"routed", "ok"} /\ i \notin broken
      BY <1>2, <2>1, Zenon DEF Sent
    <3>2. ~Done(i) => waits[w] = i
      BY <1>1, <1>6, <3>1 DEF Waiting
    <3>3. S = Client => Done(i)
      BY <1>3, <1>6, <3>2
    <3> QED BY <1>2, <1>6, <3>1, <3>3, Zenon
  <2>5. \A i, k \in (Sends(w) \cap queue) \ broken' : i = k
    BY <1>2, <2>1, Zenon DEF Sent
  <2> QED BY <1>2, <1>6, <2>2, <2>3, <2>4, <2>5, Zenon DEF Sent
<1> QED BY <1>8, <1>9, <1>10, <1>11, <1>12, <1>13, Zenon DEF ComposeInv

\* A draft that the user removes is remembered as removed.
LEMMA RemoveInv ==
    ASSUME Types, ComposeInv, NEW d \in drafts, RemoveStep(d)
    PROVE  ComposeInv'
<1>1. Waiting /\ Overwriting /\ Saved /\ SavedDraftKept
  BY Zenon DEF ComposeInv
<1>2. /\ drafts' \subseteq drafts /\ drafts \cup removed \subseteq drafts' \cup removed'
      /\ UNCHANGED <<job, waits, open, draftId, queue, broken>>
  BY Zenon DEF RemoveStep
<1>3. \A x, kind : Jobs(x, kind)' = Jobs(x, kind)
  BY <1>2, Zenon DEF Jobs
<1>4. \A w : Saves(w)' = Saves(w) /\ Sends(w)' = Sends(w)
  BY <1>3, Zenon DEF Saves, Sends
<1>5. Waiting' /\ Overwriting'
  BY <1>1, <1>2, <1>4, Zenon DEF Waiting, Overwriting, Reported, Done
<1>6. Saved'
  BY <1>1, <1>2, Zenon DEF Saved
<1>7. SavedDraftKept'
  BY <1>1, <1>2, <1>3, Zenon DEF SavedDraftKept
<1>8. ASSUME NEW w \in Window
      PROVE  Charged(w)' /\ Sent(w)'
  <2>1. Charged(w) /\ Sent(w)
    BY Zenon DEF ComposeInv
  <2>2. Told(w)' = Told(w)
    BY <1>2, <1>4, Zenon DEF Told
  <2>3. Charged(w)'
    BY <1>2, <1>4, <2>1, <2>2, Zenon DEF Charged
  <2>4. Sent(w)'
    BY <1>2, <1>4, <2>1, Zenon DEF Sent
  <2> QED BY <2>3, <2>4, Zenon
<1> QED BY <1>5, <1>6, <1>7, <1>8, Zenon DEF ComposeInv

\* A step that touches none of this.
LEMMA IdleInv ==
    ASSUME ComposeInv, IdleStep
    PROVE  ComposeInv'
<1>1. UNCHANGED <<job, waits, open, draftId, drafts, queue, removed, broken>>
  BY Zenon DEF IdleStep
<1>2. \A x, kind : Jobs(x, kind)' = Jobs(x, kind)
  BY <1>1, Zenon DEF Jobs
<1>3. \A w : Saves(w)' = Saves(w) /\ Sends(w)' = Sends(w)
  BY <1>2, Zenon DEF Saves, Sends
<1>4. Waiting' /\ Overwriting'
  BY <1>1, <1>3, Zenon DEF ComposeInv, Waiting, Overwriting, Reported, Done
<1>5. Saved' /\ SavedDraftKept'
  BY <1>1, <1>2, Zenon DEF ComposeInv, Saved, SavedDraftKept
<1>6. ASSUME NEW w \in Window
      PROVE  Charged(w)' /\ Sent(w)'
  <2>1. Told(w)' = Told(w)
    BY <1>1, <1>3, Zenon DEF Told
  <2> QED BY <1>1, <1>3, <2>1 DEF ComposeInv, Charged, Sent
<1> QED BY <1>4, <1>5, <1>6, Zenon DEF ComposeInv

-----------------------------------------------------------------------------
(* The theorems.                                                           *)

\* The invariant holds at first.
LEMMA ComposeInit ==
    ASSUME Init
    PROVE  Types /\ ComposeInv
<1>1. Types
  <2>1. envelope \in Session
    BY DEF Init, NewSession, Session
  <2> QED BY <2>1 DEF Init, Types, Client
<1>2. DOMAIN job = {} /\ \A x, kind : Jobs(x, kind) = {}
  BY DEF Init, Jobs
<1>3. \A w : Saves(w) = {} /\ Sends(w) = {} /\ Told(w) = {}
  BY <1>2, Zenon DEF Saves, Sends, Told
<1>4. Waiting /\ Overwriting /\ Saved /\ SavedDraftKept
  BY <1>2, <1>3, Zenon DEF Init, Waiting, Overwriting, Saved, SavedDraftKept, Client
<1>5. \A w \in Window : Charged(w) /\ Sent(w)
  BY <1>3, Zenon DEF Init, Charged, Sent, Client
<1> QED BY <1>1, <1>4, <1>5, Zenon DEF ComposeInv

\* Every step keeps the invariant.
LEMMA ComposeStep ==
    ASSUME Types, ComposeInv, [Next]_vars
    PROVE  Types' /\ ComposeInv'
<1>1. ASSUME NEW j \in DOMAIN job, WorkStep(j)
      PROVE  ComposeInv'
  <2>1. Waiting /\ Overwriting /\ Saved /\ SavedDraftKept
    BY Zenon DEF ComposeInv
  <2>2. Waiting' /\ Overwriting'
    BY <1>1, <2>1, WorkWaiting, Zenon
  <2>3. Saved'
    BY <1>1, <2>1, WorkSaved, Zenon
  <2>4. SavedDraftKept'
    BY <1>1, <2>1, WorkKept, Zenon
  <2>5. ASSUME NEW w \in Window
        PROVE  Charged(w)' /\ Sent(w)'
    <3>1. Charged(w) /\ Sent(w)
      BY Zenon DEF ComposeInv
    <3>2. Charged(w)'
      BY <1>1, <2>1, <3>1, WorkCharged, Zenon
    <3>3. Sent(w)'
      BY <1>1, <2>1, <3>1, WorkSent, Zenon
    <3> QED BY <3>2, <3>3, Zenon
  <2> QED BY <2>2, <2>3, <2>4, <2>5, Zenon DEF ComposeInv
<1> QED BY <1>1, Steps, StartInv, AnswerInv, LoseInv, RemoveInv, IdleInv, Zenon

\* In every state of every behaviour.
LEMMA ComposeInvariant == Spec => [](Types /\ ComposeInv)
<1>1. Init => Types /\ ComposeInv
  BY ComposeInit, Zenon
<1>2. Types /\ ComposeInv /\ [Next]_vars => (Types /\ ComposeInv)'
  BY ComposeStep, Zenon
<1> QED BY <1>1, <1>2, PTL DEF Spec

\* What a window has saved last stays in Drafts, unless the user removed it, or a
\* later save of the window deleted it and has failed, is lost or still runs.
THEOREM DraftKept == Spec => []SavedDraftKept
<1>1. Types /\ ComposeInv => SavedDraftKept
  BY Zenon DEF ComposeInv
<1> QED BY <1>1, ComposeInvariant, PTL

INSTANCE FiniteSetTheorems

\* The jobs of the sets that are counted are finite in number.
LEMMA JobsFinite ==
    ASSUME Types
    PROVE  IsFiniteSet(DOMAIN job)
<1>1. DOMAIN job = 1 .. Len(job) /\ Len(job) \in Nat
  BY DEF Types
<1>2. IsFiniteSet(1 .. Len(job))
  BY <1>1, FS_Interval
<1> QED BY <1>1, <1>2, Zenon

\* A set that, but for one member, maps one to one into another is larger by one
\* at most.
LEMMA OneMore ==
    ASSUME NEW D, NEW B, IsFiniteSet(B), IsFiniteSet(D), NEW x, NEW f \in [D \ {x} -> B],
           \A d, e \in D \ {x} : f[d] = f[e] => d = e
    PROVE  Cardinality(D) <= 1 + Cardinality(B)
<1> DEFINE E == D \ {x}
<1>1. f \in Injection(E, B)
  BY Zenon DEF Injection, IsInjective
<1>2. Cardinality(E) <= Cardinality(B)
  BY <1>1, FS_Injection, Zenon
<1>3. IsFiniteSet(E) /\ Cardinality(E) = IF x \in D THEN Cardinality(D) - 1 ELSE Cardinality(D)
  BY FS_RemoveElement, Zenon
<1>4. Cardinality(D) \in Nat /\ Cardinality(B) \in Nat /\ Cardinality(E) \in Nat
  BY <1>3, FS_CardinalityType, Zenon
<1> QED BY <1>2, <1>3, <1>4

\* Saving again does not pile up versions: a window has one draft, and one more at
\* most for every answer it lost and every old version that was not deleted.
THEOREM DraftsBounded == Spec => []DraftsDoNotPileUp
<1>1. Types /\ ComposeInv => DraftsDoNotPileUp
  <2> SUFFICES ASSUME Types, ComposeInv, NEW w \in Window
               PROVE  Cardinality(drafts \cap Saves(w)) <= 1 + Cardinality(broken \cap Saves(w))
    BY Zenon DEF DraftsDoNotPileUp, Saves
  <2> DEFINE D == drafts \cap Saves(w)
             B == broken \cap Saves(w)
             x == IF waits[w] \in D \ Told(w) THEN waits[w] ELSE draftId[w]
             charge(d, b) == \/ d \in Told(w) /\ job[b].prev = d /\ (b \in Told(w) \/ b = x)
                             \/ d \notin Told(w) /\ b = d
             f == [d \in D \ {x} |-> CHOOSE b \in B : charge(d, b)]
  <2>1. Waiting /\ Overwriting /\ Saved /\ Charged(w)
    BY Zenon DEF ComposeInv
  <2>2. \A i \in Saves(w) : i \in DOMAIN job /\ job[i].kind = "save"
    BY Zenon DEF Saves, Jobs
  <2>3. \A i \in Told(w) : i \in Saves(w)
    BY Zenon DEF Told
  <2>4. ASSUME NEW d \in D \ {x}
        PROVE  \E b \in B : charge(d, b)
    <3>1. CASE d \notin Told(w)
      BY <2>1, <3>1, Zenon DEF Charged
    <3>2. CASE d \in Told(w) /\ d # draftId[w]
      BY <2>1, <2>3, <3>2, Zenon DEF Charged
    <3>3. CASE d = draftId[w]
      <4>1. x = waits[w] /\ x \in D \ Told(w)
        BY <3>3, Zenon
      <4>2. job[x].prev = d
        BY <2>1, <3>3, <4>1, Zenon DEF Waiting
      <4>3. job[x].pc = "ok"
        BY <2>1, <4>1, Zenon DEF Saved
      <4>4. x \in broken
        BY <2>1, <2>2, <4>1, <4>2, <4>3, Zenon DEF Saved
      <4>5. d \in Told(w)
        BY <3>3, Zenon DEF Told
      <4> QED BY <4>1, <4>2, <4>4, <4>5, Zenon
    <3> QED BY <3>1, <3>2, <3>3, Zenon
  <2>5. \A d \in D \ {x} : f[d] \in B /\ charge(d, f[d])
    BY <2>4, Zenon
  <2>6. f \in [D \ {x} -> B]
    BY <2>5, Zenon
  <2>7. \A d, e \in D \ {x} : f[d] = f[e] => d = e
    <3> HIDE DEF f, x, D, B
    <3> QED BY <2>5
  <2>8. IsFiniteSet(D) /\ IsFiniteSet(B)
    <3>1. D \in SUBSET DOMAIN job /\ B \in SUBSET DOMAIN job
      BY <2>2, Zenon
    <3> QED BY <3>1, JobsFinite, FS_Subset, Zenon
  <2> HIDE DEF f, x, D, B
  <2>9. Cardinality(D) <= 1 + Cardinality(B)
    BY <2>6, <2>7, <2>8, OneMore
  <2> QED BY <2>9, Zenon DEF D, B
<1> QED BY <1>1, ComposeInvariant, PTL

\* However often a window's send is repeated, its remote recipients are queued once,
\* and once more at most for every answer that was lost.
THEOREM RemotesBounded == Spec => []RemotesQueuedOnce
<1>1. Types /\ ComposeInv => RemotesQueuedOnce
  <2> SUFFICES ASSUME Types, ComposeInv, NEW w \in Window
               PROVE  Cardinality(queue \cap Sends(w)) <= 1 + Cardinality(broken \cap Sends(w))
    BY Zenon DEF RemotesQueuedOnce, Sends
  <2> DEFINE D == queue \cap Sends(w)
             B == broken \cap Sends(w)
  <2>1. PICK x : D \ {x} \subseteq B
    BY DEF ComposeInv, Sent
  <2> DEFINE f == [d \in D \ {x} |-> d]
  <2>2. f \in [D \ {x} -> B] /\ \A d, e \in D \ {x} : f[d] = f[e] => d = e
    BY <2>1, Zenon
  <2>3. IsFiniteSet(D) /\ IsFiniteSet(B)
    <3>1. D \in SUBSET DOMAIN job /\ B \in SUBSET DOMAIN job
      BY Zenon DEF Sends, Jobs
    <3> QED BY <3>1, JobsFinite, FS_Subset, Zenon
  <2> HIDE DEF f, D, B
  <2>4. Cardinality(D) <= 1 + Cardinality(B)
    BY <2>2, <2>3, OneMore, Zenon
  <2> QED BY <2>4, Zenon DEF D, B
<1> QED BY <1>1, ComposeInvariant, PTL
=============================================================================
