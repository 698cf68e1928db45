------------------------------- MODULE Compose -------------------------------
(***************************************************************************)
(* Writing and sending mail: the compose window of the browser, the        *)
(* handlers behind it (handleSaveDraft and handleSend in                   *)
(* internal/webmail/handlers.go), the submission server                    *)
(* (internal/smtp/submission.go), and Route in internal/store/route.go.    *)
(*                                                                         *)
(* A window waits for one request at a time.  When its connection breaks   *)
(* it stops waiting, but the handler runs on: nothing in it looks at the   *)
(* connection.  So a request is a job of its own, whose steps are the      *)
(* store calls of its handler; each may fail.  A window writes one         *)
(* message, the submission session one after the other.                    *)
(***************************************************************************)
EXTENDS Aliases, FiniteSets

CONSTANTS
    Window,       \* compose windows
    Smtp,         \* the submission session
    Alias,        \* Alias[a]: the destinations of alias a
    Envelope,     \* the lists of recipients a window may have
    Submitted,    \* the recipients a submission client may name
    MaxJobs,      \* bound: requests
    MaxRcpts,     \* bound: RCPT commands of one message
    MaxFaults     \* bound: store calls that fail, and connections that break

ASSUME ComposeAssumption == Smtp \notin Window

Job == 1 .. MaxJobs

VARIABLES
    job,      \* the requests so far
    waits,    \* waits[o]: the job whose answer o waits for, 0 for none
    open,     \* windows not closed yet
    to,       \* to[w]: the recipients written in window w
    draftId,  \* draftId[w]: the draft that w overwrites when it saves, 0 for none
    drafts,   \* documents in the Drafts folder; a document's id is the job that wrote it
    queue,    \* rows of the outbound queue, as the jobs that made them
    envelope, \* the submission session: whether it has an account and a sender, and its rcpts
    named,    \* history: the recipients named since the envelope was last empty
    removed,  \* history: drafts the user removed
    broken,   \* history: jobs whose answer was lost, or that could not delete
    faults    \* failures so far

vars == <<job, waits, open, to, draftId, drafts, queue, envelope, named, removed, broken, faults>>

NewSession == [authed |-> FALSE, from |-> FALSE, rcpts |-> <<>>]

Init ==
    /\ job = <<>>
    /\ waits = [o \in Window \cup {Smtp} |-> 0]
    /\ open = Window
    /\ to \in [Window -> Envelope]
    /\ draftId = [w \in Window |-> 0]
    /\ drafts = {}
    /\ queue = {}
    /\ envelope = NewSession
    /\ named = <<>>
    /\ removed = {}
    /\ broken = {}
    /\ faults = 0

-----------------------------------------------------------------------------
Request(kind, o, rcpts, prev) ==
    [kind |-> kind, from |-> o, pc |-> IF kind = "save" THEN "find" ELSE "resolve",
     rcpts |-> rcpts, prev |-> prev,
     at |-> 1, todo |-> {}, copies |-> {}, remote |-> {}]

\* What is left of a request that has ended.
Ended(r, label) == [Request(r.kind, r.from, <<>>, r.prev) EXCEPT !.pc = label]

Start(r) ==
    /\ waits[r.from] = 0 /\ Len(job) < MaxJobs
    /\ job' = Append(job, r)
    /\ waits' = [waits EXCEPT ![r.from] = Len(job) + 1]

Fault == faults < MaxFaults /\ faults' = faults + 1

Goto(j, label) == job' = [job EXCEPT ![j].pc = label]

\* A store call of job j fails, and its handler answers with an error.
Fail(j) == Fault /\ job' = [job EXCEPT ![j] = Ended(@, "failed")]

-----------------------------------------------------------------------------
(* handleSaveDraft.                                                        *)

\* The Save button; it is disabled while a request is pending.
SaveDraft(w) ==
    /\ w \in open
    /\ Start(Request("save", w, <<>>, draftId[w]))
    /\ UNCHANGED <<open, to, draftId, drafts, queue, envelope, named, removed, broken, faults>>

\* GetMailboxByName, then GetMessage of the draft to overwrite; if the second
\* fails, the draft is taken to be gone.
Overwrites_Never(j) == FALSE
Overwrites(j) == job[j].prev \in drafts

FindDraft(j) ==
    /\ job[j].pc = "find"
    /\ \/ Goto(j, IF Overwrites(j) THEN "delete" ELSE "append") /\ UNCHANGED <<broken, faults>>
       \/ Fail(j) /\ UNCHANGED broken
       \/ Fault /\ Goto(j, "append") /\ broken' = broken \cup {j}
    /\ UNCHANGED <<waits, open, to, draftId, drafts, queue, envelope, named, removed>>

\* DeleteMessage of the old draft; an error is ignored.
DeleteDraft(j) ==
    /\ job[j].pc = "delete"
    /\ Goto(j, "append")
    /\ \/ drafts' = drafts \ {job[j].prev} /\ UNCHANGED <<broken, faults>>
       \/ Fault /\ broken' = broken \cup {j} /\ UNCHANGED drafts
    /\ UNCHANGED <<waits, open, to, draftId, queue, envelope, named, removed>>

AppendDraft_Unchecked(j) ==
    /\ job[j].pc = "append"
    /\ \/ drafts' = drafts \cup {j} /\ Goto(j, "ok") /\ UNCHANGED faults
       \/ Fault /\ Goto(j, "ok") /\ UNCHANGED drafts
    /\ UNCHANGED <<waits, open, to, draftId, queue, envelope, named, removed, broken>>

AppendDraft(j) ==
    /\ job[j].pc = "append"
    /\ \/ drafts' = drafts \cup {j} /\ Goto(j, "ok") /\ UNCHANGED faults
       \/ Fail(j) /\ UNCHANGED drafts
    /\ UNCHANGED <<waits, open, to, draftId, queue, envelope, named, removed, broken>>

-----------------------------------------------------------------------------
(* handleSend.                                                             *)

\* collectRecipients: every address once, in the order of the fields.
CollectRecipients(s) ==
    InOrder(LAMBDA out, a : IF a \in Range(out) THEN out ELSE Append(out, a), <<>>, s)

Send(w) ==
    /\ w \in open
    /\ Start(Request("send", w, CollectRecipients(to[w]), 0))
    /\ UNCHANGED <<open, to, draftId, drafts, queue, envelope, named, removed, broken, faults>>

\* Route: a recipient's destinations.  One that has none here is relayed.
Dests(a) == ResolveDestinations(Alias, a)

Relayed_Unresolved(a) == IF Empty(Dests(a)) THEN {a} ELSE {}
Relayed(a) == IF Empty(Dests(a)) THEN {a} ELSE Dests(a).remote

\* Route, at its next recipient or past the last one.
Resolve(j) ==
    LET r == job[j] IN
    /\ r.pc = "resolve"
    /\ IF r.at > Len(r.rcpts)
       THEN Goto(j, IF r.remote = {} THEN "routed" ELSE "enqueue") /\ UNCHANGED faults
       ELSE \/ LET a == r.rcpts[r.at] IN
               /\ job' = [job EXCEPT ![j].at = @ + 1, ![j].todo = Dests(a).local,
                                     ![j].pc = IF Dests(a).local = {} THEN "resolve" ELSE "deliver",
                                     ![j].remote = @ \cup Relayed(a)]
               /\ UNCHANGED faults
            \/ Fail(j)
    /\ UNCHANGED <<waits, open, to, draftId, drafts, queue, envelope, named, removed, broken>>

\* Deliver to the next local account.
Deliver(j) ==
    /\ job[j].pc = "deliver"
    /\ \/ LET a == CHOOSE x \in job[j].todo : TRUE IN
          /\ job' = [job EXCEPT ![j].todo = @ \ {a}, ![j].copies = @ \cup {a},
                                ![j].pc = IF job[j].todo = {a} THEN "resolve" ELSE "deliver"]
          /\ UNCHANGED faults
       \/ Fail(j)
    /\ UNCHANGED <<waits, open, to, draftId, drafts, queue, envelope, named, removed, broken>>

Enqueue(j) ==
    /\ job[j].pc = "enqueue"
    /\ \/ queue' = queue \cup {j} /\ Goto(j, "routed") /\ UNCHANGED faults
       \/ Fail(j) /\ UNCHANGED queue
    /\ UNCHANGED <<waits, open, to, draftId, drafts, envelope, named, removed, broken>>

\* The copy for Sent; without it the send has succeeded all the same.
SentCopy_Required(j) ==
    /\ job[j].pc = "routed"
    /\ \/ Goto(j, "ok") /\ UNCHANGED faults
       \/ Fail(j)
    /\ UNCHANGED <<waits, open, to, draftId, drafts, queue, envelope, named, removed, broken>>

SentCopy(j) ==
    /\ job[j].pc = "routed"
    /\ Goto(j, "ok")
    /\ UNCHANGED <<waits, open, to, draftId, drafts, queue, envelope, named, removed, broken, faults>>

-----------------------------------------------------------------------------
(* The submission session.                                                 *)

Auth ==
    /\ waits[Smtp] = 0 /\ ~envelope.authed
    /\ envelope' = [envelope EXCEPT !.authed = TRUE]
    /\ UNCHANGED <<job, waits, open, to, draftId, drafts, queue, named, removed, broken, faults>>

\* Reset: go-smtp calls it on RSET and after DATA; it takes RCPT only after MAIL
\* and DATA only after RCPT.
Reset == [envelope EXCEPT !.from = FALSE, !.rcpts = <<>>]

Rset ==
    /\ waits[Smtp] = 0 /\ envelope.from
    /\ envelope' = Reset
    /\ named' = <<>>
    /\ UNCHANGED <<job, waits, open, to, draftId, drafts, queue, removed, broken, faults>>

\* MAIL replaces the sender only: recipients already named stay.
Mail ==
    /\ waits[Smtp] = 0 /\ envelope.authed
    /\ envelope' = [envelope EXCEPT !.from = TRUE]
    /\ UNCHANGED <<job, waits, open, to, draftId, drafts, queue, named, removed, broken, faults>>

Rcpt(a) ==
    /\ waits[Smtp] = 0 /\ envelope.authed /\ envelope.from
    /\ Len(named) < MaxRcpts
    /\ envelope' = [envelope EXCEPT !.rcpts = Append(@, a)]
    /\ named' = Append(named, a)
    /\ UNCHANGED <<job, waits, open, to, draftId, drafts, queue, removed, broken, faults>>

Data ==
    /\ envelope.authed /\ named # <<>>
    /\ Start(Request("send", Smtp, envelope.rcpts, 0))
    /\ UNCHANGED <<open, to, draftId, drafts, queue, envelope, named, removed, broken, faults>>

-----------------------------------------------------------------------------
(* Answers, the user, and what goes wrong.                                 *)

Done(j) == job[j].pc \in {"ok", "failed"}

\* A window keeps the id of the draft it saved, and closes when it has sent.
NewDraftId(j) ==
    IF job[j].kind = "save" /\ job[j].pc = "ok"
    THEN [draftId EXCEPT ![job[j].from] = j] ELSE draftId

Answer(j) ==
    LET o == job[j].from IN
    /\ waits[o] = j /\ Done(j)
    /\ waits' = [waits EXCEPT ![o] = 0]
    /\ IF o = Smtp
       THEN envelope' = Reset /\ named' = <<>> /\ UNCHANGED <<draftId, open>>
       ELSE /\ draftId' = NewDraftId(j)
            /\ open' = IF job[j].kind = "send" /\ job[j].pc = "ok" THEN open \ {o} ELSE open
            /\ UNCHANGED <<envelope, named>>
    /\ job' = [job EXCEPT ![j] = Ended(@, @.pc)]
    /\ UNCHANGED <<to, drafts, queue, removed, broken, faults>>

\* The connection breaks.  A window reports an error and can be used again; a
\* submission client reconnects.
Disconnect(o) ==
    /\ waits[o] # 0
    /\ Fault
    /\ waits' = [waits EXCEPT ![o] = 0]
    /\ broken' = broken \cup {waits[o]}
    /\ IF o = Smtp
       THEN envelope' = NewSession /\ named' = <<>>
       ELSE UNCHANGED <<envelope, named>>
    /\ UNCHANGED <<job, open, to, draftId, drafts, queue, removed>>

\* The user deletes a draft or moves it to another folder.
RemoveDraft(d) ==
    /\ d \in drafts
    /\ drafts' = drafts \ {d}
    /\ removed' = removed \cup {d}
    /\ UNCHANGED <<job, waits, open, to, draftId, queue, envelope, named, broken, faults>>

\* The server is restarted: jobs end where they are, and connections break.
Restart ==
    /\ \E j \in DOMAIN job : ~Done(j)
    /\ Fault
    /\ job' = [j \in DOMAIN job |-> IF Done(j) THEN job[j] ELSE Ended(job[j], "failed")]
    /\ waits' = [o \in DOMAIN waits |-> 0]
    /\ broken' = broken \cup ({waits[o] : o \in DOMAIN waits} \ {0})
    /\ envelope' = NewSession
    /\ named' = <<>>
    /\ UNCHANGED <<open, to, draftId, drafts, queue, removed>>

Next ==
    \/ \E w \in Window : SaveDraft(w) \/ Send(w)
    \/ \E j \in DOMAIN job :
          \/ FindDraft(j) \/ DeleteDraft(j) \/ AppendDraft(j)
          \/ Resolve(j) \/ Deliver(j) \/ Enqueue(j) \/ SentCopy(j)
          \/ Answer(j)
    \/ Auth \/ Mail \/ Rset \/ Data
    \/ \E a \in Submitted : Rcpt(a)
    \/ \E o \in DOMAIN waits : Disconnect(o)
    \/ \E d \in drafts : RemoveDraft(d)
    \/ Restart

Spec == Init /\ [][Next]_vars

-----------------------------------------------------------------------------
(* Properties.                                                             *)

TypeOK ==
    /\ job \in Seq([kind : {"save", "send"}, from : Window \cup {Smtp},
                    pc : {"find", "delete", "append", "resolve", "deliver", "enqueue",
                          "routed", "ok", "failed"},
                    rcpts : Seq(UNION {Range(s) : s \in Envelope}), prev : Nat, at : Nat,
                    todo : SUBSET Account, copies : SUBSET Account,
                    remote : SUBSET (UNION {Reachable(Alias, a, MaxAliasDepth) \cup {a} :
                                                a \in UNION {Range(s) : s \in Envelope}})])
    /\ waits \in [Window \cup {Smtp} -> 0 .. Len(job)]
    /\ open \subseteq Window
    /\ draftId \in [Window -> 0 .. Len(job)]
    /\ drafts \cup queue \cup removed \cup broken \subseteq DOMAIN job
    /\ faults \in 0 .. MaxFaults

Jobs(o, kind) == {j \in DOMAIN job : job[j].from = o /\ job[j].kind = kind}

\* What a window has saved last stays in Drafts until it saves again: the draft
\* its id names is there, unless the user removed it or a later save of the same
\* window is deleting it, or deleted it and did not get to report its own copy
\* (handleSaveDraft deletes first and appends after).
SavedDraftKept ==
    \A w \in Window :
        draftId[w] \notin drafts \cup removed \cup {0} =>
            \E j \in Jobs(w, "save") :
                /\ job[j].prev = draftId[w]
                /\ job[j].pc \in {"append", "failed"} \/ j \in broken \/ waits[w] = j

\* Saving again does not pile up versions (draftRequest: "auto-save keeps a stable
\* spot in the Drafts folder"): a window has one draft, and one more for every
\* answer it lost and every old version it failed to delete.
DraftsDoNotPileUp ==
    \A w \in Window :
        Cardinality(drafts \cap Jobs(w, "save"))
            <= 1 + Cardinality(broken \cap Jobs(w, "save"))

\* However often a send is repeated, its remote recipients are queued once, and
\* once more only for every answer that was lost: Route fails before it enqueues
\* or not at all, and handleSend does not fail after it.
RemotesQueuedOnce ==
    \A w \in Window :
        Cardinality(queue \cap Jobs(w, "send")) <= 1 + Cardinality(broken \cap Jobs(w, "send"))

\* A message reported as sent has gone to the destinations of the recipients named
\* for it (in a submission session, since the envelope was last reset), all of them
\* and no others: a copy in each account, the rest in one row
\* of the queue (how often an account that is named twice gets it is left open).  `Reachable'
\* is what an alias leads to, whatever the search order.
SentExactly ==
    \A j \in DOMAIN job :
        LET names == IF job[j].from = Smtp THEN Range(named) ELSE Range(to[job[j].from])
            goals == UNION {Reachable(Alias, a, MaxAliasDepth) : a \in names}
            loops == {a \in names : Reachable(Alias, a, MaxAliasDepth) = {}}
        IN job[j].kind = "send" /\ job[j].pc = "ok" /\ waits[job[j].from] = j =>
               /\ job[j].copies = goals \cap Account
               /\ job[j].remote = (goals \ Account) \cup loops
               /\ j \in queue <=> job[j].remote # {}
=============================================================================
