---------------------------- MODULE SmtpReceive ----------------------------
(***************************************************************************)
(* The inbound MX: session in internal/smtp/smtp.go with the state it      *)
(* shares between connections, the rate limiter and the greylist of        *)
(* internal/spam and the vacation suppressor of internal/vacation.         *)
(*                                                                         *)
(* A remote server offers each message until all its recipients have been  *)
(* accepted or refused, one connection at a time per message and the       *)
(* messages concurrently.  It comes from one address, so that one rate     *)
(* window counts every offer.  Whatever a message is, its DMARC result,    *)
(* its virus scan and its headers are inputs.                              *)
(*                                                                         *)
(* Time is abstract: an entry that a clock would age has an action that    *)
(* ages it.                                                                *)
(***************************************************************************)
EXTENDS Aliases, FiniteSets

CONSTANTS
    Mail,       \* messages offered
    Inputs,     \* Inputs[m]: what message m may be
    Configs,    \* what the server's configuration may be
    Away,       \* accounts with an enabled vacation rule
    RateLimit,  \* offers an address may make in one window
    MaxFaults,  \* bound: failures, lost answers, restarts, expired greylist entries
    Null        \* the null reverse-path

\* from: the envelope sender; rcpts: the recipients; listed: the address is on a DNS
\* blocklist; dmarc: the envelope stage's verdict; virus: a signature matches;
\* auto: headers that forbid a reply.
Input == UNION {Inputs[m] : m \in Mail}
Sender == {i.from : i \in Input}

ASSUME ReceiveAssumption ==
    /\ RateLimit \in Nat /\ MaxFaults \in Nat
    /\ \A c \in Configs : c.forwarding \in BOOLEAN /\ Account \subseteq DOMAIN c.script
    /\ Away \subseteq Account
    /\ \A i \in Input : i.dmarc \in {"accept", "quarantine", "reject"}
                        /\ {i.listed, i.virus, i.auto} \subseteq BOOLEAN

VARIABLES
    conf,       \* alias: the alias table; script[a]: the actions a's Sieve program
                \* yields; forwarding: whether SRS forwarding is configured
    dest,       \* dest[r]: the destinations of recipient r under that alias table
    mail,       \* mail[m]: what message m is
    want,       \* want[m]: recipients the remote server still has to place
    job,        \* job[m]: the connection that offers m
    rate,       \* offers counted in the current window
    grey,       \* grey[s]: the greylist entry of sender s
    seen,       \* seen[a]: senders the suppressor holds back for account a
    copies,     \* copies[m][a]: the folders copies of m were filed in for a
    queued,     \* queued[m]: whether m was queued for its remote destinations
    replies,    \* replies[a][s]: vacation replies queued in the current window
    accepted,   \* accepted[m]: recipients the remote server saw accepted
    redone,     \* redone[m]: connections that filed copies of m and left it on offer
    answered,   \* answered: messages for which a vacation reply was queued
    faults      \* failures so far

world == <<conf, dest, mail>>
guards == <<rate, grey, seen>>
filed == <<copies, queued, replies, answered>>
vars == <<world, want, job, guards, filed, accepted, redone, faults>>

NoJob == [pc |-> "idle", rcpts |-> {}, accts |-> {}, remote |-> {}, todo |-> {},
          failed |-> FALSE, folder |-> "INBOX"]
Recipient == UNION {i.rcpts : i \in Input}

Init ==
    /\ conf \in Configs
    /\ dest = [r \in Recipient |-> ResolveDestinations(conf.alias, r)]
    /\ mail \in {f \in [Mail -> Input] : \A m \in Mail : f[m] \in Inputs[m]}
    /\ want = [m \in Mail |-> mail[m].rcpts]
    /\ job = [m \in Mail |-> NoJob]
    /\ rate = 0 /\ grey = [s \in Sender |-> "none"] /\ seen = [a \in Account |-> {}]
    /\ copies = [m \in Mail |-> [a \in Account |-> <<>>]]
    /\ queued = [m \in Mail |-> FALSE]
    /\ replies = [a \in Account |-> [s \in Sender |-> 0]]
    /\ answered = {} /\ accepted = [m \in Mail |-> {}] /\ redone = [m \in Mail |-> 0]
    /\ faults = 0

-----------------------------------------------------------------------------
Fault == faults < MaxFaults /\ faults' = faults + 1
At(m, pc) == job[m].pc = pc
Goto(m, pc) == job' = [job EXCEPT ![m].pc = pc]
Hangup(m) == job' = [job EXCEPT ![m] = NoJob]

\* MAIL, RCPT for every recipient, DATA.  A recipient whose lookup fails is answered
\* 451 and stays wanted; one that leads nowhere, or off the server while forwarding
\* is not configured, is answered 550.
Refused(r) == Empty(dest[r]) \/ (dest[r].remote # {} /\ ~conf.forwarding)

Envelope(m) ==
    /\ At(m, "idle") /\ want[m] # {}
    /\ \E T \in SUBSET want[m] :
         /\ IF T = {} THEN UNCHANGED faults ELSE Fault
         /\ LET ok == {r \in want[m] \ T : ~Refused(r)}
            IN /\ want' = [want EXCEPT ![m] = T \cup ok]
               /\ job' = IF ok = {} THEN job
                         ELSE [job EXCEPT ![m] =
                                 [NoJob EXCEPT !.pc = "check", !.rcpts = ok,
                                    !.accts = UNION {dest[r].local : r \in ok},
                                    !.remote = UNION {dest[r].remote : r \in ok}]]
    /\ UNCHANGED <<world, guards, filed, accepted, redone>>

\* The answer to DATA: 2xx, 5xx or 4xx.  The history counts the connections that have
\* filed copies and leave recipients on offer.
Accept(m) == /\ accepted' = [accepted EXCEPT ![m] = @ \cup job[m].rcpts]
             /\ want' = [want EXCEPT ![m] = @ \ job[m].rcpts]
             /\ redone' = [redone EXCEPT ![m] = @ + (IF want'[m] = {} THEN 0 ELSE 1)]
             /\ Hangup(m)
Reject(m) == /\ want' = [want EXCEPT ![m] = @ \ job[m].rcpts]
             /\ Hangup(m)
             /\ UNCHANGED accepted
TryLater(m) == Hangup(m) /\ UNCHANGED <<want, accepted>>
Redo(m) == TryLater(m) /\ redone' = [redone EXCEPT ![m] = @ + 1]

\* Mutant: waiting out the delay does not mark the entry as passed.
Passes_OnlyPassed(s) == grey[s] = "passed"

\* greylister.check: the verdict for sender s and the entry it leaves.
Passes(s) == grey[s] \in {"ripe", "passed"}
Entry(s) == CASE Passes(s) -> "passed" [] grey[s] = "none" -> "young" [] OTHER -> grey[s]

\* rateLimiter.allow: the offer counts, refused or not; the first of a window passes.
Counted == IF rate <= RateLimit THEN rate + 1 ELSE rate
Allowed == rate = 0 \/ Counted <= RateLimit

\* Pipeline.Check and the virus scan, which may fail.
Screen(m) ==
    /\ At(m, "check")
    /\ rate' = Counted
    /\ IF ~Allowed \/ mail[m].listed THEN Reject(m) /\ UNCHANGED <<grey, faults>>
       ELSE /\ grey' = [grey EXCEPT ![mail[m].from] = Entry(mail[m].from)]
            /\ \/ /\ ~Passes(mail[m].from)
                  /\ TryLater(m) /\ UNCHANGED faults
               \/ /\ Passes(mail[m].from)
                  /\ mail[m].dmarc = "reject" \/ mail[m].virus
                  /\ Reject(m) /\ UNCHANGED faults
               \/ /\ Passes(mail[m].from) /\ mail[m].dmarc # "reject"
                  /\ TryLater(m) /\ Fault
               \/ /\ Passes(mail[m].from)
                  /\ mail[m].dmarc # "reject" /\ ~mail[m].virus
                  /\ job' = [job EXCEPT ![m].pc = "file", ![m].todo = job[m].accts,
                               ![m].folder = IF mail[m].dmarc = "quarantine"
                                             THEN "Junk" ELSE "INBOX"]
                  /\ UNCHANGED <<want, accepted, faults>>
    /\ UNCHANGED <<world, seen, filed, redone>>

\* The connection breaks while the message is read: 451.
ReadFails(m) ==
    /\ At(m, "check") /\ Fault
    /\ TryLater(m)
    /\ UNCHANGED <<world, guards, filed, redone>>

\* sieveDecide: a discard wins, else the last fileinto, else the folder given.  An
\* account whose program cannot be loaded has no filter.
Drops(a) == \E i \in DOMAIN conf.script[a] : conf.script[a][i].act = "discard"
Decide(a, folder) == InOrder(LAMBDA f, x : IF x.act = "fileinto" THEN x.folder ELSE f,
                             folder, conf.script[a])

\* Data's loop over the local accounts; a failed delivery is noted, not final.
Place(m, a, folder) == copies' = [copies EXCEPT ![m][a] = Append(@, folder)]

File(m, a) ==
    /\ At(m, "file") /\ a \in job[m].todo
    /\ IF Drops(a) THEN UNCHANGED copies ELSE Place(m, a, Decide(a, job[m].folder))
    /\ job' = [job EXCEPT ![m].todo = @ \ {a}]
    /\ UNCHANGED <<world, want, guards, queued, replies, answered, accepted, redone, faults>>

FileUnfiltered(m, a) ==
    /\ At(m, "file") /\ a \in job[m].todo /\ Fault
    /\ Place(m, a, job[m].folder)
    /\ job' = [job EXCEPT ![m].todo = @ \ {a}]
    /\ UNCHANGED <<world, want, guards, queued, replies, answered, accepted, redone>>

FileFails(m, a) ==
    /\ At(m, "file") /\ a \in job[m].todo /\ ~Drops(a) /\ Fault
    /\ job' = [job EXCEPT ![m].todo = @ \ {a}, ![m].failed = TRUE]
    /\ UNCHANGED <<world, want, guards, filed, accepted, redone>>

\* Mutant: the failed deliveries are retried with all the others.
Filed_AllAgain(m) ==
    /\ At(m, "file") /\ job[m].todo = {}
    /\ job' = IF job[m].failed
              THEN [job EXCEPT ![m].todo = job[m].accts, ![m].failed = FALSE]
              ELSE [job EXCEPT ![m].pc = "reply",
                      ![m].todo = IF job[m].folder = "INBOX" THEN job[m].accts ELSE {}]
    /\ UNCHANGED <<world, want, accepted, redone, guards, filed, faults>>

\* All accounts done: 451 for the whole message if one delivery failed, else the
\* vacation replies, for mail filed into INBOX only.
Filed(m) ==
    /\ At(m, "file") /\ job[m].todo = {}
    /\ IF job[m].failed THEN Redo(m)
       ELSE /\ job' = [job EXCEPT ![m].pc = "reply",
                         ![m].todo = IF job[m].folder = "INBOX" THEN job[m].accts ELSE {}]
            /\ UNCHANGED <<want, accepted, redone>>
    /\ UNCHANGED <<world, guards, filed, faults>>

\* Mutant: the suppressor tells messages apart, not senders.
Allow_PerMessage(m, a) == m \notin answered

\* fireVacationReplies for one account: the rule is loaded, ShouldReply, then
\* Suppressor.Allow, which records the attempt, then Enqueue.  Failures of the first
\* and of the last are passed over.
Allow(m, a) == mail[m].from \notin seen[a]
Replies(m, a) == a \in Away /\ mail[m].from # Null /\ ~mail[m].auto /\ Allow(m, a)

Reply(m, a) ==
    /\ At(m, "reply") /\ a \in job[m].todo
    /\ job' = [job EXCEPT ![m].todo = @ \ {a}]
    /\ \/ /\ Replies(m, a)
          /\ seen' = [seen EXCEPT ![a] = @ \cup {mail[m].from}]
          /\ \/ /\ replies' = [replies EXCEPT ![a][mail[m].from] = @ + 1]
                /\ answered' = answered \cup {m}
                /\ UNCHANGED faults
             \/ Fault /\ UNCHANGED <<replies, answered>>
       \/ Replies(m, a) /\ Fault /\ UNCHANGED <<seen, replies, answered>>
       \/ ~Replies(m, a) /\ UNCHANGED <<seen, replies, answered, faults>>
    /\ UNCHANGED <<world, want, rate, grey, copies, queued, accepted, redone>>

\* Enqueue for the remote destinations, if any, and the final 250, which the other
\* side may not receive.
Finish(m) ==
    /\ At(m, "reply") /\ job[m].todo = {}
    /\ queued' = [queued EXCEPT ![m] = @ \/ job[m].remote # {}]
    /\ \/ Accept(m) /\ UNCHANGED faults
       \/ Redo(m) /\ Fault
    /\ UNCHANGED <<world, guards, copies, replies, answered>>

ForwardFails(m) ==
    /\ At(m, "reply") /\ job[m].todo = {} /\ job[m].remote # {}
    /\ Fault /\ Redo(m)
    /\ UNCHANGED <<world, guards, filed>>

-----------------------------------------------------------------------------
(* Time and restarts.  The limiter, the greylist and the suppressor live   *)
(* in memory.                                                              *)

WindowEnds == /\ rate > 0 /\ rate' = 0
              /\ UNCHANGED <<world, want, job, grey, seen, filed, accepted, redone, faults>>

DelayPasses(s) ==
    /\ grey[s] = "young"
    /\ grey' = [grey EXCEPT ![s] = "ripe"]
    /\ UNCHANGED <<world, want, job, rate, seen, filed, accepted, redone, faults>>

\* greylister.sweep, of a pending or of an idle entry.
Sweep(s) ==
    /\ grey[s] # "none" /\ Fault
    /\ grey' = [grey EXCEPT ![s] = "none"]
    /\ UNCHANGED <<world, want, job, rate, seen, filed, accepted, redone>>

SuppressionEnds(a, s) ==
    /\ s \in seen[a]
    /\ seen' = [seen EXCEPT ![a] = @ \ {s}]
    /\ replies' = [replies EXCEPT ![a][s] = 0]
    /\ UNCHANGED <<world, want, job, rate, grey, copies, queued, answered, accepted,
                   redone, faults>>

Restart ==
    /\ Fault
    /\ rate' = 0 /\ grey' = [s \in Sender |-> "none"] /\ seen' = [a \in Account |-> {}]
    /\ replies' = [a \in Account |-> [s \in Sender |-> 0]]
    /\ job' = [m \in Mail |-> NoJob]
    /\ redone' = [m \in Mail |-> 
                   redone[m] + (IF job[m].pc \in {"file", "reply"} THEN 1 ELSE 0)]
    /\ UNCHANGED <<world, want, copies, queued, answered, accepted>>

-----------------------------------------------------------------------------
Serve(m) == \/ Screen(m) \/ Filed(m) \/ Finish(m)
            \/ \E a \in Account : File(m, a) \/ Reply(m, a)

Next == \/ \E m \in Mail : \/ Envelope(m) \/ Serve(m)
                           \/ ReadFails(m) \/ ForwardFails(m)
                           \/ \E a \in Account : FileFails(m, a) \/ FileUnfiltered(m, a)
        \/ WindowEnds \/ Restart
        \/ \E s \in Sender : DelayPasses(s) \/ Sweep(s)
        \/ \E a \in Account, s \in Sender : SuppressionEnds(a, s)

Spec == Init /\ [][Next]_vars

\* The remote server retries, connections are served, time passes.
LiveSpec == /\ Spec
            /\ \A m \in Mail : WF_vars(Envelope(m) \/ Serve(m))
            /\ \A s \in Sender : WF_vars(DelayPasses(s))

-----------------------------------------------------------------------------
JobType == [pc : {"idle", "check", "file", "reply"}, rcpts : SUBSET Recipient,
            accts : SUBSET Account, todo : SUBSET Account, failed : BOOLEAN,
            folder : {"INBOX", "Junk"}]

\* The state has its shape; a connection never carries recipients that the remote
\* server has ceased to want.
TypeOK ==
    /\ conf \in Configs /\ mail \in [Mail -> Input]
    /\ want \in [Mail -> SUBSET Recipient]
    /\ \A m \in Mail :
         /\ [x \in DOMAIN job[m] \ {"remote"} |-> job[m][x]] \in JobType
         /\ job[m].rcpts \subseteq want[m]
    /\ rate \in 0 .. RateLimit + 1
    /\ grey \in [Sender -> {"none", "young", "ripe", "passed"}]
    /\ seen \in [Account -> SUBSET Sender]
    /\ \A m \in Mail, a \in Account : Len(copies[m][a]) <= MaxFaults + 1
    /\ queued \in [Mail -> BOOLEAN] /\ answered \subseteq Mail
    /\ replies \in [Account -> [Sender -> Nat]]
    /\ accepted \in [Mail -> SUBSET Recipient]
    /\ redone \in [Mail -> Nat] /\ faults \in 0 .. MaxFaults

Leads(m) == UNION {Reachable(conf.alias, r, MaxAliasDepth) : r \in accepted[m]}

\* Mail the remote server was told is accepted is in the server's hands: every account
\* that an accepted recipient leads to through its aliases has a copy, unless the
\* account's own filter discards it, and the rest is in the outbound queue.  (A chain
\* of hops cannot be cut short where there are no more aliases than hops.)
AcceptedIsPlaced ==
    Cardinality(DOMAIN conf.alias) <= MaxAliasDepth =>
    \A m \in Mail :
      /\ \A a \in Leads(m) \cap Account : Drops(a) \/ copies[m][a] # <<>>
      /\ Leads(m) \ Account # {} => queued[m]

\* An account gets a message twice only because a connection that had filed copies
\* left recipients on offer: Data has one answer for all of them.
CopiesExplained == \A m \in Mail, a \in Account : Len(copies[m][a]) <= 1 + redone[m]

\* A sender gets at most one vacation reply from an account in a window, however often
\* a message is offered again and whatever messages arrive at the same time.
OneReplyPerWindow == \A a \in Account, s \in Sender : replies[a][s] <= 1

\* Mail is not deferred for ever: every recipient of every message is accepted or
\* refused in the end, the greylist and temporary failures notwithstanding.
Decided == \A m \in Mail : <>(want[m] = {})
=============================================================================
