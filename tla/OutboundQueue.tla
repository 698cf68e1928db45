---------------------------- MODULE OutboundQueue ----------------------------
(***************************************************************************)
(* The outbound queue: the rows and bodies of internal/store/outbound.go,  *)
(* the worker of internal/queue (queue.go, bounce.go) and the MTA-STS      *)
(* cache it consults (internal/mtasts).                                    *)
(*                                                                         *)
(* One worker goroutine polls; submissions enqueue beside it.  Every call  *)
(* on the database is a step of its own and may fail; the server may crash *)
(* between any two.  A row's _id and the key of its body are one number.   *)
(* Remote servers answer as they like; a connection may also break after   *)
(* the remote has taken the message and before it says so.  The recipients *)
(* of a message are a set: none is named twice.                            *)
(***************************************************************************)
EXTENDS Integers, Sequences, FiniteSets

CONSTANTS
    Rcpt,           \* recipient addresses
    Domain,         \* recipient domains
    DomainOf,       \* DomainOf[r]: the domain of r, Null if r has no "@"
    MxOf,           \* MxOf[d]: the hosts lookupMX returns for d, in order
    Policies,       \* Policies[d]: what an MTA-STS lookup for d may return
    SenderAddr,     \* the address a bounce to a remote sender goes to
    Envelopes,      \* the [from, rcpts] that are submitted
    BatchSize, MaxAttempts, BaseBackoff, MaxBackoff,
    MaxRows,        \* bound: rows ever enqueued
    MaxSubmits,     \* bound: rows enqueued by submissions
    MaxFaults,      \* bound: failed calls, crashes and lost answers
    Null

RowId == 1 .. MaxRows
Sender == {"null", "local", "remote"}   \* what the envelope sender is to this server
Envelope == [from : Sender, rcpts : SUBSET Rcpt]
Row == [from : Sender, rcpts : SUBSET Rcpt, attempts : Nat, wait : Int]
Item == [id : RowId, row : Row]
NoPolicy == [mode |-> "absent", mx |-> {}]
Mx == UNION {{MxOf[d][i] : i \in DOMAIN MxOf[d]} : d \in Domain}
Conn == [dom : Domain, mx : Mx, tls : BOOLEAN]
Policy == [mode : {"absent", "none", "testing", "enforce"}, mx : SUBSET Mx]

ASSUME QueueAssumption ==
    /\ DomainOf \in [Rcpt -> Domain \cup {Null}] /\ Null \notin Domain
    /\ \A d \in Domain : MxOf[d] # <<>> /\ Policies[d] \subseteq Policy
    /\ SenderAddr \in Rcpt /\ IsFiniteSet(Rcpt)
    /\ Envelopes \subseteq Envelope
    /\ BatchSize \in Nat \ {0} /\ MaxAttempts \in Nat \ {0}
    /\ BaseBackoff \in Nat /\ MaxBackoff \in Nat
    /\ MaxRows \in Nat /\ MaxSubmits \in Nat /\ MaxFaults \in Nat
    /\ Null \notin RowId \cup Row \cup Item \cup Conn \cup Policy \cup Envelope

VARIABLES
    rows,       \* rows[i]: the outbound_queue document with _id i, or Null
    due,        \* ids whose next_retry_at has come, oldest first
    bodies,     \* ids whose body blob exists
    last,       \* the last id handed out
    sub,        \* the submission in flight: its id and envelope, or Null
    w,          \* the worker's next step
    batch,      \* rows listed by runOnce and not yet delivered
    cur,        \* the row deliver works on, as it was listed
    todo,       \* domains deliver still has to try
    conn,       \* deliverDomain's connection: domain, host and whether it has TLS, or Null
    temp, perm, \* recipients that failed in this attempt
    bid,        \* the id of the bounce being enqueued, or Null
    cache,      \* cache[d]: the unexpired MTA-STS entry of d, or Null
    accepted,   \* history: the envelope row i was inserted with, or Null
    taken,      \* history: how often the remote took row i for recipient r
    failed,     \* history: how often deliver gave r up
    reported,   \* history: recipients of row i the sender was told of
    unreported, \* history: rows with a failure the sender could not be told of
    unheard,    \* history: rows that exist although Enqueue reported an error
    origin,     \* history: the row that row i is the bounce of, or Null
    faults      \* history: failed calls, crashes and lost answers so far

store == <<rows, due, bodies, last>>
job == <<cur, todo, conn, temp, perm, bid>>
fate == <<accepted, taken, failed, reported, unreported, unheard, origin>>
vars == <<store, sub, w, batch, job, cache, fate, faults>>

Init ==
    /\ rows = [i \in RowId |-> Null] /\ due = <<>> /\ bodies = {} /\ last = 0
    /\ sub = Null
    /\ w = "idle" /\ batch = <<>>
    /\ cur = Null /\ todo = {} /\ conn = Null /\ temp = {} /\ perm = {}
    /\ bid = Null
    /\ cache = [d \in Domain |-> Null]
    /\ accepted = [i \in RowId |-> Null]
    /\ taken = [i \in RowId |-> [r \in Rcpt |-> 0]]
    /\ failed = [i \in RowId |-> [r \in Rcpt |-> 0]]
    /\ reported = [i \in RowId |-> {}] /\ unreported = {} /\ unheard = {}
    /\ origin = [i \in RowId |-> Null]
    /\ faults = 0

Fault == faults < MaxFaults /\ faults' = faults + 1

-----------------------------------------------------------------------------
(* Enqueue: the body, then the row; a failed insert removes the body.      *)

PutRaw(i) == bodies' = bodies \cup {i} /\ last' = i

\* A fresh row is due at once: it goes behind every row already due.
InsertRow(i, e) ==
    /\ rows' = [rows EXCEPT ![i] = [from |-> e.from, rcpts |-> e.rcpts,
                                    attempts |-> 0, wait |-> 0]]
    /\ due' = Append(due, i)
    /\ accepted' = [accepted EXCEPT ![i] = e]

SubmitBody ==
    /\ sub = Null /\ last < MaxRows
    /\ Cardinality({i \in RowId : i <= last /\ origin[i] = Null}) < MaxSubmits
    /\ \E e \in Envelopes : sub' = [id |-> last + 1, env |-> e]
    /\ PutRaw(last + 1)
    /\ UNCHANGED <<rows, due, w, batch, job, cache, fate, faults>>

SubmitRow ==
    /\ sub # Null
    /\ InsertRow(sub.id, sub.env)
    /\ sub' = Null
    /\ UNCHANGED <<bodies, last, w, batch, job, cache, taken, failed, reported,
                   unreported, origin, faults, unheard>>

\* The row is inserted, but the answer is an error or has no id: the message
\* counts as refused, and the body is to go, if the row is not delivered first.
SubmitUnheard ==
    /\ sub # Null /\ Fault
    /\ InsertRow(sub.id, sub.env)
    /\ unheard' = unheard \cup {sub.id}
    /\ sub' = Null
    /\ UNCHANGED <<bodies, last, w, batch, job, cache, taken, failed, reported,
                   unreported, origin>>

DropUnheard(i) ==
    /\ i \in unheard \cap bodies
    /\ bodies' = bodies \ {i}
    /\ UNCHANGED <<rows, due, last, sub, w, batch, job, cache, fate, faults>>

SubmitFails ==
    /\ sub # Null /\ Fault
    /\ bodies' = bodies \ {sub.id}
    /\ sub' = Null
    /\ UNCHANGED <<rows, due, last, w, batch, job, cache, fate>>

-----------------------------------------------------------------------------
(* runOnce.                                                                *)

Smaller(a, b) == IF a < b THEN a ELSE b

\* ListDueOutbound: the rows that are due, oldest first, at most BatchSize.
Poll ==
    /\ w = "idle"
    /\ batch' = [k \in 1 .. Smaller(BatchSize, Len(due)) |->
                    [id |-> due[k], row |-> rows[due[k]]]]
    /\ w' = "next"
    /\ UNCHANGED <<store, sub, job, cache, fate, faults>>

EndBatch ==
    /\ w = "next" /\ batch = <<>>
    /\ w' = "idle"
    /\ UNCHANGED <<store, sub, batch, job, cache, fate, faults>>

\* Recipients without an "@" are in no group: groupByDomain drops them.
Domains(R) == {DomainOf[r] : r \in R} \ {Null}
At(d) == {r \in cur.row.rcpts : DomainOf[r] = d}

\* deliver: the body is read before the first connection.
Take ==
    /\ w = "next" /\ batch # <<>> /\ Head(batch).id \in bodies
    /\ cur' = Head(batch) /\ batch' = Tail(batch)
    /\ todo' = Domains(cur'.row.rcpts) /\ temp' = {} /\ perm' = {}
    /\ w' = "deliver"
    /\ UNCHANGED <<store, sub, conn, bid, cache, fate, faults>>

\* A body that cannot be read, for whatever reason: the row is abandoned.
TakeUnreadable ==
    /\ w = "next" /\ batch # <<>>
    /\ IF Head(batch).id \in bodies THEN Fault ELSE UNCHANGED faults
    /\ cur' = Head(batch) /\ batch' = Tail(batch)
    /\ unreported' = unreported \cup {cur'.id}
    /\ todo' = {} /\ temp' = {} /\ perm' = {}
    /\ w' = "complete"
    /\ UNCHANGED <<store, sub, conn, bid, cache, accepted, taken, failed, reported, origin, unheard>>

-----------------------------------------------------------------------------
(* deliverDomain.                                                          *)

Strict(pol) == pol.mode = "enforce"

\* Whether dialMX gets a connection to host t: under an enforced policy only to
\* a listed host and only with TLS, otherwise in clear if need be.
Usable(pol, t, up, tls) == t \in up /\ (Strict(pol) => t \in pol.mx /\ t \in tls)

\* dialMX: the first usable host of the list, or how the failure counts.
DialMX(targets, pol, up, tls) ==
    LET ok == {i \in DOMAIN targets : Usable(pol, targets[i], up, tls)} IN
    IF ok # {}
    THEN {[res |-> "open", mx |-> targets[i], tls |-> targets[i] \in tls] :
             i \in {j \in ok : \A k \in ok : j <= k}}
    ELSE {[res |-> IF Strict(pol) THEN "reject" ELSE "fail", mx |-> Null, tls |-> FALSE]}

\* resolve finds no host: the domain is tried again later, its policy not looked up.
Unresolved == [res |-> "fail", mx |-> Null, tls |-> FALSE]

\* The cache has pol for d, and dialling ended with c.
Dialled(d, pol, c) ==
    /\ cache' = [cache EXCEPT ![d] = pol]
    /\ todo' = todo \ {d}
    /\ conn' = IF c.res = "open" THEN [dom |-> d, mx |-> c.mx, tls |-> c.tls] ELSE Null
    /\ temp' = IF c.res = "fail" THEN temp \cup At(d) ELSE temp
    /\ perm' = IF c.res = "reject" THEN perm \cup At(d) ELSE perm

\* Cache.Get.  A lookup that fails counts, and is cached, as no policy.
PolicyOf(d) == IF cache[d] # Null THEN {cache[d]} ELSE Policies[d] \cup {NoPolicy}

Connect(d) ==
    /\ w = "deliver" /\ conn = Null /\ d \in todo
    /\ \/ Dialled(d, cache[d], Unresolved)
       \/ \E pol \in PolicyOf(d), up \in SUBSET Mx : \E tls \in SUBSET up :
             \E c \in DialMX(MxOf[d], pol, up, tls) : Dialled(d, pol, c)
    /\ UNCHANGED <<store, sub, w, batch, cur, bid, fate, faults>>

\* EHLO, MAIL, RCPT and DATA on one connection.  T and P are the recipients
\* refused with a temporary and a permanent error, all of them if EHLO or MAIL
\* failed; what DATA answers holds for every accepted recipient.
Talk ==
    /\ conn # Null
    /\ \E T \in SUBSET At(conn.dom) : \E P \in SUBSET (At(conn.dom) \ T), data \in {"ok", "temp", "perm"} :
          LET acc == At(conn.dom) \ (T \cup P) IN
          /\ temp' = temp \cup T \cup (IF data = "temp" THEN acc ELSE {})
          /\ perm' = perm \cup P \cup (IF data = "perm" THEN acc ELSE {})
          /\ taken' = IF data = "ok"
                      THEN [taken EXCEPT ![cur.id] =
                               [r \in Rcpt |-> @[r] + (IF r \in acc THEN 1 ELSE 0)]]
                      ELSE taken
    /\ conn' = Null
    /\ UNCHANGED <<store, sub, w, batch, cur, todo, bid, cache, accepted, failed, reported,
                   unreported, origin, faults, unheard>>

\* The remote takes the message for those it accepted, and the connection breaks
\* before its answer.
TalkAnswerLost ==
    /\ conn # Null
    /\ Fault
    /\ \E T \in SUBSET At(conn.dom) : \E P \in SUBSET (At(conn.dom) \ T) :
          /\ temp' = temp \cup (At(conn.dom) \ P)
          /\ perm' = perm \cup P
          /\ taken' = [taken EXCEPT ![cur.id] =
                          [r \in Rcpt |-> @[r] + (IF r \in At(conn.dom) \ (T \cup P) THEN 1 ELSE 0)]]
    /\ conn' = Null
    /\ UNCHANGED <<store, sub, w, batch, cur, todo, bid, cache, accepted, failed,
                   reported, unreported, origin, unheard>>

-----------------------------------------------------------------------------
(* The end of deliver: bounce, then CompleteOutbound or DeferOutbound.     *)

\* deliver returns to the loop of runOnce.
Return ==
    /\ w' = "next"
    /\ cur' = Null /\ temp' = {} /\ perm' = {}
    /\ UNCHANGED <<todo, conn, bid>>

Attempts == cur.row.attempts + 1

\* The failures that are final.
Bounced == IF Attempts >= MaxAttempts THEN perm \cup temp ELSE perm

\* bounce does nothing for a message with a null sender.
AfterDecide_Silent(B) == "settle"
AfterDecide_BounceNull(B) == IF B = {} THEN "settle"
                             ELSE IF cur.row.from = "local" THEN "bounce" ELSE "b_put"
AfterDecide(B) == IF B = {} \/ cur.row.from = "null" THEN "settle"
                  ELSE IF cur.row.from = "local" THEN "bounce" ELSE "b_put"

Decide ==
    /\ w = "deliver" /\ todo = {} /\ conn = Null
    /\ LET B == Bounced IN
       /\ perm' = B
       /\ temp' = temp \ B
       /\ failed' = [failed EXCEPT ![cur.id] =
                        [r \in Rcpt |-> @[r] + (IF r \in B THEN 1 ELSE 0)]]
       /\ w' = AfterDecide(B)
    /\ UNCHANGED <<store, sub, batch, cur, todo, conn, bid, cache, accepted, taken, reported,
                   unreported, origin, faults, unheard>>

\* The bounce of a local sender is filed in their INBOX.
BounceLocal ==
    /\ w = "bounce"
    /\ reported' = [reported EXCEPT ![cur.id] = @ \cup perm]
    /\ w' = "settle"
    /\ UNCHANGED <<store, sub, batch, job, cache, accepted, taken, failed, unreported,
                   origin, faults, unheard>>

\* The bounce of a remote sender is enqueued with a null sender.
BouncePut ==
    /\ w = "b_put" /\ last < MaxRows
    /\ PutRaw(last + 1)
    /\ origin' = [origin EXCEPT ![last + 1] = cur.id]
    /\ bid' = last + 1
    /\ w' = "b_row"
    /\ UNCHANGED <<rows, due, sub, batch, cur, todo, conn, temp, perm, cache, accepted, taken, failed, reported,
                   unreported, faults, unheard>>

BounceRow ==
    /\ w = "b_row"
    /\ InsertRow(bid, [from |-> "null", rcpts |-> {SenderAddr}])
    /\ reported' = [reported EXCEPT ![cur.id] = @ \cup perm]
    /\ w' = "settle"
    /\ bid' = Null
    /\ UNCHANGED <<bodies, last, sub, batch, cur, todo, conn, temp, perm, cache, taken,
                   failed, unreported, origin, faults, unheard>>

\* The bounce is in the queue, but Route returns an error, which bounce only logs.
BounceUnheard ==
    /\ w = "b_row" /\ Fault
    /\ InsertRow(bid, [from |-> "null", rcpts |-> {SenderAddr}])
    /\ unheard' = unheard \cup {bid} /\ unreported' = unreported \cup {cur.id}
    /\ w' = "settle"
    /\ bid' = Null
    /\ UNCHANGED <<bodies, last, sub, batch, cur, todo, conn, temp, perm, cache, taken,
                   failed, reported, origin>>

\* Route returns an error: bounce only logs it.
BounceFails ==
    /\ w \in {"bounce", "b_put", "b_row"} /\ Fault
    /\ unreported' = unreported \cup {cur.id}
    /\ bodies' = bodies \ {bid}
    /\ bid' = Null
    /\ w' = "settle"
    /\ UNCHANGED <<rows, due, last, sub, batch, cur, todo, conn, temp, perm, cache, accepted, taken, failed,
                   reported, origin, unheard>>

\* backoff: BaseBackoff doubled attempts - 1 times, capped at MaxBackoff.
Backoff(n) == IF n = 1 THEN BaseBackoff ELSE Smaller(BaseBackoff * 2^(n - 1), MaxBackoff)

\* The recipients DeferOutbound keeps in the row.
Remaining_All == cur.row.rcpts
Remaining == temp

\* The attempt count DeferOutbound writes.
DeferredAttempts_Kept == cur.row.attempts
DeferredAttempts == Attempts

\* The row being worked on is no longer among those that are due.
Undue ==
    \E k \in DOMAIN due :
        /\ due[k] = cur.id
        /\ due' = [j \in 1 .. Len(due) - 1 |-> IF j < k THEN due[j] ELSE due[j + 1]]

Defer ==
    /\ w = "settle" /\ temp # {}
    /\ rows' = [rows EXCEPT ![cur.id] =
                   [@ EXCEPT !.rcpts = Remaining, !.attempts = DeferredAttempts,
                             !.wait = Backoff(Attempts)]]
    /\ Undue
    /\ Return
    /\ UNCHANGED <<bodies, last, sub, batch, cache, fate, faults>>

\* CompleteOutbound, first half: the document.
CompleteDoc_BodyFirst ==
    /\ w = "complete" \/ (w = "settle" /\ temp = {})
    /\ bodies' = bodies \ {cur.id}
    /\ w' = "c_body"
    /\ UNCHANGED <<rows, due, last, sub, batch, job, cache, fate, faults>>
CompleteDoc ==
    /\ w = "complete" \/ (w = "settle" /\ temp = {})
    /\ rows' = [rows EXCEPT ![cur.id] = Null]
    /\ Undue
    /\ w' = "c_body"
    /\ UNCHANGED <<bodies, last, sub, batch, job, cache, fate, faults>>

\* CompleteOutbound, second half: the body.
CompleteBody ==
    /\ w = "c_body"
    /\ bodies' = bodies \ {cur.id}
    /\ Return
    /\ UNCHANGED <<rows, due, last, sub, batch, cache, fate, faults>>

\* DeferOutbound or CompleteOutbound fails: deliver only logs it.
SettleFails ==
    /\ w \in {"settle", "complete", "c_body"}
    /\ Fault
    /\ Return
    /\ UNCHANGED <<store, sub, batch, cache, fate>>

-----------------------------------------------------------------------------
(* Time, and the end of the process.                                       *)

Deferred == {i \in RowId : rows[i] # Null /\ \A k \in DOMAIN due : due[k] # i}

\* Time passes until the next deferred row is due.
Elapse ==
    \E i \in Deferred :
        /\ \A j \in Deferred : rows[i].wait <= rows[j].wait
        /\ due' = Append(due, i)
        /\ rows' = [j \in RowId |-> IF j \in Deferred
                                    THEN [rows[j] EXCEPT !.wait = @ - rows[i].wait]
                                    ELSE rows[j]]
        /\ UNCHANGED <<bodies, last, sub, w, batch, job, cache, fate, faults>>

\* An MTA-STS entry reaches its expiry.
Expire(d) ==
    /\ cache[d] # Null
    /\ cache' = [cache EXCEPT ![d] = Null]
    /\ UNCHANGED <<store, sub, w, batch, job, fate, faults>>

\* The server stops and starts again; the cache is in memory.
Crash ==
    /\ Fault
    /\ sub' = Null /\ w' = "idle" /\ batch' = <<>>
    /\ cur' = Null /\ todo' = {} /\ conn' = Null /\ temp' = {} /\ perm' = {}
    /\ bid' = Null
    /\ cache' = [d \in Domain |-> Null]
    /\ UNCHANGED <<store, fate>>

-----------------------------------------------------------------------------
\* What the worker does when no call fails, and when a body is not there.
Worker ==
    \/ Poll \/ EndBatch \/ Take \/ TakeUnreadable
    \/ \E d \in Domain : Connect(d)
    \/ Talk \/ Decide \/ BounceLocal \/ BouncePut \/ BounceRow
    \/ Defer \/ CompleteDoc \/ CompleteBody

Failure == \/ SubmitFails \/ SubmitUnheard \/ TalkAnswerLost \/ BounceFails
           \/ BounceUnheard \/ SettleFails \/ Crash

Next ==
    \/ SubmitBody \/ SubmitRow
    \/ Worker \/ Elapse \/ Failure
    \/ \E d \in Domain : Expire(d)
    \/ \E i \in RowId : DropUnheard(i)

Spec == Init /\ [][Next]_vars

\* The worker's loop never stops while the server is up, and time passes.
LiveSpec == Spec /\ WF_vars(Worker) /\ WF_vars(Elapse)

-----------------------------------------------------------------------------
(* Properties.                                                             *)

TypeOK ==
    /\ rows \in [RowId -> Row \cup {Null}]
    /\ due \in Seq(RowId) /\ bodies \subseteq RowId /\ last \in 0 .. MaxRows
    /\ sub \in [id : RowId, env : Envelope] \cup {Null}
    /\ w \in {"idle", "next", "deliver", "bounce", "b_put", "b_row", "settle",
              "complete", "c_body"}
    /\ batch \in Seq(Item) /\ cur \in Item \cup {Null}
    /\ todo \subseteq Domain /\ conn \in Conn \cup {Null} /\ bid \in RowId \cup {Null}
    /\ temp \subseteq Rcpt /\ perm \subseteq Rcpt
    /\ cache \in [Domain -> Policy \cup {Null}]
    /\ accepted \in [RowId -> Envelope \cup {Null}]
    /\ taken \in [RowId -> [Rcpt -> Nat]] /\ failed \in [RowId -> [Rcpt -> Nat]]
    /\ reported \in [RowId -> SUBSET Rcpt]
    /\ unreported \subseteq RowId /\ unheard \subseteq RowId
    /\ origin \in [RowId -> RowId \cup {Null}]
    /\ faults \in 0 .. MaxFaults

\* A row never outlives its body, wherever a submission or the worker stops:
\* CompleteOutbound removes the document first, Enqueue stores the body first.
\* A row without a body can only be dropped, and nobody would be told.  The one
\* row that may lack it is one whose Enqueue reported an error although it is in.
RowHasBody == \A i \in RowId \ unheard : rows[i] # Null => i \in bodies

\* A recipient still owed a verdict.
Pending(i) == IF rows[i] = Null THEN {} ELSE rows[i].rcpts

\* deliver settles every recipient once: it is delivered or given up, never both
\* and never twice, except once more for each crash, failed call or lost answer.
OneVerdict ==
    \A i \in RowId, r \in Rcpt : taken[i][r] + failed[i][r] <= 1 + faults

\* A recipient leaves a row's list only when the remote has taken the message or
\* the sender has been told, unless the sender is null, the address malformed,
\* the bounce could not be routed or the body could not be read.
NobodyForgotten ==
    \A i \in RowId : accepted[i] # Null =>
        \A r \in accepted[i].rcpts \ Pending(i) :
            \/ taken[i][r] > 0
            \/ r \in reported[i]
            \/ accepted[i].from = "null" \/ DomainOf[r] = Null \/ i \in unreported

Bounces(k) == {i \in RowId : origin[i] = k}

\* The recipients that are tried at all.
Deliverable(R) == {r \in R : DomainOf[r] # Null}

\* Bounces do not multiply: none is sent because of a bounce, and a message causes
\* at most one for each of its recipients, and one more for each crash or failed
\* call, over all its attempts (deliver, bounce, DeferOutbound).
BouncesBounded ==
    \A k \in RowId : Bounces(k) # {} =>
        /\ origin[k] = Null
        /\ Cardinality(Bounces(k)) <= Cardinality(Deliverable(accepted[k].rcpts)) + faults

\* The recipients a message was accepted for.
Named(i) == IF accepted[i] = Null THEN {} ELSE accepted[i].rcpts

\* What the queue promises for each recipient: queued until delivered or failed.
FateOf ==
    [i \in RowId |-> [r \in Rcpt |->
        CASE r \notin Named(i)               -> "none"
          [] r \in Named(i) \cap Pending(i)  -> "queued"
          [] OTHER -> IF taken[i][r] > 0 THEN "delivered" ELSE "failed"]]

Promise == INSTANCE OutboundPromise WITH fates <- FateOf

\* The queue implements the promise: a recipient that is accepted is eventually
\* delivered or failed, and what it became never changes.
KeepsPromise == Promise!Spec
=============================================================================
