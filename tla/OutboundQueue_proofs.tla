------------------------ MODULE OutboundQueue_proofs ------------------------
(***************************************************************************)
(* The inductive invariant of OutboundQueue and that every step keeps it:  *)
(* the types of its variables; the work of the queue, its rows, bodies and *)
(* ids, the batch that runOnce listed and one delivery attempt; the        *)
(* verdicts on the recipients, that none is forgotten, and what the        *)
(* bounces cost.  And the theorems: no row outlives its body, every        *)
(* recipient has one verdict, bounces do not multiply, and every step is a *)
(* step of OutboundPromise or none.                                        *)
(***************************************************************************)
EXTENDS OutboundQueue, FiniteSetTheorems, TLAPS

-----------------------------------------------------------------------------
(* The inductive invariant.                                                *)

Ids == {due[k] : k \in DOMAIN due}

\* A row has its body, if Enqueue reported no error, and came from an accepted
\* envelope.
RowsInv ==
    /\ \A i \in RowId : rows[i] # Null =>
          /\ i \in bodies \cup unheard /\ accepted[i] # Null
          /\ rows[i].from = accepted[i].from /\ rows[i].rcpts \subseteq accepted[i].rcpts
    /\ \A i \in RowId : accepted[i] # Null => i <= last
    /\ \A i \in unheard : accepted[i] # Null

\* Only rows are due, each once.
DueInv ==
    /\ \A i \in Ids : rows[i] # Null
    /\ \A j, k \in DOMAIN due : due[j] = due[k] => j = k

\* What is being enqueued has its body and an id of its own.
NewIdInv ==
    /\ sub # Null => sub.id \in bodies /\ sub.id <= last /\ accepted[sub.id] = Null
    /\ bid # Null => bid \in bodies /\ bid <= last /\ accepted[bid] = Null
    /\ bid # Null /\ sub # Null => bid # sub.id
    /\ bid # Null <=> w = "b_row"

StoreInv == RowsInv /\ DueInv /\ NewIdInv

\* The labels at which the row of cur is still in the queue.
Active == {"deliver", "bounce", "b_put", "b_row", "settle", "complete"}

\* What was listed is still as it was listed: only the worker changes rows that
\* are due, and it has each of them once.
BatchInv ==
    /\ \A k \in DOMAIN batch : batch[k].id \in Ids /\ batch[k].row = rows[batch[k].id]
    /\ \A j, k \in DOMAIN batch : batch[j].id = batch[k].id => j = k
    /\ \A k \in DOMAIN batch : cur # Null => batch[k].id # cur.id
    /\ cur = Null <=> w \in {"idle", "next"}
    /\ w = "idle" => batch = <<>>
    /\ w \in Active => cur.id \in Ids /\ cur.row = rows[cur.id]
    /\ w = "c_body" => rows[cur.id] = Null /\ accepted[cur.id] # Null

\* The recipients this attempt has not come to.
Untried == {r \in cur.row.rcpts : DomainOf[r] \in todo \/ (conn # Null /\ DomainOf[r] = conn.dom)}

\* One attempt: a domain is tried once, and a recipient fails only after that.
AttemptInv ==
    /\ w # "deliver" => todo = {} /\ conn = Null
    /\ conn # Null => conn.dom \notin todo
    /\ cur # Null => temp \cup perm \subseteq cur.row.rcpts
    /\ w = "deliver" => Untried \cap (temp \cup perm) = {}

\* This attempt has decided on recipient r of row i.
DecidedNow(i, r) ==
    /\ w \in Active /\ cur.id = i
    /\ r \notin temp
    /\ w = "deliver" => r \notin perm \cup Untried

\* A verdict costs a recipient its place in the row, or a failure.
VerdictInv ==
    /\ OneVerdict
    /\ \A i \in RowId, r \in Rcpt :
          accepted[i] = Null => taken[i][r] = 0 /\ failed[i][r] = 0
    /\ \A i \in RowId : \A r \in Pending(i) :
          taken[i][r] + failed[i][r] <= faults \/ DecidedNow(i, r)

\* Recipient r of row i may leave the row.
Excused(i, r) ==
    \/ taken[i][r] > 0 \/ r \in reported[i]
    \/ accepted[i].from = "null" \/ DomainOf[r] = Null \/ i \in unreported

\* What the worker still has to do about the recipients of the row it works on.
CareNow ==
    /\ w = "deliver" => \A r \in cur.row.rcpts :
          r \in Untried \cup temp \cup perm \/ Excused(cur.id, r)
    /\ w \in {"bounce", "b_put", "b_row"} => \A r \in cur.row.rcpts :
          r \in temp \cup perm \/ Excused(cur.id, r)
    /\ w = "settle" => \A r \in cur.row.rcpts : r \in temp \/ Excused(cur.id, r)
    /\ w = "complete" => cur.id \in unreported

CareInv == NobodyForgotten /\ CareNow

IInv == TypeOK /\ StoreInv /\ BatchInv /\ AttemptInv /\ VerdictInv /\ CareInv

-----------------------------------------------------------------------------
(* Types.                                                                  *)

\* TypeOK in three parts: the store, the worker, and the history.
StoreTypes ==
    /\ rows \in [RowId -> Row \cup {Null}]
    /\ due \in Seq(RowId) /\ bodies \subseteq RowId /\ last \in 0 .. MaxRows
    /\ sub \in [id : RowId, env : Envelope] \cup {Null}
WorkerTypes ==
    /\ w \in {"idle", "next", "deliver", "bounce", "b_put", "b_row", "settle",
              "complete", "c_body"}
    /\ batch \in Seq(Item) /\ cur \in Item \cup {Null}
    /\ todo \subseteq Domain /\ conn \in Conn \cup {Null} /\ bid \in RowId \cup {Null}
    /\ temp \subseteq Rcpt /\ perm \subseteq Rcpt
    /\ cache \in [Domain -> Policy \cup {Null}]
FateTypes ==
    /\ accepted \in [RowId -> Envelope \cup {Null}]
    /\ taken \in [RowId -> [Rcpt -> Nat]] /\ failed \in [RowId -> [Rcpt -> Nat]]
    /\ reported \in [RowId -> SUBSET Rcpt]
    /\ unreported \subseteq RowId /\ unheard \subseteq RowId
    /\ origin \in [RowId -> RowId \cup {Null}]
    /\ faults \in 0 .. MaxFaults

\* TypeOK, in three parts.
LEMMA TypesSplit == TypeOK <=> StoreTypes /\ WorkerTypes /\ FateTypes
  BY Zenon DEF TypeOK, StoreTypes, WorkerTypes, FateTypes

\* The same after a step.
LEMMA TypesSplitNext == TypeOK' <=> StoreTypes' /\ WorkerTypes' /\ FateTypes'
  BY Zenon DEF TypeOK, StoreTypes, WorkerTypes, FateTypes

\* The row of a fresh message, and the envelope of a bounce.
LEMMA RowTyped ==
  ASSUME NEW e \in Envelope
  PROVE  [from |-> e.from, rcpts |-> e.rcpts, attempts |-> 0, wait |-> 0] \in Row
  BY DEF Envelope, Row

\* The envelope of a bounce.
LEMMA BounceTyped == [from |-> "null", rcpts |-> {SenderAddr}] \in Envelope
  BY QueueAssumption, Zenon DEF Envelope, Sender

\* What the worker works on.
LEMMA CurTyped ==
  ASSUME WorkerTypes, BatchInv, w \notin {"idle", "next"}
  PROVE  /\ cur \in Item /\ cur # Null /\ cur.id \in RowId
         /\ cur.row \in Row /\ cur.row # Null /\ cur.row.rcpts \subseteq Rcpt
         /\ cur.row.from \in Sender /\ cur.row.attempts \in Nat
<1>1. cur \in Item /\ cur # Null
  BY Zenon DEF WorkerTypes, BatchInv
<1>2. cur.id \in RowId /\ cur.row \in Row
  BY <1>1, Zenon DEF Item
<1>3. cur.row # Null
  BY <1>2, QueueAssumption, Zenon
<1>4. cur.row.rcpts \subseteq Rcpt /\ cur.row.from \in Sender /\ cur.row.attempts \in Nat
  BY <1>2, Zenon DEF Row
<1> QED BY <1>1, <1>2, <1>3, <1>4, Zenon

\* A failure counts one more.
LEMMA FaultTyped ==
  ASSUME faults \in 0 .. MaxFaults, Fault
  PROVE  faults' \in 0 .. MaxFaults /\ faults' = faults + 1
  BY QueueAssumption DEF Fault

\* Counting one more for the recipients in S of row i.
LEMMA TallyTyped ==
  ASSUME NEW f \in [RowId -> [Rcpt -> Nat]], NEW i \in RowId, NEW S, NEW g,
         g = [f EXCEPT ![i] = [r \in Rcpt |-> @[r] + (IF r \in S THEN 1 ELSE 0)]]
  PROVE  /\ g \in [RowId -> [Rcpt -> Nat]]
         /\ \A j \in RowId, r \in Rcpt :
               g[j][r] = f[j][r] + (IF j = i /\ r \in S THEN 1 ELSE 0)
<1>1. \A r \in Rcpt : f[i][r] \in Nat
  BY Zenon
<1> DEFINE h == [r \in Rcpt |-> f[i][r] + (IF r \in S THEN 1 ELSE 0)]
<1>2. h \in [Rcpt -> Nat]
  BY <1>1
<1>3. g = [f EXCEPT ![i] = h]
  BY Zenon
<1>4. \A j \in RowId : g[j] = IF j = i THEN h ELSE f[j]
  BY <1>3, Zenon
<1>5. g \in [RowId -> [Rcpt -> Nat]]
  BY <1>2, <1>3, Zenon
<1>6. ASSUME NEW j \in RowId, NEW r \in Rcpt
      PROVE  g[j][r] = f[j][r] + (IF j = i /\ r \in S THEN 1 ELSE 0)
  <2>1. CASE j = i
    BY <1>4, <2>1, Zenon
  <2>2. CASE j # i
    BY <1>4, <2>2
  <2> QED BY <2>1, <2>2, Zenon
<1> QED BY <1>5, <1>6, Zenon

\* A row that is no longer due was due once.
LEMMA UndueTyped ==
  ASSUME due \in Seq(RowId), Undue, \A j, k \in DOMAIN due : due[j] = due[k] => j = k
  PROVE  /\ due' \in Seq(RowId) /\ Ids' = Ids \ {cur.id}
         /\ \A j, k \in DOMAIN due' : due'[j] = due'[k] => j = k
<1>1. PICK k \in DOMAIN due :
         /\ due[k] = cur.id
         /\ due' = [j \in 1 .. Len(due) - 1 |-> IF j < k THEN due[j] ELSE due[j + 1]]
  BY Zenon DEF Undue
<1> DEFINE n == Len(due)
<1>2. n \in Nat /\ DOMAIN due = 1 .. n /\ k \in 1 .. n /\ \A j \in 1 .. n : due[j] \in RowId
  OBVIOUS
<1> HIDE DEF n
<1>3. DOMAIN due' = 1 .. n - 1 /\ \A j \in 1 .. n - 1 : due'[j] = IF j < k THEN due[j] ELSE due[j + 1]
  BY <1>1, Zenon DEF n
<1>4. due' \in Seq(RowId)
  <2>1. \A j \in 1 .. n - 1 : due'[j] \in RowId
    BY <1>2, <1>3
  <2>2. due' = [j \in 1 .. n - 1 |-> due'[j]]
    BY <1>1, <1>3, Zenon DEF n
  <2>3. n - 1 \in Nat
    BY <1>2
  <2> QED BY <2>1, <2>2, <2>3
<1>5. Ids' = Ids \ {cur.id}
  <2>1. ASSUME NEW j \in 1 .. n - 1 PROVE due'[j] \in Ids /\ due'[j] # cur.id
    <3> DEFINE a == IF j < k THEN j ELSE j + 1
    <3>1. a \in 1 .. n /\ a # k /\ due'[j] = due[a]
      BY <1>2, <1>3
    <3>2. due[a] # due[k] /\ due[a] \in Ids
      BY <1>2, <3>1, Zenon DEF Ids
    <3> QED BY <1>1, <3>1, <3>2, Zenon
  <2>2. ASSUME NEW j \in 1 .. n, due[j] # cur.id PROVE \E i \in 1 .. n - 1 : due'[i] = due[j]
    <3>1. CASE j < k
      <4>1. j \in 1 .. n - 1 /\ due'[j] = due[j]
        BY <1>2, <1>3, <3>1
      <4> QED BY <4>1, Zenon
    <3>2. CASE j > k
      <4>1. j - 1 \in 1 .. n - 1 /\ ~(j - 1 < k) /\ (j - 1) + 1 = j
        BY <1>2, <3>2
      <4>2. due'[j - 1] = due[j]
        BY <1>3, <4>1, Zenon
      <4> QED BY <4>1, <4>2, Zenon
    <3>3. j # k
      BY <1>1, <2>2, Zenon
    <3>4. j < k \/ j > k
      BY <1>2, <3>3
    <3> QED BY <3>1, <3>2, <3>4, Zenon
  <2>3. Ids = {due[j] : j \in 1 .. n} /\ Ids' = {due'[j] : j \in 1 .. n - 1}
    BY <1>2, <1>3, Zenon DEF Ids
  <2>4. Ids' \subseteq Ids \ {cur.id}
    BY <2>1, <2>3, Zenon
  <2>5. Ids \ {cur.id} \subseteq Ids'
    BY <2>2, <2>3
  <2> QED BY <2>4, <2>5, Zenon
<1>6. \A j, m \in 1 .. n - 1 : due'[j] = due'[m] => j = m
  <2> SUFFICES ASSUME NEW j \in 1 .. n - 1, NEW m \in 1 .. n - 1, due'[j] = due'[m]
               PROVE  j = m
    BY Zenon
  <2> DEFINE a == IF j < k THEN j ELSE j + 1
             b == IF m < k THEN m ELSE m + 1
  <2>1. a \in 1 .. n /\ b \in 1 .. n /\ due[a] = due[b]
    BY <1>2, <1>3
  <2>2. a = b
    BY <1>2, <2>1, Zenon
  <2> QED BY <1>2, <2>2
<1> QED BY <1>3, <1>4, <1>5, <1>6, Zenon

\* A row that becomes due is the last of those that are.
LEMMA DueAppended ==
  ASSUME due \in Seq(RowId), NEW i \in RowId, due' = Append(due, i)
  PROVE  /\ due' \in Seq(RowId) /\ Ids' = Ids \cup {i}
         /\ i \notin Ids /\ (\A j, k \in DOMAIN due : due[j] = due[k] => j = k)
               => \A j, k \in DOMAIN due' : due'[j] = due'[k] => j = k
<1> DEFINE n == Len(due)
<1>1. n \in Nat /\ DOMAIN due = 1 .. n /\ DOMAIN due' = 1 .. n + 1 /\ due' \in Seq(RowId)
  OBVIOUS
<1>2. \A j \in 1 .. n : due'[j] = due[j]
  OBVIOUS
<1>3. due'[n + 1] = i
  OBVIOUS
<1> HIDE DEF n
<1>4. Ids = {due[j] : j \in 1 .. n} /\ Ids' = {due'[j] : j \in 1 .. n + 1}
  BY <1>1, Zenon DEF Ids
<1>5. Ids' = Ids \cup {i}
  BY <1>1, <1>2, <1>3, <1>4
<1>6. ASSUME i \notin Ids, \A j, k \in 1 .. n : due[j] = due[k] => j = k,
             NEW j \in 1 .. n + 1, NEW k \in 1 .. n + 1, due'[j] = due'[k]
      PROVE  j = k
  <2>1. CASE j = n + 1 /\ k # n + 1
    <3>1. k \in 1 .. n
      BY <1>1, <2>1
    <3> QED BY <1>2, <1>3, <1>4, <1>6, <2>1, <3>1, Zenon
  <2>2. CASE j # n + 1 /\ k = n + 1
    <3>1. j \in 1 .. n
      BY <1>1, <2>2
    <3> QED BY <1>2, <1>3, <1>4, <1>6, <2>2, <3>1, Zenon
  <2>3. CASE j # n + 1 /\ k # n + 1
    <3>1. j \in 1 .. n /\ k \in 1 .. n
      BY <1>1, <2>3
    <3> QED BY <1>2, <1>6, <3>1, Zenon
  <2> QED BY <2>1, <2>2, <2>3, Zenon
<1> QED BY <1>1, <1>5, <1>6, Zenon

\* backoff is a number.
LEMMA BackoffTyped == ASSUME NEW n \in Nat \ {0} PROVE Backoff(n) \in Int
<1>1. n - 1 \in Nat /\ BaseBackoff \in Nat /\ MaxBackoff \in Nat
  BY QueueAssumption
<1>2. BaseBackoff * 2^(n - 1) \in Int
  BY <1>1
<1> QED BY <1>1, <1>2 DEF Backoff, Smaller

\* A bound on ids is one on rows.
LEMMA NextIdTyped ==
  ASSUME last \in 0 .. MaxRows, last < MaxRows
  PROVE  last + 1 \in RowId /\ last + 1 \in 0 .. MaxRows
  BY QueueAssumption DEF RowId

\* No step puts anything but rows, ids and bodies into the store.
LEMMA StoreTypesStep == ASSUME IInv, [Next]_vars PROVE StoreTypes'
<1>0. /\ StoreTypes /\ WorkerTypes /\ FateTypes
      /\ StoreInv /\ BatchInv /\ AttemptInv /\ VerdictInv /\ CareInv
  BY TypesSplit, Zenon DEF IInv
<1>1. CASE SubmitBody
  <2>1. last + 1 \in RowId /\ last + 1 \in 0 .. MaxRows
    BY <1>0, <1>1, NextIdTyped, Zenon DEF SubmitBody, StoreTypes
  <2>2. PICK e \in Envelopes : sub' = [id |-> last + 1, env |-> e]
    BY <1>1, Zenon DEF SubmitBody
  <2>3. e \in Envelope
    BY QueueAssumption, Zenon
  <2> QED BY <1>0, <1>1, <2>1, <2>2, <2>3, Zenon DEF SubmitBody, PutRaw, StoreTypes
<1>2. CASE SubmitRow \/ SubmitUnheard
  <2>1. sub.id \in RowId /\ sub.env \in Envelope
    BY <1>0, <1>2, Zenon DEF SubmitRow, SubmitUnheard, StoreTypes
  <2>2. InsertRow(sub.id, sub.env)
    BY <1>2, Zenon DEF SubmitRow, SubmitUnheard
  <2>3. rows' \in [RowId -> Row \cup {Null}] /\ due' \in Seq(RowId)
    BY <1>0, <2>1, <2>2, RowTyped DEF InsertRow, StoreTypes
  <2> QED BY <1>0, <1>2, <2>3, Zenon DEF SubmitRow, SubmitUnheard, StoreTypes
<1>3. CASE SubmitFails \/ Poll \/ EndBatch \/ Take \/ TakeUnreadable \/ Talk
  BY <1>0, <1>3, Zenon DEF SubmitFails, Poll, EndBatch, Take, TakeUnreadable, Talk, StoreTypes, store
<1>4. ASSUME NEW d \in Domain, Connect(d) PROVE StoreTypes'
  BY <1>0, <1>4, Zenon DEF Connect, StoreTypes, store
<1>5. CASE TalkAnswerLost \/ Decide \/ BounceLocal \/ BounceFails \/ CompleteBody \/
         SettleFails
  BY <1>0, <1>5, Zenon DEF TalkAnswerLost, Decide, BounceLocal, BounceFails, CompleteBody,
     SettleFails, StoreTypes, store
<1>6. CASE BouncePut
  <2>1. last + 1 \in RowId /\ last + 1 \in 0 .. MaxRows
    BY <1>0, <1>6, NextIdTyped, Zenon DEF BouncePut, StoreTypes
  <2> QED BY <1>0, <1>6, <2>1, Zenon DEF BouncePut, PutRaw, StoreTypes
<1>7. CASE BounceRow \/ BounceUnheard
  <2> DEFINE e == [from |-> "null", rcpts |-> {SenderAddr}]
  <2>1. bid \in RowId /\ e \in Envelope
    BY <1>0, <1>7, BounceTyped, Zenon DEF BounceRow, BounceUnheard, StoreInv, NewIdInv, WorkerTypes
  <2>2. InsertRow(bid, e)
    BY <1>7, Zenon DEF BounceRow, BounceUnheard
  <2> HIDE DEF e
  <2>3. rows' \in [RowId -> Row \cup {Null}] /\ due' \in Seq(RowId)
    BY <1>0, <2>1, <2>2, RowTyped DEF InsertRow, StoreTypes
  <2> QED BY <1>0, <1>7, <2>3, Zenon DEF BounceRow, BounceUnheard, StoreTypes
<1>8. CASE Defer
  <2>1. cur.id \in RowId /\ cur.row \in Row /\ cur.row = rows[cur.id]
    BY <1>0, <1>8, CurTyped, Zenon DEF Defer, BatchInv, Active
  <2>2. Attempts \in Nat /\ Backoff(Attempts) \in Int
    BY <2>1, BackoffTyped DEF Attempts, Row
  <2>3. [rows[cur.id] EXCEPT !.rcpts = Remaining, !.attempts = DeferredAttempts,
                             !.wait = Backoff(Attempts)] \in Row
    BY <1>0, <2>1, <2>2, Zenon DEF Row, Remaining, DeferredAttempts, WorkerTypes
  <2>4. rows' \in [RowId -> Row \cup {Null}]
    BY <1>0, <1>8, <2>1, <2>3, Zenon DEF Defer, StoreTypes
  <2>5. due' \in Seq(RowId)
    BY <1>0, <1>8, UndueTyped, Zenon DEF Defer, StoreInv, DueInv, StoreTypes
  <2> QED BY <1>0, <1>8, <2>4, <2>5, Zenon DEF Defer, StoreTypes
<1>9. CASE CompleteDoc
  <2>1. cur.id \in RowId
    BY <1>0, <1>9, CurTyped, Zenon DEF CompleteDoc
  <2>2. due' \in Seq(RowId)
    BY <1>0, <1>9, UndueTyped, Zenon DEF CompleteDoc, StoreInv, DueInv, StoreTypes
  <2> QED BY <1>0, <1>9, <2>1, <2>2, Zenon DEF CompleteDoc, StoreTypes
<1>10. CASE Elapse
  <2>1. PICK i \in Deferred :
           /\ due' = Append(due, i)
           /\ rows' = [j \in RowId |-> IF j \in Deferred
                                       THEN [rows[j] EXCEPT !.wait = @ - rows[i].wait]
                                       ELSE rows[j]]
    BY <1>10, Zenon DEF Elapse
  <2>2. i \in RowId /\ \A j \in Deferred : j \in RowId /\ rows[j] \in Row
    BY <1>0, Zenon DEF Deferred, StoreTypes
  <2>3. \A j \in Deferred : rows[j].wait - rows[i].wait \in Int
    BY <2>1, <2>2 DEF Row
  <2>4. \A j \in Deferred : [rows[j] EXCEPT !.wait = @ - rows[i].wait] \in Row
    BY <2>2, <2>3, Zenon DEF Row
  <2>5. rows' \in [RowId -> Row \cup {Null}]
    BY <1>0, <2>1, <2>4, Zenon DEF StoreTypes
  <2> QED BY <1>0, <1>10, <2>1, <2>2, <2>5 DEF Elapse, StoreTypes
<1>11. ASSUME NEW d \in Domain, Expire(d) PROVE StoreTypes'
  BY <1>0, <1>11, Zenon DEF Expire, StoreTypes, store
<1>12. CASE Crash
  BY <1>0, <1>12, Zenon DEF Crash, StoreTypes, store
<1>14. ASSUME NEW i \in RowId, DropUnheard(i) PROVE StoreTypes'
  BY <1>0, <1>14, Zenon DEF DropUnheard, StoreTypes
<1>13. CASE UNCHANGED vars
  BY <1>0, <1>13, Zenon DEF vars, StoreTypes, store
<1> QED BY <1>1, <1>2, <1>3, <1>4, <1>5, <1>6, <1>7, <1>8, <1>9, <1>10, <1>11, <1>12, <1>13, <1>14,
           Zenon
           DEF Next, Worker, Failure

\* How dialling ends.
Dial == [res : {"open", "reject", "fail"}, mx : Mx \cup {Null}, tls : BOOLEAN]

\* dialMX opens a connection to a host of the list, under an enforced policy only
\* with TLS and only to a host of the policy.
LEMMA DialTyped ==
  ASSUME NEW d \in Domain, NEW pol, NEW up, NEW tls, NEW c \in DialMX(MxOf[d], pol, up, tls)
  PROVE  /\ c \in Dial
         /\ c.res = "open" => c.mx \in Mx /\ (pol.mode = "enforce" => c.tls /\ c.mx \in pol.mx)
<1> DEFINE ok == {i \in DOMAIN MxOf[d] : Usable(pol, MxOf[d][i], up, tls)}
<1>1. CASE ok = {}
  <2>1. c = [res |-> IF Strict(pol) THEN "reject" ELSE "fail", mx |-> Null, tls |-> FALSE]
    BY <1>1, Zenon DEF DialMX
  <2>2. c.res # "open" /\ c \in Dial
    BY <2>1, Zenon DEF Dial
  <2> QED BY <2>2, Zenon
<1>2. CASE ok # {}
  <2>1. PICK i \in ok : c = [res |-> "open", mx |-> MxOf[d][i], tls |-> MxOf[d][i] \in tls]
    BY <1>2, Zenon DEF DialMX
  <2>2. MxOf[d][i] \in Mx
    BY DEF Mx
  <2>3. pol.mode = "enforce" => MxOf[d][i] \in pol.mx /\ MxOf[d][i] \in tls
    BY Zenon DEF Usable, Strict
  <2>4. c \in Dial
    BY <2>1, <2>2 DEF Dial
  <2> QED BY <2>1, <2>2, <2>3, <2>4, Zenon
<1> QED BY <1>1, <1>2, Zenon

\* What a step of Connect does.
LEMMA Connected ==
  ASSUME NEW d \in Domain, Connect(d), WorkerTypes
  PROVE  \E pol \in Policy \cup {Null}, c \in Dial :
            /\ Dialled(d, pol, c)
            /\ c.res = "open" => c.mx \in Mx /\ (pol.mode = "enforce" => c.tls /\ c.mx \in pol.mx)
<1>1. CASE Dialled(d, cache[d], Unresolved)
  <2>1. Unresolved \in Dial /\ Unresolved.res # "open"
    BY Zenon DEF Unresolved, Dial
  <2>2. cache[d] \in Policy \cup {Null}
    BY Zenon DEF WorkerTypes
  <2> QED BY <1>1, <2>1, <2>2, Zenon
<1>2. CASE \E pol \in PolicyOf(d), up \in SUBSET Mx : \E tls \in SUBSET up :
              \E c \in DialMX(MxOf[d], pol, up, tls) : Dialled(d, pol, c)
  <2>1. PICK pol \in PolicyOf(d), up \in SUBSET Mx : \E tls \in SUBSET up :
           \E c \in DialMX(MxOf[d], pol, up, tls) : Dialled(d, pol, c)
    BY <1>2, Zenon
  <2>2. PICK tls \in SUBSET up : \E c \in DialMX(MxOf[d], pol, up, tls) : Dialled(d, pol, c)
    BY <2>1, Zenon
  <2>3. PICK c \in DialMX(MxOf[d], pol, up, tls) : Dialled(d, pol, c)
    BY <2>2, Zenon
  <2>4. pol \in Policy
    <3>1. NoPolicy \in Policy
      BY Zenon DEF NoPolicy, Policy
    <3> QED BY <2>1, <3>1, QueueAssumption, Zenon DEF PolicyOf, WorkerTypes
  <2> QED BY <2>3, <2>4, DialTyped, Zenon
<1> QED BY <1>1, <1>2, Zenon DEF Connect

\* No step takes the variables of the worker out of their types.
LEMMA WorkerTypesStep == ASSUME IInv, [Next]_vars PROVE WorkerTypes'
<1>0. /\ StoreTypes /\ WorkerTypes /\ FateTypes
      /\ StoreInv /\ BatchInv /\ AttemptInv /\ VerdictInv /\ CareInv
  BY TypesSplit, Zenon DEF IInv
<1>1. CASE SubmitBody \/ SubmitRow \/ SubmitUnheard \/ SubmitFails \/ EndBatch
  BY <1>0, <1>1, Zenon DEF SubmitBody, SubmitRow, SubmitUnheard, SubmitFails, EndBatch,
     WorkerTypes, job
<1>15. CASE BounceLocal \/ BounceRow \/ BounceUnheard
  BY <1>0, <1>15, Zenon DEF BounceLocal, BounceRow, BounceUnheard, WorkerTypes, job
<1>2. CASE Poll
  <2>1. \A k \in DOMAIN due : [id |-> due[k], row |-> rows[due[k]]] \in Item
    BY <1>0 DEF StoreTypes, StoreInv, DueInv, Ids, Item
  <2>2. Smaller(BatchSize, Len(due)) \in Nat
        /\ 1 .. Smaller(BatchSize, Len(due)) \subseteq DOMAIN due
    BY <1>0, QueueAssumption DEF Smaller, StoreTypes
  <2>3. batch' \in Seq(Item)
    BY <1>2, <2>1, <2>2 DEF Poll
  <2> QED BY <1>0, <1>2, <2>3, Zenon DEF Poll, WorkerTypes, job
<1>3. CASE Take
  <2>1. cur' \in Item /\ batch' \in Seq(Item)
    BY <1>0, <1>3 DEF Take, WorkerTypes
  <2>2. Domains(cur'.row.rcpts) \subseteq Domain
    <3>1. cur'.row.rcpts \subseteq Rcpt
      BY <2>1, Zenon DEF Item, Row
    <3> QED BY <3>1, QueueAssumption, Zenon DEF Domains
  <2> QED BY <1>0, <1>3, <2>1, <2>2, Zenon DEF Take, WorkerTypes
<1>4. CASE TakeUnreadable
  <2>1. cur' \in Item /\ batch' \in Seq(Item)
    BY <1>0, <1>4 DEF TakeUnreadable, WorkerTypes
  <2> QED BY <1>0, <1>4, <2>1, Zenon DEF TakeUnreadable, WorkerTypes
<1>5. ASSUME NEW d \in Domain, Connect(d) PROVE WorkerTypes'
  <2>1. PICK pol \in Policy \cup {Null}, c \in Dial : Dialled(d, pol, c) /\ (c.res = "open" => c.mx \in Mx)
    BY <1>0, <1>5, Connected, Zenon
  <2>2. c.res = "open" => [dom |-> d, mx |-> c.mx, tls |-> c.tls] \in Conn
    BY <2>1, Zenon DEF Conn, Dial
  <2>3. cur.row.rcpts \subseteq Rcpt /\ At(d) \subseteq Rcpt
    BY <1>0, <1>5, CurTyped, Zenon DEF Connect, At
  <2>4. w' = w /\ batch' = batch /\ cur' = cur /\ bid' = bid
    BY <1>5, Zenon DEF Connect
  <2> QED BY <1>0, <2>1, <2>2, <2>3, <2>4, Zenon DEF Dialled, WorkerTypes
<1>6. CASE Talk \/ TalkAnswerLost
  <2>1. At(conn.dom) \subseteq Rcpt
    BY <1>0, <1>6, CurTyped, Zenon DEF Talk, TalkAnswerLost, AttemptInv, At
  <2> QED BY <1>0, <1>6, <2>1, Zenon DEF Talk, TalkAnswerLost, WorkerTypes
<1>7. CASE Decide
  <2>1. cur.row.from \in Sender
    BY <1>0, <1>7, CurTyped, Zenon DEF Decide
  <2>2. AfterDecide(Bounced) \in {"settle", "bounce", "b_put"}
    BY <2>1, Zenon DEF AfterDecide, Sender
  <2>3. Bounced \subseteq Rcpt
    BY <1>0, Zenon DEF Bounced, WorkerTypes
  <2> QED BY <1>0, <1>7, <2>2, <2>3, Zenon DEF Decide, WorkerTypes
<1>8. CASE BouncePut
  <2>1. last + 1 \in RowId
    BY <1>0, <1>8, NextIdTyped, Zenon DEF BouncePut, StoreTypes
  <2> QED BY <1>0, <1>8, <2>1, Zenon DEF BouncePut, WorkerTypes
<1>9. CASE BounceFails \/ CompleteDoc
  BY <1>0, <1>9, Zenon DEF BounceFails, CompleteDoc, WorkerTypes, job
<1>10. CASE Defer \/ CompleteBody \/ SettleFails
  BY <1>0, <1>10, Zenon DEF Defer, CompleteBody, SettleFails, Return, WorkerTypes, job
<1>11. CASE Elapse
  BY <1>0, <1>11, Zenon DEF Elapse, WorkerTypes, job
<1>12. ASSUME NEW d \in Domain, Expire(d) PROVE WorkerTypes'
  BY <1>0, <1>12, Zenon DEF Expire, WorkerTypes, job
<1>13. CASE Crash
  BY <1>0, <1>13 DEF Crash, WorkerTypes, job
<1>16. ASSUME NEW i \in RowId, DropUnheard(i) PROVE WorkerTypes'
  BY <1>0, <1>16, Zenon DEF DropUnheard, WorkerTypes, job
<1>14. CASE UNCHANGED vars
  BY <1>0, <1>14, Zenon DEF vars, WorkerTypes, job
<1> QED BY <1>1, <1>2, <1>3, <1>4, <1>5, <1>6, <1>7, <1>8, <1>9, <1>10, <1>11, <1>12, <1>13,
           <1>14, <1>15, <1>16, Zenon DEF Next, Worker, Failure

\* No step takes the history out of its types.
LEMMA FateTypesStep == ASSUME IInv, [Next]_vars PROVE FateTypes'
<1>0. /\ StoreTypes /\ WorkerTypes /\ FateTypes
      /\ StoreInv /\ BatchInv /\ AttemptInv /\ VerdictInv /\ CareInv
  BY TypesSplit, Zenon DEF IInv
<1>1. CASE SubmitBody \/ Poll \/ EndBatch \/ Take \/ Defer \/ CompleteDoc
  BY <1>0, <1>1, Zenon DEF SubmitBody, Poll, EndBatch, Take, Defer, CompleteDoc, FateTypes, fate
<1>2. CASE SubmitRow
  <2>1. sub.id \in RowId /\ sub.env \in Envelope
    BY <1>0, <1>2, Zenon DEF SubmitRow, StoreTypes
  <2> QED BY <1>0, <1>2, <2>1, Zenon DEF SubmitRow, InsertRow, FateTypes
<1>16. CASE SubmitUnheard
  <2>1. sub.id \in RowId /\ sub.env \in Envelope
    BY <1>0, <1>16, Zenon DEF SubmitUnheard, StoreTypes
  <2> QED BY <1>0, <1>16, <2>1, FaultTyped, Zenon DEF SubmitUnheard, InsertRow, FateTypes
<1>3. CASE SubmitFails \/ SettleFails \/ Crash
  BY <1>0, <1>3, FaultTyped, Zenon DEF SubmitFails, SettleFails, Crash, FateTypes, fate
<1>4. CASE TakeUnreadable
  <2>1. cur' \in Item
    BY <1>0, <1>4 DEF TakeUnreadable, WorkerTypes
  <2>2. faults' \in 0 .. MaxFaults
    BY <1>0, <1>4, FaultTyped, Zenon DEF TakeUnreadable, FateTypes
  <2>3. cur'.id \in RowId
    BY <2>1, Zenon DEF Item
  <2> QED BY <1>0, <1>4, <2>2, <2>3, Zenon DEF TakeUnreadable, FateTypes
<1>5. ASSUME NEW d \in Domain, Connect(d) PROVE FateTypes'
  BY <1>0, <1>5, Zenon DEF Connect, FateTypes, fate
<1>6. CASE Talk
  <2>1. cur.id \in RowId
    BY <1>0, <1>6, CurTyped, Zenon DEF Talk, AttemptInv
  <2>2. taken' \in [RowId -> [Rcpt -> Nat]]
    BY <1>0, <1>6, <2>1, TallyTyped DEF Talk, FateTypes
  <2> QED BY <1>0, <1>6, <2>2, Zenon DEF Talk, FateTypes
<1>7. CASE TalkAnswerLost
  <2>1. cur.id \in RowId
    BY <1>0, <1>7, CurTyped, Zenon DEF TalkAnswerLost, AttemptInv
  <2>2. taken' \in [RowId -> [Rcpt -> Nat]]
    BY <1>0, <1>7, <2>1, TallyTyped DEF TalkAnswerLost, FateTypes
  <2> QED BY <1>0, <1>7, <2>2, FaultTyped, Zenon DEF TalkAnswerLost, FateTypes
<1>8. CASE Decide
  <2>1. cur.id \in RowId
    BY <1>0, <1>8, CurTyped, Zenon DEF Decide
  <2>2. failed' \in [RowId -> [Rcpt -> Nat]]
    BY <1>0, <1>8, <2>1, TallyTyped DEF Decide, FateTypes
  <2> QED BY <1>0, <1>8, <2>2, Zenon DEF Decide, FateTypes
<1>9. CASE BounceLocal
  <2>1. cur.id \in RowId /\ perm \subseteq Rcpt
    BY <1>0, <1>9, CurTyped, Zenon DEF BounceLocal, WorkerTypes
  <2> QED BY <1>0, <1>9, <2>1, Zenon DEF BounceLocal, FateTypes
<1>10. CASE BouncePut
  <2>1. cur.id \in RowId /\ last + 1 \in RowId
    BY <1>0, <1>10, CurTyped, NextIdTyped, Zenon DEF BouncePut, StoreTypes
  <2> QED BY <1>0, <1>10, <2>1, Zenon DEF BouncePut, FateTypes
<1>11. CASE BounceRow
  <2> DEFINE e == [from |-> "null", rcpts |-> {SenderAddr}]
  <2>1. cur.id \in RowId /\ perm \subseteq Rcpt /\ bid \in RowId /\ e \in Envelope
    BY <1>0, <1>11, CurTyped, BounceTyped, Zenon DEF BounceRow, WorkerTypes, StoreInv, NewIdInv
  <2>2. accepted' = [accepted EXCEPT ![bid] = e]
    BY <1>11, Zenon DEF BounceRow, InsertRow
  <2> HIDE DEF e
  <2> QED BY <1>0, <1>11, <2>1, <2>2, Zenon DEF BounceRow, FateTypes
<1>17. CASE BounceUnheard
  <2> DEFINE e == [from |-> "null", rcpts |-> {SenderAddr}]
  <2>1. cur.id \in RowId /\ bid \in RowId /\ e \in Envelope
    BY <1>0, <1>17, CurTyped, BounceTyped, Zenon DEF BounceUnheard, WorkerTypes, StoreInv, NewIdInv
  <2>2. accepted' = [accepted EXCEPT ![bid] = e]
    BY <1>17, Zenon DEF BounceUnheard, InsertRow
  <2> HIDE DEF e
  <2> QED BY <1>0, <1>17, <2>1, <2>2, FaultTyped, Zenon DEF BounceUnheard, FateTypes
<1>12. CASE BounceFails
  <2>1. cur.id \in RowId
    BY <1>0, <1>12, CurTyped, Zenon DEF BounceFails
  <2> QED BY <1>0, <1>12, <2>1, FaultTyped, Zenon DEF BounceFails, FateTypes
<1>13. CASE CompleteBody \/ Elapse
  BY <1>0, <1>13, Zenon DEF CompleteBody, Elapse, FateTypes, fate
<1>14. ASSUME NEW d \in Domain, Expire(d) PROVE FateTypes'
  BY <1>0, <1>14, Zenon DEF Expire, FateTypes, fate
<1>18. ASSUME NEW i \in RowId, DropUnheard(i) PROVE FateTypes'
  BY <1>0, <1>18, Zenon DEF DropUnheard, FateTypes, fate
<1>15. CASE UNCHANGED vars
  BY <1>0, <1>15, Zenon DEF vars, FateTypes, fate
<1> QED BY <1>1, <1>2, <1>3, <1>4, <1>5, <1>6, <1>7, <1>8, <1>9, <1>10, <1>11, <1>12, <1>13,
           <1>14, <1>15, <1>16, <1>17, <1>18, Zenon DEF Next, Worker, Failure

-----------------------------------------------------------------------------
(* The store.                                                              *)

\* Null is none of the things it stands in for.
LEMMA NotNull == Null \notin Row /\ Null \notin Item /\ Null \notin Conn /\ Null \notin Envelope
  BY QueueAssumption, Zenon

\* In particular it is no id.
LEMMA NullNoId == Null \notin RowId
  BY QueueAssumption, Zenon

\* Inserting the row of an envelope under a new id.
LEMMA RowInserted ==
  ASSUME StoreTypes, FateTypes, StoreInv, NEW i \in RowId, NEW e \in Envelope,
         i \in bodies, i <= last, accepted[i] = Null, InsertRow(i, e), UNCHANGED <<bodies, last>>,
         unheard' = unheard \/ unheard' = unheard \cup {i}
  PROVE  /\ RowsInv' /\ DueInv' /\ Ids' = Ids \cup {i}
         /\ rows'[i] # Null /\ rows'[i].rcpts = e.rcpts /\ accepted'[i] = e
         /\ \A j \in RowId \ {i} : rows'[j] = rows[j] /\ accepted'[j] = accepted[j]
<1> DEFINE new == [from |-> e.from, rcpts |-> e.rcpts, attempts |-> 0, wait |-> 0]
<1>1. rows' = [rows EXCEPT ![i] = new] /\ due' = Append(due, i) /\ accepted' = [accepted EXCEPT ![i] = e]
  BY Zenon DEF InsertRow
<1>2. new # Null /\ e # Null /\ new.from = e.from /\ new.rcpts = e.rcpts
  BY RowTyped, NotNull, Zenon
<1> HIDE DEF new
<1>3. rows'[i] = new /\ accepted'[i] = e
      /\ \A j \in RowId \ {i} : rows'[j] = rows[j] /\ accepted'[j] = accepted[j]
  BY <1>1, Zenon DEF StoreTypes, FateTypes
<1>4. rows[i] = Null
  BY Zenon DEF StoreInv, RowsInv
<1>5. RowsInv'
  BY <1>2, <1>3, Zenon DEF StoreInv, RowsInv, FateTypes
<1>6. Ids \subseteq RowId /\ i \notin Ids
  BY <1>4 DEF StoreInv, DueInv, Ids, StoreTypes
<1>7. Ids' = Ids \cup {i} /\ \A j, k \in DOMAIN due' : due'[j] = due'[k] => j = k
  BY <1>1, <1>6, DueAppended, Zenon DEF StoreTypes, StoreInv, DueInv
<1>8. DueInv'
  BY <1>2, <1>3, <1>6, <1>7, Zenon DEF StoreInv, DueInv
<1> QED BY <1>2, <1>3, <1>5, <1>7, <1>8, Zenon

\* Time changes no row but in its wait, and none that is due.
LEMMA Elapsed ==
  ASSUME StoreTypes, StoreInv, Elapse
  PROVE  /\ \E i \in RowId : due' = Append(due, i) /\ i \notin Ids /\ rows[i] # Null
         /\ \A j \in RowId : /\ rows'[j] = Null <=> rows[j] = Null
                             /\ rows[j] # Null => /\ rows'[j].from = rows[j].from
                                                  /\ rows'[j].rcpts = rows[j].rcpts
                             /\ j \in Ids => rows'[j] = rows[j]
<1>1. PICK i \in Deferred :
         /\ due' = Append(due, i)
         /\ rows' = [j \in RowId |-> IF j \in Deferred
                                     THEN [rows[j] EXCEPT !.wait = @ - rows[i].wait]
                                     ELSE rows[j]]
  BY Zenon DEF Elapse
<1>2. \A j \in Deferred : j \in RowId /\ rows[j] \in Row /\ rows[j] # Null /\ j \notin Ids
  BY Zenon DEF Deferred, StoreTypes, Ids
<1>3. \A j \in Deferred : LET new == [rows[j] EXCEPT !.wait = @ - rows[i].wait] IN
         new \in Row /\ new.from = rows[j].from /\ new.rcpts = rows[j].rcpts
  <2> SUFFICES ASSUME NEW j \in Deferred
               PROVE  LET new == [rows[j] EXCEPT !.wait = @ - rows[i].wait] IN
                         new \in Row /\ new.from = rows[j].from /\ new.rcpts = rows[j].rcpts
    BY Zenon
  <2>1. rows[j].wait - rows[i].wait \in Int
    BY <1>1, <1>2 DEF Row
  <2> QED BY <1>2, <2>1, Zenon DEF Row
<1>4. \A j \in Deferred : /\ rows'[j] # Null /\ rows'[j].from = rows[j].from
                          /\ rows'[j].rcpts = rows[j].rcpts
  BY <1>1, <1>2, <1>3, NotNull, Zenon
<1>5. \A j \in RowId \ Deferred : rows'[j] = rows[j]
  BY <1>1, Zenon
<1> QED BY <1>1, <1>2, <1>4, <1>5, Zenon

\* The row that is deferred.
LEMMA RowDeferred ==
  ASSUME StoreTypes, WorkerTypes, BatchInv, Defer
  PROVE  /\ cur.id \in RowId /\ cur.row = rows[cur.id] /\ rows[cur.id] # Null
         /\ rows'[cur.id] # Null /\ rows'[cur.id].from = rows[cur.id].from
         /\ rows'[cur.id].rcpts = temp
         /\ \A j \in RowId \ {cur.id} : rows'[j] = rows[j]
<1>1. cur.id \in RowId /\ cur.row \in Row /\ cur.row # Null /\ cur.row = rows[cur.id]
  BY CurTyped, Zenon DEF Defer, BatchInv, Active
<1> DEFINE new == [rows[cur.id] EXCEPT !.rcpts = temp, !.attempts = Attempts,
                                       !.wait = Backoff(Attempts)]
<1>2. rows' = [rows EXCEPT ![cur.id] = new]
  BY Zenon DEF Defer, Remaining, DeferredAttempts
<1>3. Attempts \in Nat /\ Backoff(Attempts) \in Int
  BY <1>1, BackoffTyped DEF Attempts, Row
<1>4. new \in Row /\ new.from = rows[cur.id].from /\ new.rcpts = temp
  BY <1>1, <1>3, Zenon DEF Row, WorkerTypes
<1> HIDE DEF new
<1> QED BY <1>1, <1>2, <1>4, NotNull, Zenon DEF StoreTypes

\* A step that leaves rows, bodies and ids alone.
LEMMA StoreKept ==
  ASSUME StoreInv, UNCHANGED <<rows, due, bodies, last, sub, bid, accepted, unheard>>,
         w' = "b_row" <=> w = "b_row"
  PROVE  StoreInv'
<1>1. RowsInv'
  BY Zenon DEF StoreInv, RowsInv
<1>2. DueInv'
  BY Zenon DEF StoreInv, DueInv, Ids
<1>3. NewIdInv'
  BY Zenon DEF StoreInv, NewIdInv
<1> QED BY <1>1, <1>2, <1>3, Zenon DEF StoreInv

\* Rows keep their bodies, ids are new, and a row is due once.
LEMMA StoreInvStep == ASSUME IInv, [Next]_vars PROVE StoreInv'
<1>0. /\ StoreTypes /\ WorkerTypes /\ FateTypes
      /\ StoreInv /\ BatchInv /\ AttemptInv /\ VerdictInv /\ CareInv
  BY TypesSplit, Zenon DEF IInv
<1>1. CASE SubmitBody
  <2>1. PICK e \in Envelopes : sub' = [id |-> last + 1, env |-> e]
    BY <1>1, Zenon DEF SubmitBody
  <2>2. bodies' = bodies \cup {last + 1} /\ last' = last + 1 /\ last \in Nat /\ last + 1 \in RowId
    BY <1>0, <1>1, NextIdTyped DEF SubmitBody, PutRaw, StoreTypes
  <2>3. accepted[last + 1] = Null /\ \A i \in RowId : i \in Nat
    BY <1>0, <2>2 DEF StoreInv, RowsInv, RowId
  <2>4. UNCHANGED <<rows, due, bid, w, accepted, unheard>>
    BY <1>1, Zenon DEF SubmitBody, job, fate
  <2>5. RowsInv' /\ DueInv'
    BY <1>0, <2>2, <2>3, <2>4 DEF StoreInv, RowsInv, DueInv, Ids
  <2>6. sub'.id = last + 1 /\ (bid # Null => bid \in RowId)
    BY <1>0, <2>1, Zenon DEF WorkerTypes
  <2>7. NewIdInv'
    BY <1>0, <2>2, <2>3, <2>4, <2>6 DEF StoreInv, NewIdInv
  <2> QED BY <2>5, <2>7, Zenon DEF StoreInv
<1>2. CASE SubmitRow \/ SubmitUnheard
  <2>1. /\ sub.id \in RowId /\ sub.env \in Envelope /\ InsertRow(sub.id, sub.env)
        /\ sub.id \in bodies /\ sub.id <= last /\ accepted[sub.id] = Null
    BY <1>0, <1>2, Zenon DEF SubmitRow, SubmitUnheard, StoreTypes, StoreInv, NewIdInv
  <2>2. /\ UNCHANGED <<bodies, last, bid, w>> /\ sub' = Null
        /\ unheard' = unheard \/ unheard' = unheard \cup {sub.id}
    BY <1>2, Zenon DEF SubmitRow, SubmitUnheard, job
  <2>3. RowsInv' /\ DueInv' /\ \A j \in RowId \ {sub.id} : accepted'[j] = accepted[j]
    BY <1>0, <2>1, <2>2, RowInserted, Zenon
  <2>4. NewIdInv'
    BY <1>0, <1>2, <2>2, <2>3, Zenon DEF StoreInv, NewIdInv, WorkerTypes, SubmitRow, SubmitUnheard
  <2> QED BY <2>3, <2>4, Zenon DEF StoreInv
<1>3. CASE SubmitFails
  <2>1. sub.id \in RowId /\ rows[sub.id] = Null /\ (bid # Null => bid # sub.id)
    BY <1>0, <1>3, Zenon DEF SubmitFails, StoreTypes, StoreInv, NewIdInv, RowsInv
  <2>2. /\ UNCHANGED <<rows, due, last, bid, w, accepted, unheard>>
        /\ sub' = Null /\ bodies' = bodies \ {sub.id}
    BY <1>3, Zenon DEF SubmitFails, job, fate
  <2> QED BY <1>0, <2>1, <2>2 DEF StoreInv, RowsInv, DueInv, Ids, NewIdInv
<1>4. CASE Poll \/ EndBatch \/ Take \/ TakeUnreadable \/ Talk \/ TalkAnswerLost
  <2>1. UNCHANGED <<rows, due, bodies, last, sub, bid, accepted, unheard>> /\ (w' = "b_row" <=> w = "b_row")
    BY <1>4, Zenon DEF Poll, EndBatch, Take, TakeUnreadable, Talk, TalkAnswerLost, store, job, fate
  <2> QED BY <1>0, <2>1, StoreKept, Zenon
<1>5. ASSUME NEW d \in Domain, Connect(d) PROVE StoreInv'
  <2>1. UNCHANGED <<rows, due, bodies, last, sub, bid, accepted, unheard>> /\ w' = w
    BY <1>5, Zenon DEF Connect, store, fate
  <2> QED BY <1>0, <2>1, StoreKept, Zenon
<1>6. CASE Decide
  <2>1. cur.row.from \in Sender
    BY <1>0, <1>6, CurTyped, Zenon DEF Decide
  <2>2. AfterDecide(Bounced) \in {"settle", "bounce", "b_put"}
    BY <2>1, Zenon DEF AfterDecide, Sender
  <2>3. UNCHANGED <<rows, due, bodies, last, sub, bid, accepted, unheard>> /\ w = "deliver" /\ w' # "b_row"
    BY <1>6, <2>2, Zenon DEF Decide, store
  <2> QED BY <1>0, <2>3, StoreKept, Zenon
<1>7. CASE BounceLocal \/ SettleFails
  <2>1. UNCHANGED <<rows, due, bodies, last, sub, bid, accepted, unheard>> /\ w # "b_row" /\ w' # "b_row"
    BY <1>7, Zenon DEF BounceLocal, SettleFails, Return, store, job, fate
  <2> QED BY <1>0, <2>1, StoreKept, Zenon
<1>8. CASE BouncePut
  <2>1. /\ bodies' = bodies \cup {last + 1} /\ last' = last + 1 /\ last \in Nat /\ last + 1 \in RowId
        /\ bid' = last + 1 /\ w' = "b_row"
    BY <1>0, <1>8, NextIdTyped DEF BouncePut, PutRaw, StoreTypes
  <2>2. accepted[last + 1] = Null /\ \A i \in RowId : i \in Nat
    BY <1>0, <2>1 DEF StoreInv, RowsInv, RowId
  <2>3. UNCHANGED <<rows, due, sub, accepted, unheard>>
    BY <1>8, Zenon DEF BouncePut
  <2>4. RowsInv' /\ DueInv'
    BY <1>0, <2>1, <2>2, <2>3 DEF StoreInv, RowsInv, DueInv, Ids
  <2>5. Null \notin RowId
    BY NullNoId, Zenon
  <2>6. NewIdInv'
    BY <1>0, <2>1, <2>2, <2>3, <2>5 DEF StoreInv, NewIdInv, StoreTypes
  <2> QED BY <2>4, <2>6, Zenon DEF StoreInv
<1>9. CASE BounceRow \/ BounceUnheard
  <2> DEFINE e == [from |-> "null", rcpts |-> {SenderAddr}]
  <2>1. /\ bid \in RowId /\ e \in Envelope /\ InsertRow(bid, e)
        /\ bid \in bodies /\ bid <= last /\ accepted[bid] = Null
    BY <1>0, <1>9, BounceTyped, Zenon DEF BounceRow, BounceUnheard, WorkerTypes, StoreInv, NewIdInv
  <2> HIDE DEF e
  <2>2. /\ UNCHANGED <<bodies, last, sub>> /\ bid' = Null /\ w' = "settle"
        /\ unheard' = unheard \/ unheard' = unheard \cup {bid}
    BY <1>9, Zenon DEF BounceRow, BounceUnheard
  <2>3. RowsInv' /\ DueInv' /\ \A j \in RowId \ {bid} : accepted'[j] = accepted[j]
    BY <1>0, <2>1, <2>2, RowInserted, Zenon
  <2>4. NewIdInv'
    BY <1>0, <1>9, <2>2, <2>3, Zenon DEF StoreInv, NewIdInv, StoreTypes, BounceRow, BounceUnheard
  <2> QED BY <2>3, <2>4, Zenon DEF StoreInv
<1>10. CASE BounceFails
  <2>1. bid # Null => bid \in RowId /\ rows[bid] = Null
    BY <1>0, Zenon DEF WorkerTypes, StoreInv, NewIdInv, RowsInv
  <2>2. /\ UNCHANGED <<rows, due, last, sub, accepted, unheard>>
        /\ bodies' = bodies \ {bid} /\ bid' = Null /\ w' = "settle"
    BY <1>10, Zenon DEF BounceFails
  <2>3. sub # Null => sub.id \in RowId /\ sub.id # bid
    BY <1>0, NullNoId, Zenon DEF StoreTypes, StoreInv, NewIdInv
  <2>4. \A i \in RowId : rows[i] # Null => i # bid
    BY <2>1, NullNoId, Zenon
  <2> QED BY <1>0, <2>2, <2>3, <2>4 DEF StoreInv, RowsInv, DueInv, Ids, NewIdInv
<1>11. CASE Defer
  <2>1. /\ cur.id \in RowId /\ rows'[cur.id] # Null /\ rows[cur.id] # Null /\ rows'[cur.id].from = rows[cur.id].from
        /\ rows'[cur.id].rcpts = temp /\ \A j \in RowId \ {cur.id} : rows'[j] = rows[j]
    BY <1>0, <1>11, RowDeferred, Zenon
  <2>2. temp \subseteq rows[cur.id].rcpts
    BY <1>0, <1>11, Zenon DEF Defer, AttemptInv, BatchInv, Active
  <2>3. Ids' = Ids \ {cur.id} /\ \A j, k \in DOMAIN due' : due'[j] = due'[k] => j = k
    BY <1>0, <1>11, UndueTyped, Zenon DEF Defer, StoreTypes, StoreInv, DueInv
  <2>4. Ids \subseteq RowId
    BY <1>0 DEF StoreTypes, Ids
  <2>5. UNCHANGED <<bodies, last, sub, accepted, bid, unheard>> /\ w = "settle" /\ w' = "next"
    BY <1>11, Zenon DEF Defer, Return, fate
  <2>6. RowsInv'
    BY <1>0, <2>1, <2>2, <2>5, Zenon DEF StoreInv, RowsInv
  <2>7. DueInv'
    BY <1>0, <2>1, <2>3, <2>4, Zenon DEF StoreInv, DueInv
  <2> QED BY <1>0, <2>5, <2>6, <2>7, Zenon DEF StoreInv, NewIdInv
<1>12. CASE CompleteDoc
  <2>1. cur.id \in RowId /\ rows'[cur.id] = Null /\ \A j \in RowId \ {cur.id} : rows'[j] = rows[j]
    BY <1>0, <1>12, CurTyped, Zenon DEF CompleteDoc, StoreTypes
  <2>2. Ids' = Ids \ {cur.id} /\ \A j, k \in DOMAIN due' : due'[j] = due'[k] => j = k
    BY <1>0, <1>12, UndueTyped, Zenon DEF CompleteDoc, StoreTypes, StoreInv, DueInv
  <2>3. Ids \subseteq RowId
    BY <1>0 DEF StoreTypes, Ids
  <2>4. /\ UNCHANGED <<bodies, last, sub, accepted, bid, unheard>>
        /\ w \in {"settle", "complete"} /\ w' = "c_body"
    BY <1>12, Zenon DEF CompleteDoc, job, fate
  <2> QED BY <1>0, <2>1, <2>2, <2>3, <2>4 DEF StoreInv, RowsInv, DueInv, NewIdInv
<1>13. CASE CompleteBody
  <2>1. cur.id \in RowId /\ rows[cur.id] = Null /\ accepted[cur.id] # Null
    BY <1>0, <1>13, CurTyped, Zenon DEF CompleteBody, BatchInv
  <2>2. /\ UNCHANGED <<rows, due, last, sub, accepted, bid, unheard>> /\ bodies' = bodies \ {cur.id}
        /\ w = "c_body" /\ w' = "next"
    BY <1>13, Zenon DEF CompleteBody, Return, fate
  <2> QED BY <1>0, <2>1, <2>2 DEF StoreInv, RowsInv, DueInv, Ids, NewIdInv
<1>14. CASE Crash
  <2>1. /\ UNCHANGED <<rows, due, bodies, last, accepted, unheard>>
        /\ sub' = Null /\ bid' = Null /\ w' = "idle"
    BY <1>14, Zenon DEF Crash, store, fate
  <2> QED BY <1>0, <2>1 DEF StoreInv, RowsInv, DueInv, Ids, NewIdInv
<1>15. CASE Elapse
  <2>1. PICK i \in RowId : due' = Append(due, i) /\ i \notin Ids /\ rows[i] # Null
    BY <1>0, <1>15, Elapsed, Zenon
  <2>2. \A j \in RowId : /\ rows'[j] = Null <=> rows[j] = Null
                         /\ rows[j] # Null => /\ rows'[j].from = rows[j].from
                                              /\ rows'[j].rcpts = rows[j].rcpts
    BY <1>0, <1>15, Elapsed, Zenon
  <2>3. Ids' = Ids \cup {i} /\ \A j, k \in DOMAIN due' : due'[j] = due'[k] => j = k
    BY <1>0, <2>1, DueAppended, Zenon DEF StoreTypes, StoreInv, DueInv
  <2>4. Ids \subseteq RowId
    BY <1>0 DEF StoreTypes, Ids
  <2>5. UNCHANGED <<bodies, last, sub, accepted, bid, w, unheard>>
    BY <1>15, Zenon DEF Elapse, job, fate
  <2>6. RowsInv'
    BY <1>0, <2>2, <2>5, Zenon DEF StoreInv, RowsInv
  <2>7. DueInv'
    BY <1>0, <2>1, <2>2, <2>3, <2>4, Zenon DEF StoreInv, DueInv
  <2> QED BY <1>0, <2>5, <2>6, <2>7, Zenon DEF StoreInv, NewIdInv
<1>16. ASSUME NEW d \in Domain, Expire(d) PROVE StoreInv'
  <2>1. UNCHANGED <<rows, due, bodies, last, sub, bid, accepted, unheard>> /\ w' = w
    BY <1>16, Zenon DEF Expire, store, job, fate
  <2> QED BY <1>0, <2>1, StoreKept, Zenon
<1>18. ASSUME NEW i \in RowId, DropUnheard(i) PROVE StoreInv'
  <2>1. /\ UNCHANGED <<rows, due, last, sub, bid, w, accepted, unheard>>
        /\ i \in unheard /\ bodies' = bodies \ {i}
    BY <1>18, Zenon DEF DropUnheard, job, fate
  <2>2. accepted[i] # Null
    BY <1>0, <2>1, Zenon DEF StoreInv, RowsInv
  <2>3. RowsInv' /\ DueInv'
    BY <1>0, <2>1, Zenon DEF StoreInv, RowsInv, DueInv, Ids
  <2>4. NewIdInv'
    BY <1>0, <2>1, <2>2, Zenon DEF StoreInv, NewIdInv
  <2> QED BY <2>3, <2>4, Zenon DEF StoreInv
<1>17. CASE UNCHANGED vars
  <2>1. UNCHANGED <<rows, due, bodies, last, sub, bid, accepted, unheard>> /\ w' = w
    BY <1>17, Zenon DEF vars, store, job, fate
  <2> QED BY <1>0, <2>1, StoreKept, Zenon
<1> QED BY <1>1, <1>2, <1>3, <1>4, <1>5, <1>6, <1>7, <1>8, <1>9, <1>10, <1>11, <1>12, <1>13,
           <1>14, <1>15, <1>16, <1>17, <1>18, Zenon DEF Next, Worker, Failure

-----------------------------------------------------------------------------
(* The batch.                                                              *)

\* The rest of a batch.
LEMMA Taken ==
  ASSUME batch \in Seq(Item), batch # <<>>, BatchInv, cur' = Head(batch), batch' = Tail(batch),
         UNCHANGED <<rows, due>>
  PROVE  /\ cur' \in Item /\ cur'.id \in Ids' /\ cur'.row = rows'[cur'.id]
         /\ \A k \in DOMAIN batch' : batch'[k].id \in Ids' /\ batch'[k].row = rows'[batch'[k].id]
         /\ \A j, k \in DOMAIN batch' : batch'[j].id = batch'[k].id => j = k
         /\ \A k \in DOMAIN batch' : batch'[k].id # cur'.id
<1> DEFINE n == Len(batch)
<1>1. n \in Nat \ {0} /\ DOMAIN batch = 1 .. n /\ cur' = batch[1] /\ cur' \in Item
  OBVIOUS
<1>2. DOMAIN batch' = 1 .. n - 1 /\ \A k \in 1 .. n - 1 : batch'[k] = batch[k + 1]
  OBVIOUS
<1> HIDE DEF n
<1>3. 1 \in 1 .. n /\ \A k \in 1 .. n - 1 : k + 1 \in 1 .. n /\ k + 1 # 1
  BY <1>1
<1>4. Ids' = Ids
  BY Zenon DEF Ids
<1>5. \A j, k \in 1 .. n - 1 : batch'[j].id = batch'[k].id => j = k
  <2> SUFFICES ASSUME NEW j \in 1 .. n - 1, NEW k \in 1 .. n - 1, batch'[j].id = batch'[k].id
               PROVE  j = k
    BY Zenon
  <2>0. j + 1 \in DOMAIN batch /\ k + 1 \in DOMAIN batch /\ batch[j + 1].id = batch[k + 1].id
    BY <1>1, <1>2, <1>3, Zenon
  <2>1. j + 1 = k + 1
    BY <2>0, Zenon DEF BatchInv
  <2> QED BY <1>1, <2>1
<1>6. \A k \in 1 .. n - 1 : batch'[k].id # cur'.id
  BY <1>1, <1>2, <1>3 DEF BatchInv
<1>7. \A k \in 1 .. n - 1 : batch'[k].id \in Ids /\ batch'[k].row = rows[batch'[k].id]
  BY <1>1, <1>2, <1>3 DEF BatchInv
<1>8. cur'.id \in Ids /\ cur'.row = rows[cur'.id]
  BY <1>1, <1>3, Zenon DEF BatchInv
<1> QED BY <1>1, <1>2, <1>4, <1>5, <1>6, <1>7, <1>8, Zenon

\* A step that leaves the rows that are due alone, and the worker at a label of
\* the same kind.
LEMMA BatchKept ==
  ASSUME BatchInv, UNCHANGED <<batch, cur>>, \A i \in Ids : i \in Ids' /\ rows'[i] = rows[i],
         w \in Active => w' \in Active, w \notin Active => w' = w,
         w = "c_body" => rows'[cur.id] = Null /\ accepted'[cur.id] # Null
  PROVE  BatchInv'
  BY Zenon DEF BatchInv, Active

\* What runOnce listed stays as it was listed until the worker comes to it.
LEMMA BatchInvStep == ASSUME IInv, [Next]_vars PROVE BatchInv'
<1>0. /\ StoreTypes /\ WorkerTypes /\ FateTypes
      /\ StoreInv /\ BatchInv /\ AttemptInv /\ VerdictInv /\ CareInv
  BY TypesSplit, Zenon DEF IInv
<1>1. CASE SubmitBody \/ SubmitFails \/ Talk \/ TalkAnswerLost \/ BounceLocal \/ BouncePut
  <2>1. UNCHANGED <<rows, due, batch, cur, accepted>> /\ Ids' = Ids
    BY <1>1, Zenon DEF SubmitBody, SubmitFails, Talk, TalkAnswerLost, BounceLocal, BouncePut,
       store, job, fate, Ids
  <2>2. (w \in Active => w' \in Active) /\ (w \notin Active => w' = w)
    BY <1>0, <1>1, Zenon DEF SubmitBody, SubmitFails, Talk, TalkAnswerLost, BounceLocal, BouncePut,
       Active, AttemptInv
  <2> QED BY <1>0, <2>1, <2>2, BatchKept, Zenon DEF BatchInv
<1>2. CASE SubmitRow \/ SubmitUnheard
  <2>1. /\ sub.id \in RowId /\ sub.env \in Envelope /\ InsertRow(sub.id, sub.env)
        /\ sub.id \in bodies /\ sub.id <= last /\ accepted[sub.id] = Null /\ rows[sub.id] = Null
    BY <1>0, <1>2, Zenon DEF SubmitRow, SubmitUnheard, StoreTypes, StoreInv, NewIdInv, RowsInv
  <2>2. /\ UNCHANGED <<bodies, last, w, batch, cur>>
        /\ unheard' = unheard \/ unheard' = unheard \cup {sub.id}
    BY <1>2, Zenon DEF SubmitRow, SubmitUnheard, job
  <2>3. Ids' = Ids \cup {sub.id}
        /\ \A j \in RowId \ {sub.id} : rows'[j] = rows[j] /\ accepted'[j] = accepted[j]
    BY <1>0, <2>1, <2>2, RowInserted, Zenon
  <2>4. \A i \in Ids : i \in RowId /\ i # sub.id
    BY <1>0, <2>1 DEF StoreTypes, Ids, StoreInv, DueInv
  <2>5. w = "c_body" => rows'[cur.id] = Null /\ accepted'[cur.id] # Null
    BY <1>0, <2>1, <2>3, CurTyped, Zenon DEF BatchInv
  <2> QED BY <1>0, <2>2, <2>3, <2>4, <2>5, BatchKept, Zenon
<1>3. CASE Poll
  <2> DEFINE n == Smaller(BatchSize, Len(due))
  <2>1. n \in Nat /\ 1 .. n \subseteq DOMAIN due
    BY <1>0, QueueAssumption DEF Smaller, StoreTypes
  <2>2. batch' = [k \in 1 .. n |-> [id |-> due[k], row |-> rows[due[k]]]]
    BY <1>3, Zenon DEF Poll
  <2> HIDE DEF n
  <2>3. DOMAIN batch' = 1 .. n
        /\ \A k \in 1 .. n : batch'[k].id = due[k] /\ batch'[k].row = rows[due[k]]
    BY <2>2, Zenon
  <2>4. UNCHANGED <<rows, due, cur>> /\ w = "idle" /\ w' = "next"
    BY <1>3, Zenon DEF Poll, store, job
  <2>5. Ids' = Ids /\ \A k \in 1 .. n : due[k] \in Ids
    BY <2>1, <2>4, Zenon DEF Ids
  <2>6. \A j, k \in 1 .. n : due[j] = due[k] => j = k
    BY <1>0, <2>1, Zenon DEF StoreInv, DueInv
  <2> QED BY <1>0, <2>3, <2>4, <2>5, <2>6, SMTT(20) DEF BatchInv, Active
<1>4. CASE EndBatch
  <2>1. UNCHANGED <<rows, due, batch, cur>> /\ batch = <<>> /\ w = "next" /\ w' = "idle" /\ Ids' = Ids
    BY <1>4, Zenon DEF EndBatch, store, job, Ids
  <2> QED BY <1>0, <2>1, Zenon DEF BatchInv, Active
<1>5. CASE Take
  <2>1. /\ cur' \in Item /\ cur'.id \in Ids' /\ cur'.row = rows'[cur'.id]
        /\ \A k \in DOMAIN batch' : batch'[k].id \in Ids' /\ batch'[k].row = rows'[batch'[k].id]
        /\ \A j, k \in DOMAIN batch' : batch'[j].id = batch'[k].id => j = k
        /\ \A k \in DOMAIN batch' : batch'[k].id # cur'.id
    BY <1>0, <1>5, Taken, Zenon DEF Take, store, WorkerTypes
  <2>2. w' = "deliver"
    BY <1>5, Zenon DEF Take
  <2> QED BY <2>1, <2>2, NotNull, Zenon DEF BatchInv, Active
<1>6. CASE TakeUnreadable
  <2>1. /\ cur' \in Item /\ cur'.id \in Ids' /\ cur'.row = rows'[cur'.id]
        /\ \A k \in DOMAIN batch' : batch'[k].id \in Ids' /\ batch'[k].row = rows'[batch'[k].id]
        /\ \A j, k \in DOMAIN batch' : batch'[j].id = batch'[k].id => j = k
        /\ \A k \in DOMAIN batch' : batch'[k].id # cur'.id
    BY <1>0, <1>6, Taken, Zenon DEF TakeUnreadable, store, WorkerTypes
  <2>2. w' = "complete"
    BY <1>6, Zenon DEF TakeUnreadable
  <2> QED BY <2>1, <2>2, NotNull, Zenon DEF BatchInv, Active
<1>7. ASSUME NEW d \in Domain, Connect(d) PROVE BatchInv'
  <2>1. UNCHANGED <<rows, due, batch, cur, accepted>> /\ Ids' = Ids
    BY <1>7, Zenon DEF Connect, store, job, fate, Ids
  <2>2. (w \in Active => w' \in Active) /\ (w \notin Active => w' = w)
    BY <1>0, <1>7, Zenon DEF Connect, Active, AttemptInv
  <2> QED BY <1>0, <2>1, <2>2, BatchKept, Zenon DEF BatchInv
<1>8. CASE Decide
  <2>1. cur.row.from \in Sender
    BY <1>0, <1>8, CurTyped, Zenon DEF Decide
  <2>2. AfterDecide(Bounced) \in {"settle", "bounce", "b_put"}
    BY <2>1, Zenon DEF AfterDecide, Sender
  <2>3. UNCHANGED <<rows, due, batch, cur, accepted>> /\ w = "deliver" /\ w' \in Active /\ Ids' = Ids
    BY <1>8, <2>2, Zenon DEF Decide, store, Active, Ids
  <2> QED BY <1>0, <2>3, BatchKept, Zenon DEF Active
<1>9. CASE BounceRow \/ BounceUnheard
  <2> DEFINE e == [from |-> "null", rcpts |-> {SenderAddr}]
  <2>1. /\ bid \in RowId /\ e \in Envelope /\ InsertRow(bid, e)
        /\ bid \in bodies /\ bid <= last /\ accepted[bid] = Null /\ rows[bid] = Null
    BY <1>0, <1>9, BounceTyped, Zenon
       DEF BounceRow, BounceUnheard, WorkerTypes, StoreInv, NewIdInv, RowsInv
  <2> HIDE DEF e
  <2>2. /\ UNCHANGED <<bodies, last, batch, cur>> /\ w = "b_row" /\ w' = "settle"
        /\ unheard' = unheard \/ unheard' = unheard \cup {bid}
    BY <1>9, Zenon DEF BounceRow, BounceUnheard
  <2>3. Ids' = Ids \cup {bid} /\ \A j \in RowId \ {bid} : rows'[j] = rows[j]
    BY <1>0, <2>1, <2>2, RowInserted, Zenon
  <2>4. \A i \in Ids : i \in RowId /\ i # bid
    BY <1>0, <2>1 DEF StoreTypes, Ids, StoreInv, DueInv
  <2> QED BY <1>0, <2>2, <2>3, <2>4, BatchKept, Zenon DEF Active
<1>10. CASE BounceFails
  <2>1. UNCHANGED <<rows, due, batch, cur, accepted>> /\ Ids' = Ids
    BY <1>10, Zenon DEF BounceFails, store, job, fate, Ids
  <2>2. (w \in Active => w' \in Active) /\ (w \notin Active => w' = w)
    BY <1>0, <1>10, Zenon DEF BounceFails, Active, AttemptInv
  <2> QED BY <1>0, <2>1, <2>2, BatchKept, Zenon DEF BatchInv
<1>11. CASE Defer
  <2>1. cur.id \in RowId /\ \A j \in RowId \ {cur.id} : rows'[j] = rows[j]
    BY <1>0, <1>11, RowDeferred, Zenon
  <2>2. Ids' = Ids \ {cur.id}
    BY <1>0, <1>11, UndueTyped, Zenon DEF Defer, StoreTypes, StoreInv, DueInv
  <2>5. Ids \subseteq RowId
    BY <1>0 DEF StoreTypes, Ids
  <2>3. UNCHANGED batch /\ w = "settle" /\ w' = "next" /\ cur' = Null /\ cur # Null
    BY <1>0, <1>11, Zenon DEF Defer, Return, BatchInv
  <2> QED BY <1>0, <2>1, <2>2, <2>3, <2>5, Zenon DEF BatchInv, Active
<1>12. CASE CompleteDoc
  <2>1. /\ cur.id \in RowId /\ rows'[cur.id] = Null
        /\ \A j \in RowId \ {cur.id} : rows'[j] = rows[j]
    BY <1>0, <1>12, CurTyped, Zenon DEF CompleteDoc, StoreTypes
  <2>2. Ids' = Ids \ {cur.id}
    BY <1>0, <1>12, UndueTyped, Zenon DEF CompleteDoc, StoreTypes, StoreInv, DueInv
  <2>5. Ids \subseteq RowId
    BY <1>0 DEF StoreTypes, Ids
  <2>3. /\ UNCHANGED <<batch, cur, accepted>> /\ w \in {"settle", "complete"} /\ w' = "c_body"
        /\ cur # Null
    BY <1>0, <1>12, Zenon DEF CompleteDoc, BatchInv, job, fate
  <2>4. accepted[cur.id] # Null
    BY <1>0, <2>3 DEF BatchInv, Active, StoreInv, RowsInv, DueInv, StoreTypes, Ids
  <2> QED BY <1>0, <2>1, <2>2, <2>3, <2>4, <2>5, Zenon DEF BatchInv, Active
<1>13. CASE CompleteBody \/ SettleFails
  <2>1. UNCHANGED <<rows, due, batch>> /\ w' = "next" /\ cur' = Null /\ Ids' = Ids
    BY <1>13, Zenon DEF CompleteBody, SettleFails, Return, store, Ids
  <2> QED BY <1>0, <2>1, Zenon DEF BatchInv, Active
<1>14. CASE Elapse
  <2>1. PICK i \in RowId : due' = Append(due, i)
    BY <1>0, <1>14, Elapsed, Zenon
  <2>2. Ids' = Ids \cup {i} /\ Ids \subseteq RowId
    BY <1>0, <2>1, DueAppended DEF StoreTypes, Ids
  <2>3. \A j \in RowId : (rows'[j] = Null <=> rows[j] = Null) /\ (j \in Ids => rows'[j] = rows[j])
    BY <1>0, <1>14, Elapsed, Zenon
  <2>4. UNCHANGED <<batch, cur, w, accepted>>
    BY <1>14, Zenon DEF Elapse, job, fate
  <2>5. w = "c_body" => rows'[cur.id] = Null /\ accepted'[cur.id] # Null
    BY <1>0, <2>3, <2>4, CurTyped, Zenon DEF BatchInv
  <2> QED BY <1>0, <2>2, <2>3, <2>4, <2>5, BatchKept, Zenon
<1>15. ASSUME NEW d \in Domain, Expire(d) PROVE BatchInv'
  <2>1. UNCHANGED <<rows, due, batch, cur, accepted>> /\ Ids' = Ids
    BY <1>15, Zenon DEF Expire, store, job, fate, Ids
  <2>2. (w \in Active => w' \in Active) /\ (w \notin Active => w' = w)
    BY <1>0, <1>15, Zenon DEF Expire, Active, AttemptInv
  <2> QED BY <1>0, <2>1, <2>2, BatchKept, Zenon DEF BatchInv
<1>16. CASE Crash
  <2>1. w' = "idle" /\ batch' = <<>> /\ cur' = Null
    BY <1>16, Zenon DEF Crash
  <2>2. DOMAIN batch' = {}
    BY <2>1
  <2> QED BY <2>1, <2>2, Zenon DEF BatchInv, Active
<1>18. ASSUME NEW i \in RowId, DropUnheard(i) PROVE BatchInv'
  <2>1. UNCHANGED <<rows, batch, cur, w, accepted>> /\ Ids' = Ids
    BY <1>18, Zenon DEF DropUnheard, Ids, job, fate
  <2> QED BY <1>0, <2>1, Zenon DEF BatchInv
<1>17. CASE UNCHANGED vars
  <2>1. UNCHANGED <<rows, batch, cur, w, accepted>> /\ Ids' = Ids
    BY <1>17, Zenon DEF vars, Ids, store, job, fate
  <2> QED BY <1>0, <2>1, Zenon DEF BatchInv
<1> QED BY <1>1, <1>2, <1>3, <1>4, <1>5, <1>6, <1>7, <1>8, <1>9, <1>10, <1>11, <1>12, <1>13, Zenon,
           <1>14, <1>15, <1>16, <1>17, <1>18 DEF Next, Worker, Failure

-----------------------------------------------------------------------------
(* One attempt.                                                            *)

\* Connect moves the recipients of a domain to those that failed, or leaves them
\* to the connection it opened.
LEMMA ConnectEffect ==
  ASSUME WorkerTypes, BatchInv, AttemptInv, NEW d \in Domain, Connect(d)
  PROVE  /\ w = "deliver" /\ UNCHANGED <<w, cur>> /\ todo' = todo \ {d}
         /\ conn' # Null => conn'.dom = d
         /\ Untried' \cup temp' \cup perm' = Untried \cup temp \cup perm
         /\ Untried' \cap (temp' \cup perm') = {}
         /\ temp' \cup perm' \subseteq cur.row.rcpts
<1>1. PICK pol \in Policy \cup {Null}, c \in Dial : Dialled(d, pol, c) /\ (c.res = "open" => c.mx \in Mx)
  BY Connected, Zenon
<1>2. w = "deliver" /\ conn = Null /\ d \in todo /\ UNCHANGED <<w, cur>> /\ todo' = todo \ {d}
  BY <1>1, Zenon DEF Connect, Dialled
<1>3. Untried = {r \in cur.row.rcpts : DomainOf[r] \in todo} /\ At(d) \subseteq Untried
  BY <1>2, Zenon DEF Untried, At
<1>4. CASE c.res = "open"
  <2>1. conn' = [dom |-> d, mx |-> c.mx, tls |-> c.tls] /\ temp' = temp /\ perm' = perm
    BY <1>1, <1>4, Zenon DEF Dialled
  <2>2. [dom |-> d, mx |-> c.mx, tls |-> c.tls] \in Conn
    BY <1>1, <1>4, Zenon DEF Conn, Dial
  <2>3. conn' # Null /\ conn'.dom = d
    BY <2>1, <2>2, NotNull, Zenon
  <2>4. Untried' = Untried
    BY <1>2, <1>3, <2>3, Zenon DEF Untried
  <2>5. temp \cup perm \subseteq cur.row.rcpts /\ Untried \cap (temp \cup perm) = {}
    BY <1>2, Zenon DEF AttemptInv, BatchInv
  <2> QED BY <1>2, <2>1, <2>3, <2>4, <2>5, Zenon
<1>5. CASE c.res # "open"
  <2>1. conn' = Null
    BY <1>1, <1>5, Zenon DEF Dialled
  <2>2. Untried' = Untried \ At(d)
    BY <1>2, <1>3, <2>1, Zenon DEF Untried, At
  <2>3. temp' \cup perm' = temp \cup perm \cup At(d)
    BY <1>1, <1>5, Zenon DEF Dialled, Dial
  <2>4. At(d) \subseteq cur.row.rcpts /\ temp \cup perm \subseteq cur.row.rcpts
    <3>1. temp \cup perm \subseteq cur.row.rcpts
      BY <1>2, Zenon DEF AttemptInv, BatchInv
    <3>2. At(d) \subseteq cur.row.rcpts
      BY Zenon DEF At
    <3> QED BY <3>1, <3>2, Zenon
  <2>5. Untried \cap (temp \cup perm) = {}
    BY <1>2, Zenon DEF AttemptInv
  <2> QED BY <1>2, <1>3, <2>1, <2>2, <2>3, <2>4, <2>5, Zenon
<1> QED BY <1>4, <1>5, Zenon

\* A conversation settles every recipient of its domain: S are those for whom the
\* remote took the message, R those that count as failed.
LEMMA TalkEffect ==
  ASSUME WorkerTypes, FateTypes, BatchInv, AttemptInv, Talk \/ TalkAnswerLost
  PROVE  /\ w = "deliver" /\ UNCHANGED <<w, cur, todo>> /\ conn' = Null /\ cur.id \in RowId
         /\ At(conn.dom) \subseteq Untried
         /\ Untried' = Untried \ At(conn.dom)
         /\ \E R, S \in SUBSET At(conn.dom) :
               /\ R \cup S = At(conn.dom)
               /\ temp' \cup perm' = temp \cup perm \cup R
               /\ \A j \in RowId, r \in Rcpt :
                     taken'[j][r] = taken[j][r] + (IF j = cur.id /\ r \in S THEN 1 ELSE 0)
               /\ \/ R \cap S = {} /\ faults' = faults
                  \/ faults' = faults + 1
<1>1. w = "deliver" /\ conn # Null /\ UNCHANGED <<w, cur, todo>> /\ conn' = Null /\ conn.dom \notin todo
  BY Zenon DEF Talk, TalkAnswerLost, AttemptInv
<1>2. cur.id \in RowId /\ taken \in [RowId -> [Rcpt -> Nat]]
  BY <1>1, CurTyped, Zenon DEF FateTypes
<1>3. At(conn.dom) \subseteq Untried
  BY <1>1, Zenon DEF At, Untried
<1>4. Untried' = Untried \ At(conn.dom)
  BY <1>1, Zenon DEF At, Untried
<1>5. CASE Talk
  <2> DEFINE A == At(conn.dom)
  <2>1. PICK T \in SUBSET A : \E P \in SUBSET (A \ T), data \in {"ok", "temp", "perm"} :
          LET acc == A \ (T \cup P) IN
          /\ temp' = temp \cup T \cup (IF data = "temp" THEN acc ELSE {})
          /\ perm' = perm \cup P \cup (IF data = "perm" THEN acc ELSE {})
          /\ taken' = IF data = "ok"
                      THEN [taken EXCEPT ![cur.id] =
                               [r \in Rcpt |-> @[r] + (IF r \in acc THEN 1 ELSE 0)]]
                      ELSE taken
    BY <1>5, Zenon DEF Talk
  <2>2. PICK P \in SUBSET (A \ T), data \in {"ok", "temp", "perm"} :
          /\ temp' = temp \cup T \cup (IF data = "temp" THEN A \ (T \cup P) ELSE {})
          /\ perm' = perm \cup P \cup (IF data = "perm" THEN A \ (T \cup P) ELSE {})
          /\ taken' = IF data = "ok"
                      THEN [taken EXCEPT ![cur.id] =
                               [r \in Rcpt |-> @[r] + (IF r \in A \ (T \cup P) THEN 1 ELSE 0)]]
                      ELSE taken
    BY <2>1, Zenon
  <2> DEFINE S == IF data = "ok" THEN A \ (T \cup P) ELSE {}
             R == A \ S
  <2>3. temp' \cup perm' = temp \cup perm \cup R
    BY <2>2, Zenon
  <2>4. \A j \in RowId, r \in Rcpt :
           taken'[j][r] = taken[j][r] + (IF j = cur.id /\ r \in S THEN 1 ELSE 0)
    <3>1. CASE data = "ok"
      BY <1>2, <2>2, <3>1, TallyTyped
    <3>2. CASE data # "ok"
      BY <1>2, <2>2, <3>2
    <3> QED BY <3>1, <3>2, Zenon
  <2>5. faults' = faults
    BY <1>5, Zenon DEF Talk
  <2>6. R \in SUBSET A /\ S \in SUBSET A /\ R \cup S = A /\ R \cap S = {}
    BY Zenon
  <2> HIDE DEF A, S, R
  <2> QED BY <1>1, <1>2, <1>3, <1>4, <2>3, <2>4, <2>5, <2>6, Zenon DEF A
<1>6. CASE TalkAnswerLost
  <2> DEFINE A == At(conn.dom)
  <2>1. PICK T \in SUBSET A : \E P \in SUBSET (A \ T) :
          /\ temp' = temp \cup (A \ P)
          /\ perm' = perm \cup P
          /\ taken' = [taken EXCEPT ![cur.id] =
                          [r \in Rcpt |-> @[r] + (IF r \in A \ (T \cup P) THEN 1 ELSE 0)]]
    BY <1>6, Zenon DEF TalkAnswerLost
  <2>2. PICK P \in SUBSET (A \ T) :
          /\ temp' = temp \cup (A \ P)
          /\ perm' = perm \cup P
          /\ taken' = [taken EXCEPT ![cur.id] =
                          [r \in Rcpt |-> @[r] + (IF r \in A \ (T \cup P) THEN 1 ELSE 0)]]
    BY <2>1, Zenon
  <2> DEFINE S == A \ (T \cup P)
  <2>3. \A j \in RowId, r \in Rcpt :
           taken'[j][r] = taken[j][r] + (IF j = cur.id /\ r \in S THEN 1 ELSE 0)
    BY <1>2, <2>2, TallyTyped
  <2>4. temp' \cup perm' = temp \cup perm \cup A
    BY <2>2, Zenon
  <2>5. faults' = faults + 1
    BY <1>6, Zenon DEF TalkAnswerLost, Fault
  <2>6. A \in SUBSET A /\ S \in SUBSET A /\ A \cup S = A
    BY Zenon
  <2> HIDE DEF A, S
  <2> QED BY <1>1, <1>2, <1>3, <1>4, <2>3, <2>4, <2>5, <2>6, Zenon DEF A
<1> QED BY <1>5, <1>6, Zenon

\* An attempt tries each domain once, and nobody fails in it before that.
LEMMA AttemptInvStep == ASSUME IInv, [Next]_vars PROVE AttemptInv'
<1>0. /\ StoreTypes /\ WorkerTypes /\ FateTypes
      /\ StoreInv /\ BatchInv /\ AttemptInv /\ VerdictInv /\ CareInv
  BY TypesSplit, Zenon DEF IInv
<1>1. CASE SubmitBody \/ SubmitRow \/ SubmitUnheard \/ SubmitFails \/ Poll \/ EndBatch \/ Take
  BY <1>0, <1>1, Zenon DEF SubmitBody, SubmitRow, SubmitUnheard, SubmitFails, Poll, EndBatch, Take, job,
     AttemptInv, BatchInv, Untried
<1>2. CASE TakeUnreadable \/ BounceLocal \/ BouncePut \/ BounceRow \/ BounceFails \/
         BounceUnheard \/ CompleteDoc
  BY <1>0, <1>2, Zenon DEF TakeUnreadable, BounceLocal, BouncePut, BounceRow, BounceFails,
     BounceUnheard, CompleteDoc, job, AttemptInv, BatchInv, Untried
<1>3. ASSUME NEW d \in Domain, Connect(d) PROVE AttemptInv'
  <2>1. /\ w = "deliver" /\ UNCHANGED <<w, cur>> /\ todo' = todo \ {d}
        /\ conn' # Null => conn'.dom = d
        /\ Untried' \cap (temp' \cup perm') = {} /\ temp' \cup perm' \subseteq cur.row.rcpts
    BY <1>0, <1>3, ConnectEffect, Zenon
  <2> QED BY <2>1, Zenon DEF AttemptInv
<1>4. CASE Talk \/ TalkAnswerLost
  <2>1. /\ w = "deliver" /\ UNCHANGED <<w, cur, todo>> /\ conn' = Null
        /\ At(conn.dom) \subseteq Untried /\ Untried' = Untried \ At(conn.dom)
        /\ \E R \in SUBSET At(conn.dom) : temp' \cup perm' = temp \cup perm \cup R
    BY <1>0, <1>4, TalkEffect, Zenon
  <2>2. Untried \subseteq cur.row.rcpts
    BY Zenon DEF Untried
  <2>3. temp \cup perm \subseteq cur.row.rcpts /\ Untried \cap (temp \cup perm) = {}
    BY <1>0, <2>1, Zenon DEF AttemptInv, BatchInv
  <2> QED BY <2>1, <2>2, <2>3, Zenon DEF AttemptInv
<1>5. CASE Decide
  <2>1. cur.row.from \in Sender
    BY <1>0, <1>5, CurTyped, Zenon DEF Decide
  <2>2. AfterDecide(Bounced) \in {"settle", "bounce", "b_put"}
    BY <2>1, Zenon DEF AfterDecide, Sender
  <2>3. Bounced \subseteq temp \cup perm
    BY Zenon DEF Bounced
  <2> QED BY <1>0, <1>5, <2>2, <2>3, Zenon DEF Decide, AttemptInv
<1>6. CASE Defer \/ CompleteBody \/ SettleFails
  BY <1>0, <1>6, Zenon DEF Defer, CompleteBody, SettleFails, Return, job, AttemptInv, BatchInv, Untried
<1>7. CASE Elapse \/ Crash
  BY <1>0, <1>7, Zenon DEF Elapse, Crash, job, AttemptInv, BatchInv, Untried
<1>8. ASSUME NEW d \in Domain, Expire(d) PROVE AttemptInv'
  BY <1>0, <1>8, Zenon DEF Expire, job, AttemptInv, BatchInv, Untried
<1>10. ASSUME NEW i \in RowId, DropUnheard(i) PROVE AttemptInv'
  BY <1>0, <1>10, Zenon DEF DropUnheard, job, AttemptInv, BatchInv, Untried
<1>9. CASE UNCHANGED vars
  BY <1>0, <1>9, Zenon DEF vars, AttemptInv, Untried, job
<1> QED BY <1>1, <1>2, <1>3, <1>4, <1>5, <1>6, <1>7, <1>8, <1>9, <1>10, Zenon DEF Next, Worker, Failure

-----------------------------------------------------------------------------
(* Verdicts.                                                               *)

\* Failures are counted.
LEMMA FaultsTyped == ASSUME FateTypes PROVE faults \in Nat
  BY QueueAssumption DEF FateTypes

\* The pending are recipients.
LEMMA PendingTyped == ASSUME StoreTypes, NEW i \in RowId PROVE Pending(i) \subseteq Rcpt
  BY Zenon DEF StoreTypes, Pending, Row

\* The row the worker works on has its recipients still.
LEMMA CurPending ==
  ASSUME WorkerTypes, BatchInv, w \in Active
  PROVE  cur.id \in RowId /\ Pending(cur.id) = cur.row.rcpts /\ cur.row.rcpts \subseteq Rcpt
<1>1. cur.id \in RowId /\ cur.row # Null /\ cur.row.rcpts \subseteq Rcpt
  BY CurTyped, Zenon DEF Active
<1> QED BY <1>1, Zenon DEF BatchInv, Pending

\* A step that gives no verdict: a recipient that is owed one is as before, or
\* is new, or the step is a failure.
LEMMA VerdictKept ==
  ASSUME FateTypes, VerdictInv, UNCHANGED <<taken, failed>>,
         faults' = faults \/ faults' = faults + 1,
         \A i \in RowId : accepted'[i] = Null => accepted[i] = Null,
         \A i \in RowId : \A r \in Pending(i)' :
            /\ r \in Rcpt
            /\ \/ accepted[i] = Null \/ faults' = faults + 1
               \/ r \in Pending(i) /\ (DecidedNow(i, r) => DecidedNow(i, r)')
  PROVE  VerdictInv'
<1>1. faults \in Nat /\ \A i \in RowId, r \in Rcpt : taken[i][r] \in Nat /\ failed[i][r] \in Nat
  BY FaultsTyped, Zenon DEF FateTypes
<1>2. OneVerdict'
  BY <1>1 DEF VerdictInv, OneVerdict
<1>3. ASSUME NEW i \in RowId, NEW r \in Pending(i)'
      PROVE  taken'[i][r] + failed'[i][r] <= faults' \/ DecidedNow(i, r)'
  <2>1. CASE accepted[i] = Null \/ faults' = faults + 1
    BY <1>1, <1>3, <2>1 DEF VerdictInv, OneVerdict
  <2>2. CASE r \in Pending(i) /\ (DecidedNow(i, r) => DecidedNow(i, r)')
    BY <1>1, <1>3, <2>2 DEF VerdictInv
  <2> QED BY <1>3, <2>1, <2>2, Zenon
<1> QED BY <1>2, <1>3, Zenon DEF VerdictInv

\* Every verdict costs the recipient its place in the row, or is paid by a failure.
LEMMA VerdictInvStep == ASSUME IInv, [Next]_vars PROVE VerdictInv'
<1>0. /\ StoreTypes /\ WorkerTypes /\ FateTypes
      /\ StoreInv /\ BatchInv /\ AttemptInv /\ VerdictInv /\ CareInv
  BY TypesSplit, Zenon DEF IInv
<1>1. CASE SubmitBody \/ SubmitFails \/ Poll \/ EndBatch \/ Take \/ TakeUnreadable
  <2>1. UNCHANGED <<rows, accepted, taken, failed>> /\ (faults' = faults \/ faults' = faults + 1)
    BY <1>0, <1>1, Zenon DEF SubmitBody, SubmitFails, Poll, EndBatch, Take, TakeUnreadable, Fault,
       store, job, fate
  <2>2. \A i \in RowId : Pending(i)' = Pending(i) /\ Pending(i) \subseteq Rcpt
    BY <1>0, <2>1, PendingTyped, Zenon DEF Pending
  <2>3. \A i \in RowId : \A r \in Pending(i) :
           faults' = faults + 1 \/ (DecidedNow(i, r) => DecidedNow(i, r)')
    BY <1>0, <1>1, <2>1, Zenon DEF SubmitBody, SubmitFails, Poll, EndBatch, Take, TakeUnreadable,
       Fault, DecidedNow, Active, Untried, AttemptInv,
                         job
  <2> QED BY <1>0, <2>1, <2>2, <2>3, VerdictKept, Zenon
<1>2. CASE SubmitRow \/ SubmitUnheard
  <2>1. /\ sub.id \in RowId /\ sub.env \in Envelope /\ InsertRow(sub.id, sub.env)
        /\ sub.id \in bodies /\ sub.id <= last /\ accepted[sub.id] = Null
    BY <1>0, <1>2, Zenon DEF SubmitRow, SubmitUnheard, StoreTypes, StoreInv, NewIdInv
  <2>2. /\ UNCHANGED <<bodies, last, taken, failed>> /\ (faults' = faults \/ faults' = faults + 1)
        /\ unheard' = unheard \/ unheard' = unheard \cup {sub.id}
    BY <1>2, Zenon DEF SubmitRow, SubmitUnheard, Fault
  <2>3. /\ rows'[sub.id] # Null /\ rows'[sub.id].rcpts = sub.env.rcpts /\ accepted'[sub.id] = sub.env
        /\ \A j \in RowId \ {sub.id} : rows'[j] = rows[j] /\ accepted'[j] = accepted[j]
    BY <1>0, <2>1, <2>2, RowInserted, Zenon
  <2>4. \A j \in RowId : /\ j = sub.id => Pending(j)' \subseteq Rcpt
                         /\ j # sub.id => Pending(j)' = Pending(j) /\ Pending(j) \subseteq Rcpt
    BY <1>0, <2>1, <2>3, PendingTyped, Zenon DEF Pending, Envelope
  <2>5. \A j \in RowId : \A r \in Pending(j) : DecidedNow(j, r) => DecidedNow(j, r)'
    BY <1>0, <1>2, Zenon DEF SubmitRow, SubmitUnheard, DecidedNow, Active, Untried, job
  <2>6. sub.env # Null
    BY <2>1, NotNull, Zenon
  <2> QED BY <1>0, <2>1, <2>2, <2>3, <2>4, <2>5, <2>6, VerdictKept, Zenon
<1>3. ASSUME NEW d \in Domain, Connect(d) PROVE VerdictInv'
  <2>1. UNCHANGED <<rows, accepted, taken, failed, faults>>
    BY <1>3, Zenon DEF Connect, store, fate
  <2>2. \A i \in RowId : Pending(i)' = Pending(i) /\ Pending(i) \subseteq Rcpt
    BY <1>0, <2>1, PendingTyped, Zenon DEF Pending
  <2>3. w = "deliver" /\ UNCHANGED <<w, cur>> /\ Untried' \cup temp' \cup perm' = Untried \cup temp \cup perm
    BY <1>0, <1>3, ConnectEffect, Zenon
  <2>4. \A i \in RowId : \A r \in Pending(i) : DecidedNow(i, r) => DecidedNow(i, r)'
    BY <2>3, Zenon DEF DecidedNow
  <2> QED BY <1>0, <2>1, <2>2, <2>4, VerdictKept, Zenon
<1>4. CASE Talk \/ TalkAnswerLost
  <2>1. /\ w = "deliver" /\ UNCHANGED <<w, cur>> /\ cur.id \in RowId
        /\ At(conn.dom) \subseteq Untried /\ Untried' = Untried \ At(conn.dom)
    BY <1>0, <1>4, TalkEffect, Zenon
  <2>2. PICK R, S \in SUBSET At(conn.dom) :
           /\ temp' \cup perm' = temp \cup perm \cup R
           /\ \A j \in RowId, r \in Rcpt :
                 taken'[j][r] = taken[j][r] + (IF j = cur.id /\ r \in S THEN 1 ELSE 0)
           /\ (R \cap S = {} /\ faults' = faults) \/ faults' = faults + 1
           /\ R \cup S = At(conn.dom)
    BY <1>0, <1>4, TalkEffect, Zenon
  <2>3. UNCHANGED <<rows, accepted, failed>> /\ \A i \in RowId : Pending(i)' = Pending(i)
    BY <1>4, Zenon DEF Talk, TalkAnswerLost, store, Pending
  <2>4. /\ Pending(cur.id) = cur.row.rcpts /\ Untried \subseteq Pending(cur.id)
        /\ \A i \in RowId : Pending(i) \subseteq Rcpt
    BY <1>0, <2>1, CurPending, PendingTyped, Zenon DEF Active, Untried
  <2>5. faults \in Nat /\ \A i \in RowId, r \in Rcpt : taken[i][r] \in Nat /\ failed[i][r] \in Nat
    BY <1>0, FaultsTyped, Zenon DEF FateTypes
  <2>6. \A r \in S : r \in Rcpt /\ taken[cur.id][r] + failed[cur.id][r] <= faults
    BY <1>0, <2>1, <2>4, Zenon DEF VerdictInv, DecidedNow
  <2>7. OneVerdict'
    <3> SUFFICES ASSUME NEW i \in RowId, NEW r \in Rcpt
                 PROVE  taken'[i][r] + failed'[i][r] <= 1 + faults'
      BY Zenon DEF OneVerdict
    <3>1. CASE i = cur.id /\ r \in S
      BY <2>2, <2>3, <2>5, <2>6, <3>1
    <3>2. CASE ~(i = cur.id /\ r \in S)
      BY <1>0, <2>2, <2>3, <2>5, <3>2 DEF VerdictInv, OneVerdict
    <3> QED BY <3>1, <3>2, Zenon
  <2>8. accepted[cur.id] # Null
    BY <1>0, <2>1, Zenon DEF BatchInv, Active, StoreInv, RowsInv, DueInv, StoreTypes, Ids
  <2>9. ASSUME NEW i \in RowId, NEW r \in Rcpt, accepted'[i] = Null
        PROVE  taken'[i][r] = 0 /\ failed'[i][r] = 0
    BY <1>0, <2>2, <2>3, <2>5, <2>8, <2>9 DEF VerdictInv
  <2>10. ASSUME NEW i \in RowId, NEW r \in Pending(i)
         PROVE  taken'[i][r] + failed'[i][r] <= faults' \/ DecidedNow(i, r)'
    <3>1. r \in Rcpt
      BY <2>4, Zenon
    <3>2. CASE faults' = faults + 1
      <4>1. CASE i = cur.id /\ r \in S
        BY <2>2, <2>3, <2>5, <2>6, <3>1, <3>2, <4>1
      <4>2. CASE ~(i = cur.id /\ r \in S)
        BY <1>0, <2>2, <2>3, <2>5, <3>1, <3>2, <4>2 DEF VerdictInv, OneVerdict
      <4> QED BY <4>1, <4>2, Zenon
    <3>3. CASE i = cur.id /\ r \in S /\ R \cap S = {}
      BY <1>0, <2>1, <2>2, <3>3, Zenon DEF DecidedNow, Active, AttemptInv
    <3>4. CASE ~(i = cur.id /\ r \in S) /\ R \cap S = {} /\ faults' = faults
      <4>1. taken'[i][r] = taken[i][r] /\ failed'[i][r] = failed[i][r]
        BY <2>2, <2>3, <2>5, <3>1, <3>4
      <4>2. DecidedNow(i, r) => DecidedNow(i, r)'
        BY <2>1, <2>2, Zenon DEF DecidedNow
      <4> QED BY <1>0, <3>4, <4>1, <4>2, Zenon DEF VerdictInv
    <3> QED BY <2>2, <3>2, <3>3, <3>4, Zenon
  <2> QED BY <2>3, <2>7, <2>9, <2>10, Zenon DEF VerdictInv
<1>5. CASE Decide
  <2>1. /\ w = "deliver" /\ UNCHANGED <<rows, cur, accepted, taken, faults>>
        /\ temp' = temp \ Bounced /\ w' = AfterDecide(Bounced) /\ todo = {} /\ conn = Null
    BY <1>5, Zenon DEF Decide, store
  <2>2. /\ cur.id \in RowId /\ Pending(cur.id) = cur.row.rcpts /\ cur.row.rcpts \subseteq Rcpt
        /\ \A i \in RowId : Pending(i)' = Pending(i) /\ Pending(i) \subseteq Rcpt
    BY <1>0, <2>1, CurPending, PendingTyped, Zenon DEF Active, Pending
  <2>3. w' \in Active \ {"deliver"}
    <3>1. cur.row.from \in Sender
      BY <1>0, <2>1, CurTyped, Zenon
    <3> QED BY <2>1, <3>1, Zenon DEF AfterDecide, Sender, Active
  <2>4. Bounced \subseteq temp \cup perm /\ temp \cup perm \subseteq cur.row.rcpts
    BY <1>0, <2>1, Zenon DEF Bounced, AttemptInv, BatchInv
  <2>5. faults \in Nat /\ \A i \in RowId, r \in Rcpt : taken[i][r] \in Nat /\ failed[i][r] \in Nat
    BY <1>0, FaultsTyped, Zenon DEF FateTypes
  <2>6. \A i \in RowId, r \in Rcpt :
           failed'[i][r] = failed[i][r] + (IF i = cur.id /\ r \in Bounced THEN 1 ELSE 0)
    BY <1>0, <1>5, <2>2, TallyTyped DEF Decide, FateTypes
  <2>7. \A r \in temp \cup perm : taken[cur.id][r] + failed[cur.id][r] <= faults
    BY <1>0, <2>1, <2>2, <2>4, Zenon DEF VerdictInv, DecidedNow
  <2>8. OneVerdict'
    <3> SUFFICES ASSUME NEW i \in RowId, NEW r \in Rcpt
                 PROVE  taken'[i][r] + failed'[i][r] <= 1 + faults'
      BY Zenon DEF OneVerdict
    <3>1. CASE i = cur.id /\ r \in Bounced
      BY <2>1, <2>4, <2>5, <2>6, <2>7, <3>1
    <3>2. CASE ~(i = cur.id /\ r \in Bounced)
      BY <1>0, <2>1, <2>5, <2>6, <3>2 DEF VerdictInv, OneVerdict
    <3> QED BY <3>1, <3>2, Zenon
  <2>9. accepted[cur.id] # Null
    BY <1>0, <2>1 DEF BatchInv, Active, StoreInv, RowsInv, DueInv, StoreTypes, Ids
  <2>10. ASSUME NEW i \in RowId, NEW r \in Rcpt, accepted'[i] = Null
         PROVE  taken'[i][r] = 0 /\ failed'[i][r] = 0
    BY <1>0, <2>1, <2>5, <2>6, <2>9, <2>10 DEF VerdictInv
  <2>11. ASSUME NEW i \in RowId, NEW r \in Pending(i)
         PROVE  taken'[i][r] + failed'[i][r] <= faults' \/ DecidedNow(i, r)'
    <3>1. CASE i = cur.id /\ r \notin temp'
      BY <2>1, <2>3, <3>1, Zenon DEF DecidedNow, Active
    <3>2. CASE i = cur.id /\ r \in temp'
      BY <2>1, <2>2, <2>5, <2>6, <2>7, <3>2
    <3>3. CASE i # cur.id
      BY <1>0, <2>1, <2>2, <2>5, <2>6, <3>3, SMTT(20) DEF VerdictInv, DecidedNow
    <3> QED BY <3>1, <3>2, <3>3, Zenon
  <2> QED BY <2>2, <2>8, <2>10, <2>11, Zenon DEF VerdictInv
<1>6. CASE BounceLocal \/ BouncePut \/ BounceFails \/ CompleteBody \/ SettleFails \/ Crash
  <2>1. UNCHANGED <<rows, accepted, taken, failed>> /\ (faults' = faults \/ faults' = faults + 1)
    BY <1>0, <1>6, Zenon DEF BounceLocal, BouncePut, BounceFails, CompleteBody, SettleFails, Crash,
       Fault, store, job, fate
  <2>2. \A i \in RowId : Pending(i)' = Pending(i) /\ Pending(i) \subseteq Rcpt
    BY <1>0, <2>1, PendingTyped, Zenon DEF Pending
  <2>3. \A i \in RowId : \A r \in Pending(i) :
           faults' = faults + 1 \/ (DecidedNow(i, r) => DecidedNow(i, r)')
    BY <1>0, <1>6, <2>1, Zenon
       DEF BounceLocal, BouncePut, BounceFails, CompleteBody, SettleFails,
       Crash, Fault, DecidedNow, Active, Untried, AttemptInv,
                         job
  <2> QED BY <1>0, <2>1, <2>2, <2>3, VerdictKept, Zenon
<1>7. CASE BounceRow \/ BounceUnheard
  <2> DEFINE e == [from |-> "null", rcpts |-> {SenderAddr}]
  <2>1. /\ bid \in RowId /\ e \in Envelope /\ InsertRow(bid, e)
        /\ bid \in bodies /\ bid <= last /\ accepted[bid] = Null
    BY <1>0, <1>7, BounceTyped, Zenon DEF BounceRow, BounceUnheard, WorkerTypes, StoreInv, NewIdInv
  <2> HIDE DEF e
  <2>2. /\ UNCHANGED <<bodies, last, taken, failed>> /\ (faults' = faults \/ faults' = faults + 1)
        /\ unheard' = unheard \/ unheard' = unheard \cup {bid}
    BY <1>7, Zenon DEF BounceRow, BounceUnheard, Fault
  <2>3. /\ rows'[bid] # Null /\ rows'[bid].rcpts = e.rcpts /\ accepted'[bid] = e
        /\ \A j \in RowId \ {bid} : rows'[j] = rows[j] /\ accepted'[j] = accepted[j]
    BY <1>0, <2>1, <2>2, RowInserted, Zenon
  <2>4. \A j \in RowId : /\ j = bid => Pending(j)' \subseteq Rcpt
                         /\ j # bid => Pending(j)' = Pending(j) /\ Pending(j) \subseteq Rcpt
    BY <1>0, <2>1, <2>3, PendingTyped, Zenon DEF Pending, Envelope
  <2>5. \A j \in RowId : \A r \in Pending(j) : DecidedNow(j, r) => DecidedNow(j, r)'
    BY <1>0, <1>7, Zenon DEF BounceRow, BounceUnheard, DecidedNow, Active, Untried, job
  <2>6. e # Null
    BY <2>1, NotNull, Zenon
  <2> QED BY <1>0, <2>1, <2>2, <2>3, <2>4, <2>5, <2>6, VerdictKept, Zenon
<1>8. CASE Defer
  <2>1. /\ cur.id \in RowId /\ rows[cur.id] # Null /\ rows'[cur.id] # Null /\ cur.row = rows[cur.id]
        /\ rows'[cur.id].rcpts = temp /\ \A j \in RowId \ {cur.id} : rows'[j] = rows[j]
    BY <1>0, <1>8, RowDeferred, Zenon
  <2>2. UNCHANGED <<accepted, taken, failed, faults>> /\ w = "settle" /\ cur # Null
    BY <1>0, <1>8, Zenon DEF Defer, fate, BatchInv
  <2>3. temp \subseteq cur.row.rcpts /\ \A i \in RowId : Pending(i) \subseteq Rcpt
    BY <1>0, <2>2, PendingTyped, Zenon DEF AttemptInv
  <2>4. \A j \in RowId : Pending(j)' = IF j = cur.id THEN temp ELSE Pending(j)
    BY <2>1, Zenon DEF Pending
  <2>5. temp \subseteq Pending(cur.id)
    BY <2>1, <2>3, Zenon DEF Pending
  <2>6. \A j \in RowId : \A r \in Pending(j)' : ~DecidedNow(j, r)
    BY <2>4, Zenon DEF DecidedNow
  <2> QED BY <1>0, <2>1, <2>2, <2>3, <2>4, <2>5, <2>6, VerdictKept, Zenon
<1>9. CASE CompleteDoc
  <2>1. /\ cur.id \in RowId /\ rows'[cur.id] = Null
        /\ \A j \in RowId \ {cur.id} : rows'[j] = rows[j]
    BY <1>0, <1>9, CurTyped, Zenon DEF CompleteDoc, StoreTypes
  <2>2. UNCHANGED <<accepted, taken, failed, faults>>
    BY <1>9, Zenon DEF CompleteDoc, fate
  <2>3. \A j \in RowId : /\ Pending(j)' = IF j = cur.id THEN {} ELSE Pending(j)
                         /\ Pending(j) \subseteq Rcpt
    BY <1>0, <2>1, PendingTyped DEF Pending
  <2>4. \A j \in RowId : \A r \in Pending(j)' : ~DecidedNow(j, r)
    BY <2>3, Zenon DEF DecidedNow
  <2> QED BY <1>0, <2>2, <2>3, <2>4, VerdictKept, Zenon
<1>10. CASE Elapse
  <2>1. UNCHANGED <<accepted, taken, failed, faults>>
    BY <1>10, Zenon DEF Elapse, fate
  <2>2. \A j \in RowId : Pending(j)' = Pending(j) /\ Pending(j) \subseteq Rcpt
    BY <1>0, <1>10, Elapsed, PendingTyped, Zenon DEF Pending
  <2>3. \A j \in RowId : \A r \in Pending(j) : DecidedNow(j, r) => DecidedNow(j, r)'
    BY <1>10, Zenon DEF Elapse, DecidedNow, Untried, job
  <2> QED BY <1>0, <2>1, <2>2, <2>3, VerdictKept, Zenon
<1>11. ASSUME NEW d \in Domain, Expire(d) PROVE VerdictInv'
  <2>1. UNCHANGED <<rows, accepted, taken, failed>> /\ (faults' = faults \/ faults' = faults + 1)
    BY <1>0, <1>11, Zenon DEF Expire, Fault, store, job, fate
  <2>2. \A i \in RowId : Pending(i)' = Pending(i) /\ Pending(i) \subseteq Rcpt
    BY <1>0, <2>1, PendingTyped, Zenon DEF Pending
  <2>3. \A i \in RowId : \A r \in Pending(i) :
           faults' = faults + 1 \/ (DecidedNow(i, r) => DecidedNow(i, r)')
    BY <1>0, <1>11, <2>1, Zenon DEF Expire, Fault, DecidedNow, Active, Untried, AttemptInv,
                         job
  <2> QED BY <1>0, <2>1, <2>2, <2>3, VerdictKept, Zenon
<1>13. ASSUME NEW k \in RowId, DropUnheard(k) PROVE VerdictInv'
  <2>1. UNCHANGED <<rows, accepted, taken, failed, faults>>
    BY <1>13, Zenon DEF DropUnheard, fate
  <2>2. \A i \in RowId : Pending(i)' = Pending(i) /\ Pending(i) \subseteq Rcpt
    BY <1>0, <2>1, PendingTyped, Zenon DEF Pending
  <2>3. \A i \in RowId : \A r \in Pending(i) : DecidedNow(i, r) => DecidedNow(i, r)'
    BY <1>13, Zenon DEF DropUnheard, DecidedNow, Untried, job
  <2> QED BY <1>0, <2>1, <2>2, <2>3, VerdictKept, Zenon
<1>12. CASE UNCHANGED vars
  BY <1>0, <1>12, Zenon DEF vars, VerdictInv, OneVerdict, Pending, DecidedNow, Untried, store, job,
     fate
<1> QED BY <1>1, <1>2, <1>3, <1>4, <1>5, <1>6, <1>7, <1>8, <1>9, <1>10, <1>11, <1>12, <1>13, Zenon DEF
           Next, Worker, Failure

-----------------------------------------------------------------------------
(* Nobody is forgotten.                                                    *)

\* The row the worker works on was accepted, from the same sender.
LEMMA CurAccepted ==
  ASSUME StoreTypes, WorkerTypes, StoreInv, BatchInv, w \in Active
  PROVE  /\ cur # Null /\ cur.id \in RowId /\ cur.row.rcpts \subseteq Rcpt
         /\ rows[cur.id] # Null /\ rows[cur.id].rcpts = cur.row.rcpts
         /\ accepted[cur.id] # Null /\ accepted[cur.id].from = cur.row.from
         /\ cur.row.from \in Sender
<1>1. cur # Null /\ cur.id \in RowId /\ cur.row.rcpts \subseteq Rcpt /\ cur.row.from \in Sender
  BY CurTyped, Zenon DEF Active, BatchInv
<1>2. rows[cur.id] # Null /\ cur.row = rows[cur.id]
  BY <1>1, Zenon DEF BatchInv, StoreInv, DueInv
<1> QED BY <1>1, <1>2, Zenon DEF StoreInv, RowsInv

\* An accepted envelope is not changed, and what excuses a recipient stays.
ExcusesStay ==
    \A i \in RowId : accepted[i] # Null =>
        /\ accepted'[i] = accepted[i]
        /\ \A r \in Rcpt : Excused(i, r) => Excused(i, r)'

\* What excuses a recipient stays.
LEMMA ExcusesStep == ASSUME IInv, [Next]_vars PROVE ExcusesStay
<1>0. /\ StoreTypes /\ WorkerTypes /\ FateTypes
      /\ StoreInv /\ BatchInv /\ AttemptInv /\ VerdictInv /\ CareInv
  BY TypesSplit, Zenon DEF IInv
<1>1. CASE SubmitBody \/ SubmitFails \/ Poll \/ EndBatch \/ Take \/ TakeUnreadable
  BY <1>1, Zenon DEF SubmitBody, SubmitFails, Poll, EndBatch, Take, TakeUnreadable, ExcusesStay,
     Excused, fate
<1>2. CASE SubmitRow \/ SubmitUnheard
  <2>1. sub.id \in RowId /\ sub.env \in Envelope /\ InsertRow(sub.id, sub.env) /\ accepted[sub.id] = Null
    BY <1>0, <1>2, Zenon DEF SubmitRow, SubmitUnheard, StoreTypes, StoreInv, NewIdInv
  <2>2. \A j \in RowId \ {sub.id} : accepted'[j] = accepted[j]
    BY <1>0, <2>1, Zenon DEF InsertRow, FateTypes
  <2> QED BY <1>2, <2>1, <2>2, Zenon DEF SubmitRow, SubmitUnheard, ExcusesStay, Excused
<1>3. ASSUME NEW d \in Domain, Connect(d) PROVE ExcusesStay
  BY <1>3, Zenon DEF Connect, ExcusesStay, Excused, fate
<1>4. CASE Talk \/ TalkAnswerLost
  <2>1. PICK R, S \in SUBSET At(conn.dom) : \A j \in RowId, r \in Rcpt :
           taken'[j][r] = taken[j][r] + (IF j = cur.id /\ r \in S THEN 1 ELSE 0)
    BY <1>0, <1>4, TalkEffect, Zenon
  <2>2. \A j \in RowId, r \in Rcpt : taken[j][r] \in Nat
    BY <1>0, Zenon DEF FateTypes
  <2>3. \A j \in RowId, r \in Rcpt : taken[j][r] > 0 => taken'[j][r] > 0
    BY <2>1, <2>2
  <2>4. UNCHANGED <<accepted, reported, unreported>>
    BY <1>4, Zenon DEF Talk, TalkAnswerLost
  <2> QED BY <2>3, <2>4, Zenon DEF ExcusesStay, Excused
<1>5. CASE Decide \/ BouncePut \/ BounceFails \/ Defer \/ CompleteDoc \/ CompleteBody
  BY <1>5, Zenon DEF Decide, BouncePut, BounceFails, Defer, CompleteDoc, CompleteBody, ExcusesStay,
     Excused, fate
<1>6. CASE BounceLocal
  BY <1>0, <1>6, Zenon DEF BounceLocal, ExcusesStay, Excused, FateTypes
<1>7. CASE BounceRow \/ BounceUnheard
  <2> DEFINE e == [from |-> "null", rcpts |-> {SenderAddr}]
  <2>1. bid \in RowId /\ InsertRow(bid, e) /\ accepted[bid] = Null
    BY <1>0, <1>7, Zenon DEF BounceRow, BounceUnheard, WorkerTypes, StoreInv, NewIdInv
  <2> HIDE DEF e
  <2>2. \A j \in RowId \ {bid} : accepted'[j] = accepted[j]
    BY <1>0, <2>1, Zenon DEF InsertRow, FateTypes
  <2>3. \A j \in RowId : reported[j] \subseteq reported'[j]
    BY <1>0, <1>7, Zenon DEF BounceRow, BounceUnheard, FateTypes
  <2> QED BY <1>7, <2>1, <2>2, <2>3, Zenon DEF BounceRow, BounceUnheard, ExcusesStay, Excused
<1>8. CASE SettleFails \/ Elapse \/ Crash
  BY <1>8, Zenon DEF SettleFails, Elapse, Crash, ExcusesStay, Excused, fate
<1>9. ASSUME NEW d \in Domain, Expire(d) PROVE ExcusesStay
  BY <1>9, Zenon DEF Expire, ExcusesStay, Excused, fate
<1>11. ASSUME NEW k \in RowId, DropUnheard(k) PROVE ExcusesStay
  BY <1>11, Zenon DEF DropUnheard, ExcusesStay, Excused, fate
<1>10. CASE UNCHANGED vars
  BY <1>0, <1>10, Zenon DEF vars, ExcusesStay, Excused, fate
<1> QED BY <1>1, <1>2, <1>3, <1>4, <1>5, <1>6, <1>7, <1>8, <1>9, <1>10, <1>11, Zenon DEF Next, Worker,
           Failure

\* The worker has every recipient of its row in hand: untried, failed or excused.
LEMMA CareNowStep == ASSUME IInv, [Next]_vars PROVE CareNow'
<1>0. /\ StoreTypes /\ WorkerTypes /\ FateTypes
      /\ StoreInv /\ BatchInv /\ AttemptInv /\ VerdictInv /\ CareInv
  BY TypesSplit, Zenon DEF IInv
<1>a. w \in Active => cur.id \in RowId /\ accepted[cur.id] # Null /\ cur.row.rcpts \subseteq Rcpt
  BY <1>0, CurAccepted, Zenon
<1>b. w \in Active /\ cur' = cur =>
         \A r \in cur.row.rcpts : Excused(cur.id, r) => Excused(cur.id, r)'
  <2>1. ExcusesStay
    BY ExcusesStep, Zenon
  <2> QED BY <1>a, <2>1, Zenon DEF ExcusesStay, Excused
<1>c. CareNow
  BY <1>0, Zenon DEF CareInv
<1>1. CASE SubmitBody \/ SubmitRow \/ SubmitUnheard \/ SubmitFails \/ Elapse
  <2>1. w' = w /\ cur' = cur /\ todo' = todo /\ conn' = conn /\ temp' = temp /\ perm' = perm
    BY <1>1, Zenon DEF SubmitBody, SubmitRow, SubmitUnheard, SubmitFails, Elapse, job
  <2>2. Untried' = Untried
    BY <2>1, Zenon DEF Untried
  <2>3. w = "complete" => cur.id \in unreported'
    BY <1>c, <1>1, Zenon DEF SubmitBody, SubmitRow, SubmitUnheard, SubmitFails, Elapse, fate, CareNow
  <2>4. w \in Active => \A r \in cur.row.rcpts : Excused(cur.id, r) => Excused(cur.id, r)'
    BY <1>a, <1>b, <2>1, Zenon
  <2> QED BY <1>c, <2>1, <2>2, <2>3, <2>4, Zenon DEF CareNow, Active
<1>2. CASE Poll \/ EndBatch \/ Defer \/ CompleteDoc \/ CompleteBody \/ SettleFails
  BY <1>2, Zenon DEF Poll, EndBatch, Defer, CompleteDoc, CompleteBody, SettleFails, CareNow, Return
<1>3. CASE Take
  <2>1. w' = "deliver" /\ todo' = Domains(cur'.row.rcpts)
    BY <1>3, Zenon DEF Take
  <2>2. \A r \in cur'.row.rcpts : DomainOf[r] # Null => r \in Untried'
    BY <2>1, Zenon DEF Domains, Untried
  <2>3. \A r \in cur'.row.rcpts : DomainOf[r] = Null => Excused(cur.id, r)'
    BY Zenon DEF Excused
  <2> QED BY <2>1, <2>2, <2>3, Zenon DEF CareNow
<1>4. CASE TakeUnreadable
  BY <1>4, Zenon DEF TakeUnreadable, CareNow
<1>5. ASSUME NEW d \in Domain, Connect(d) PROVE CareNow'
  <2>1. w = "deliver" /\ UNCHANGED <<w, cur>> /\ Untried' \cup temp' \cup perm' = Untried \cup temp \cup perm
    BY <1>0, <1>5, ConnectEffect, Zenon
  <2>2. \A r \in cur.row.rcpts : Excused(cur.id, r) => Excused(cur.id, r)'
    BY <1>a, <1>b, <2>1, Zenon DEF Active
  <2> QED BY <1>c, <2>1, <2>2, Zenon DEF CareNow
<1>6. CASE Talk \/ TalkAnswerLost
  <2>1. /\ w = "deliver" /\ UNCHANGED <<w, cur>> /\ cur.id \in RowId
        /\ At(conn.dom) \subseteq Untried /\ Untried' = Untried \ At(conn.dom)
    BY <1>0, <1>6, TalkEffect, Zenon
  <2>2. PICK R, S \in SUBSET At(conn.dom) :
           /\ R \cup S = At(conn.dom)
           /\ temp' \cup perm' = temp \cup perm \cup R
           /\ \A j \in RowId, r \in Rcpt :
                 taken'[j][r] = taken[j][r] + (IF j = cur.id /\ r \in S THEN 1 ELSE 0)
    BY <1>0, <1>6, TalkEffect, Zenon
  <2>3. \A r \in cur.row.rcpts : r \in Rcpt /\ (Excused(cur.id, r) => Excused(cur.id, r)')
    BY <1>a, <1>b, <2>1, Zenon DEF Active
  <2>4. \A r \in Rcpt : taken[cur.id][r] \in Nat
    BY <1>0, <2>1 DEF FateTypes
  <2>5. \A r \in cur.row.rcpts : r \in S => taken'[cur.id][r] > 0
    BY <2>1, <2>2, <2>3, <2>4
  <2>6. \A r \in cur.row.rcpts : r \in S => Excused(cur.id, r)'
    BY <2>1, <2>5, Zenon DEF Excused
  <2>7. \A r \in cur.row.rcpts : r \in Untried' \cup temp' \cup perm' \/ Excused(cur.id, r)'
    BY <1>c, <2>1, <2>2, <2>3, <2>6, Zenon DEF CareNow
  <2> QED BY <2>1, <2>7, Zenon DEF CareNow
<1>7. CASE Decide
  <2>1. /\ w = "deliver" /\ UNCHANGED <<cur, accepted>> /\ todo = {} /\ conn = Null
        /\ temp' = temp \ Bounced /\ perm' = Bounced /\ w' = AfterDecide(Bounced)
    BY <1>7, Zenon DEF Decide
  <2>2. Untried = {} /\ perm \subseteq Bounced
    BY <2>1, Zenon DEF Untried, Bounced
  <2>3. /\ \A r \in cur.row.rcpts : Excused(cur.id, r) => Excused(cur.id, r)'
        /\ cur.row.from \in Sender /\ accepted[cur.id].from = cur.row.from
    BY <1>0, <1>a, <1>b, <2>1, CurAccepted, Zenon DEF Active
  <2>4. \A r \in cur.row.rcpts : r \in temp' \cup perm' \/ Excused(cur.id, r)'
    BY <1>c, <2>1, <2>2, <2>3, Zenon DEF CareNow
  <2>5. w' = "settle" => Bounced = {} \/ cur.row.from = "null"
    BY <2>1, <2>3, Zenon DEF AfterDecide, Sender
  <2>6. cur.row.from = "null" => \A r \in cur.row.rcpts : Excused(cur.id, r)'
    BY <2>1, <2>3, Zenon DEF Excused
  <2>7. w' \in {"settle", "bounce", "b_put"}
    BY <2>1, <2>3, Zenon DEF AfterDecide, Sender
  <2> QED BY <2>1, <2>4, <2>5, <2>6, <2>7, Zenon DEF CareNow
<1>8. CASE BounceLocal \/ BounceRow
  <2>1. /\ w \in {"bounce", "b_row"} /\ w' = "settle" /\ UNCHANGED <<cur, temp, perm>>
        /\ reported' = [reported EXCEPT ![cur.id] = @ \cup perm]
    BY <1>8, Zenon DEF BounceLocal, BounceRow, job
  <2>2. cur.id \in RowId /\ \A r \in cur.row.rcpts : Excused(cur.id, r) => Excused(cur.id, r)'
    BY <1>a, <1>b, <2>1, Zenon DEF Active
  <2>3. perm \subseteq reported'[cur.id]
    BY <1>0, <2>1, <2>2, Zenon DEF FateTypes
  <2>4. \A r \in cur.row.rcpts : r \in perm => Excused(cur.id, r)'
    BY <2>1, <2>3, Zenon DEF Excused
  <2>5. \A r \in cur.row.rcpts : r \in temp' \/ Excused(cur.id, r)'
    BY <1>c, <2>1, <2>2, <2>4, Zenon DEF CareNow
  <2> QED BY <2>1, <2>5, Zenon DEF CareNow
<1>9. CASE BouncePut
  <2>1. w = "b_put" /\ w' = "b_row" /\ UNCHANGED <<cur, temp, perm>>
    BY <1>9, Zenon DEF BouncePut
  <2>2. \A r \in cur.row.rcpts : Excused(cur.id, r) => Excused(cur.id, r)'
    BY <1>a, <1>b, <2>1, Zenon DEF Active
  <2>3. \A r \in cur.row.rcpts : r \in temp' \cup perm' \/ Excused(cur.id, r)'
    BY <1>c, <2>1, <2>2, Zenon DEF CareNow
  <2> QED BY <2>1, <2>3, Zenon DEF CareNow
<1>10. CASE BounceFails \/ BounceUnheard
  <2>1. w' = "settle" /\ cur' = cur /\ cur.id \in unreported'
    BY <1>10, Zenon DEF BounceFails, BounceUnheard
  <2> QED BY <2>1, Zenon DEF CareNow, Excused
<1>11. ASSUME NEW d \in Domain, Expire(d) PROVE CareNow'
  <2>1. w' = w /\ cur' = cur /\ todo' = todo /\ conn' = conn /\ temp' = temp /\ perm' = perm
    BY <1>11, Zenon DEF Expire, job
  <2>2. Untried' = Untried
    BY <2>1, Zenon DEF Untried
  <2>3. w = "complete" => cur.id \in unreported'
    BY <1>c, <1>11, Zenon DEF Expire, fate, CareNow
  <2>4. w \in Active => \A r \in cur.row.rcpts : Excused(cur.id, r) => Excused(cur.id, r)'
    BY <1>a, <1>b, <2>1, Zenon
  <2> QED BY <1>c, <2>1, <2>2, <2>3, <2>4, Zenon DEF CareNow, Active
<1>12. CASE Crash
  BY <1>12, Zenon DEF Crash, CareNow, Return
<1>14. ASSUME NEW k \in RowId, DropUnheard(k) PROVE CareNow'
  BY <1>14, <1>c, Zenon DEF DropUnheard, CareNow, Excused, Untried, job, fate
<1>13. CASE UNCHANGED vars
  BY <1>0, <1>13, <1>c, Zenon DEF vars, CareNow, Excused, Untried, job, fate
<1> QED BY <1>1, <1>2, <1>3, <1>4, <1>5, <1>6, <1>7, <1>8, <1>9, <1>10, <1>11, <1>12, <1>13, <1>14,
           Zenon
           DEF Next, Worker, Failure

-----------------------------------------------------------------------------
(* What a step does to the recipients that are pending.                    *)

\* Nobody is added and nobody leaves; only the pending are taken.
Untouched ==
    /\ accepted' = accepted
    /\ \A i \in RowId : /\ Pending(i)' = Pending(i)
                        /\ \A r \in Rcpt \ Pending(i) : taken'[i][r] = taken[i][r]

\* Row i is inserted.
Inserted(i) ==
    /\ accepted[i] = Null /\ accepted'[i] \in Envelope /\ Pending(i)' = accepted'[i].rcpts
    /\ \A j \in RowId \ {i} : accepted'[j] = accepted[j] /\ Pending(j)' = Pending(j)
    /\ taken' = taken

\* Recipients leave row i.
Settled(i) ==
    /\ accepted[i] # Null /\ accepted' = accepted /\ taken' = taken
    /\ Pending(i)' \subseteq Pending(i)
    /\ \A r \in Pending(i) \ Pending(i)' : Excused(i, r)
    /\ \A j \in RowId \ {i} : Pending(j)' = Pending(j)

\* Every step is of one of these kinds.
LEMMA PendingStep == ASSUME IInv, [Next]_vars PROVE Untouched \/ \E i \in RowId : Inserted(i) \/ Settled(i)
<1>0. /\ StoreTypes /\ WorkerTypes /\ FateTypes
      /\ StoreInv /\ BatchInv /\ AttemptInv /\ VerdictInv /\ CareInv
  BY TypesSplit, Zenon DEF IInv
<1>1. CASE SubmitBody \/ SubmitFails \/ Poll \/ EndBatch \/ Take \/ TakeUnreadable
  BY <1>1, Zenon DEF SubmitBody, SubmitFails, Poll, EndBatch, Take, TakeUnreadable, Untouched,
     Pending, store, fate
<1>2. CASE SubmitRow \/ SubmitUnheard
  <2> SUFFICES ASSUME NEW i \in RowId, NEW e \in Envelope, i = sub.id, e = sub.env
               PROVE  \E j \in RowId : Inserted(j)
    BY <1>0, <1>2, Zenon DEF SubmitRow, SubmitUnheard, StoreTypes
  <2>1. /\ InsertRow(i, e) /\ i \in bodies /\ i <= last /\ accepted[i] = Null
        /\ UNCHANGED <<bodies, last, taken>> /\ (unheard' = unheard \/ unheard' = unheard \cup {i})
    BY <1>0, <1>2, Zenon DEF SubmitRow, SubmitUnheard, StoreInv, NewIdInv
  <2>2. /\ rows'[i] # Null /\ rows'[i].rcpts = e.rcpts /\ accepted'[i] = e
        /\ \A j \in RowId \ {i} : rows'[j] = rows[j] /\ accepted'[j] = accepted[j]
    BY <1>0, <2>1, RowInserted, Zenon
  <2>3. Pending(i)' = e.rcpts /\ \A j \in RowId \ {i} : Pending(j)' = Pending(j)
    BY <2>2, Zenon DEF Pending
  <2>4. Inserted(i)
    BY <2>1, <2>2, <2>3, Zenon DEF Inserted
  <2> QED BY <2>4, Zenon
<1>3. ASSUME NEW d \in Domain, Connect(d) PROVE Untouched \/ \E i \in RowId : Inserted(i) \/ Settled(i)
  BY <1>3, Zenon DEF Connect, Untouched, Pending, store, fate
<1>4. CASE Talk \/ TalkAnswerLost
  <2>1. w = "deliver" /\ cur.id \in RowId /\ At(conn.dom) \subseteq Untried
    BY <1>0, <1>4, TalkEffect, Zenon
  <2>2. PICK R, S \in SUBSET At(conn.dom) : \A j \in RowId, r \in Rcpt :
           taken'[j][r] = taken[j][r] + (IF j = cur.id /\ r \in S THEN 1 ELSE 0)
    BY <1>0, <1>4, TalkEffect, Zenon
  <2>3. UNCHANGED <<rows, accepted>>
    BY <1>4, Zenon DEF Talk, TalkAnswerLost, store
  <2>4. Untried \subseteq Pending(cur.id)
    BY <1>0, <2>1, CurPending, Zenon DEF Active, Untried
  <2>5. \A j \in RowId, r \in Rcpt : taken[j][r] \in Nat
    BY <1>0, Zenon DEF FateTypes
  <2>6. \A j \in RowId : \A r \in Rcpt \ Pending(j) : taken'[j][r] = taken[j][r]
    BY <2>1, <2>2, <2>4, <2>5
  <2>7. \A j \in RowId : Pending(j)' = Pending(j)
    BY <2>3, Zenon DEF Pending
  <2> QED BY <2>3, <2>6, <2>7, Zenon DEF Untouched
<1>5. CASE Decide \/ BounceLocal \/ BouncePut \/ BounceFails \/ CompleteBody \/ SettleFails
  BY <1>5, Zenon DEF Decide, BounceLocal, BouncePut, BounceFails, CompleteBody, SettleFails,
     Untouched, Pending, store, fate
<1>6. CASE BounceRow \/ BounceUnheard
  <2> SUFFICES ASSUME NEW i \in RowId, NEW e \in Envelope, i = bid, e = [from |-> "null", rcpts |-> {SenderAddr}]
               PROVE  \E j \in RowId : Inserted(j)
    BY <1>0, <1>6, BounceTyped, Zenon DEF BounceRow, BounceUnheard, WorkerTypes, StoreInv, NewIdInv
  <2>1. /\ InsertRow(i, e) /\ i \in bodies /\ i <= last /\ accepted[i] = Null
        /\ UNCHANGED <<bodies, last, taken>> /\ (unheard' = unheard \/ unheard' = unheard \cup {i})
    BY <1>0, <1>6, Zenon DEF BounceRow, BounceUnheard, StoreInv, NewIdInv
  <2>2. /\ rows'[i] # Null /\ rows'[i].rcpts = e.rcpts /\ accepted'[i] = e
        /\ \A j \in RowId \ {i} : rows'[j] = rows[j] /\ accepted'[j] = accepted[j]
    BY <1>0, <2>1, RowInserted, Zenon
  <2>3. Pending(i)' = e.rcpts /\ \A j \in RowId \ {i} : Pending(j)' = Pending(j)
    BY <2>2, Zenon DEF Pending
  <2>4. Inserted(i)
    BY <2>1, <2>2, <2>3, Zenon DEF Inserted
  <2> QED BY <2>4, Zenon
<1>7. CASE Defer
  <2>1. /\ cur.id \in RowId /\ cur.row = rows[cur.id] /\ rows[cur.id] # Null
        /\ rows'[cur.id] # Null /\ rows'[cur.id].rcpts = temp
        /\ \A j \in RowId \ {cur.id} : rows'[j] = rows[j]
    BY <1>0, <1>7, RowDeferred, Zenon
  <2>2. PICK i \in RowId : i = cur.id
    BY <2>1, Zenon
  <2>3. UNCHANGED <<accepted, taken>> /\ w = "settle"
    BY <1>7, Zenon DEF Defer, fate
  <2>4. /\ Pending(i) = cur.row.rcpts /\ Pending(i)' = temp
        /\ \A j \in RowId \ {i} : Pending(j)' = Pending(j)
    BY <2>1, <2>2, Zenon DEF Pending
  <2>5. accepted[i] # Null /\ temp \subseteq cur.row.rcpts
    BY <1>0, <2>2, <2>3, CurAccepted, Zenon DEF Active, AttemptInv
  <2>6. \A r \in cur.row.rcpts : r \in temp \/ Excused(i, r)
    BY <1>0, <2>2, <2>3, Zenon DEF CareInv, CareNow
  <2>7. Settled(i)
    BY <2>3, <2>4, <2>5, <2>6, Zenon DEF Settled
  <2> QED BY <2>7, Zenon
<1>8. CASE CompleteDoc
  <2>1. w \in Active /\ (w = "complete" \/ (w = "settle" /\ temp = {})) /\ UNCHANGED <<accepted, taken>>
    BY <1>8, Zenon DEF CompleteDoc, Active, fate
  <2>2. PICK i \in RowId : /\ i = cur.id /\ accepted[i] # Null
                           /\ rows[i] # Null /\ rows[i].rcpts = cur.row.rcpts
    BY <1>0, <2>1, CurAccepted, Zenon
  <2>3. rows'[i] = Null /\ \A j \in RowId \ {i} : rows'[j] = rows[j]
    BY <1>0, <1>8, <2>2, Zenon DEF CompleteDoc, StoreTypes
  <2>4. /\ Pending(i) = cur.row.rcpts /\ Pending(i)' = {}
        /\ \A j \in RowId \ {i} : Pending(j)' = Pending(j)
    BY <2>2, <2>3, Zenon DEF Pending
  <2>5. \A r \in cur.row.rcpts : Excused(i, r)
    BY <1>0, <2>1, <2>2, Zenon DEF CareInv, CareNow, Excused
  <2>6. Settled(i)
    BY <2>1, <2>2, <2>4, <2>5, Zenon DEF Settled
  <2> QED BY <2>6, Zenon
<1>9. CASE Elapse
  BY <1>0, <1>9, Elapsed, Zenon DEF Elapse, Untouched, Pending, fate
<1>10. ASSUME NEW d \in Domain, Expire(d) PROVE Untouched \/ \E i \in RowId : Inserted(i) \/ Settled(i)
  BY <1>10, Zenon DEF Expire, Untouched, Pending, store, fate
<1>11. CASE Crash
  BY <1>11, Zenon DEF Crash, Untouched, Pending, store, fate
<1>13. ASSUME NEW k \in RowId, DropUnheard(k)
       PROVE  Untouched \/ \E i \in RowId : Inserted(i) \/ Settled(i)
  BY <1>13, Zenon DEF DropUnheard, Untouched, Pending, fate
<1>12. CASE UNCHANGED vars
  BY <1>0, <1>12, Zenon DEF vars, Untouched, Pending, store, fate
<1> QED BY <1>1, <1>2, <1>3, <1>4, <1>5, <1>6, <1>7, <1>8, <1>9, <1>10, <1>11, <1>12, <1>13, Zenon DEF
           Next, Worker, Failure

\* Nobody is forgotten by any of them.
LEMMA NobodyForgottenStep == ASSUME IInv, [Next]_vars PROVE NobodyForgotten'
<1>1. /\ ExcusesStay /\ (Untouched \/ \E i \in RowId : Inserted(i) \/ Settled(i))
  BY ExcusesStep, PendingStep, Zenon
<1>2. \A i \in RowId : accepted[i] # Null =>
         accepted[i].rcpts \subseteq Rcpt /\ \A r \in accepted[i].rcpts \ Pending(i) : Excused(i, r)
  <2>1. FateTypes /\ NobodyForgotten
    BY TypesSplit, Zenon DEF IInv, CareInv
  <2>2. \A i \in RowId : accepted[i] # Null => accepted[i].rcpts \subseteq Rcpt
    BY <2>1, Zenon DEF FateTypes, Envelope
  <2> QED BY <2>1, <2>2, Zenon DEF NobodyForgotten, Excused
<1>3. ASSUME NEW i \in RowId, accepted'[i] # Null, NEW r \in accepted'[i].rcpts \ Pending(i)'
      PROVE  Excused(i, r)'
  <2>1. CASE Untouched
    BY <1>1, <1>2, <1>3, <2>1, Zenon DEF Untouched, ExcusesStay
  <2>2. ASSUME NEW k \in RowId, Inserted(k) PROVE Excused(i, r)'
    <3>1. i # k /\ accepted'[i] = accepted[i] /\ Pending(i)' = Pending(i)
      BY <1>3, <2>2, Zenon DEF Inserted
    <3> QED BY <1>1, <1>2, <1>3, <3>1, Zenon DEF ExcusesStay
  <2>3. ASSUME NEW k \in RowId, Settled(k) PROVE Excused(i, r)'
    <3>1. accepted' = accepted /\ (r \notin Pending(i) \/ Excused(i, r))
      BY <1>3, <2>3, Zenon DEF Settled
    <3> QED BY <1>1, <1>2, <1>3, <3>1, Zenon DEF ExcusesStay
  <2> QED BY <1>1, <2>1, <2>2, <2>3, Zenon
<1> QED BY <1>3, Zenon DEF NobodyForgotten, Excused

-----------------------------------------------------------------------------
(* The invariant holds.                                                    *)

\* The server starts with an empty queue and an idle worker.
LEMMA InitIInv == Init => IInv
<1> SUFFICES ASSUME Init PROVE IInv
  BY Zenon
<1>1. /\ \A i \in RowId : rows[i] = Null /\ accepted[i] = Null
      /\ unheard = {}
      /\ due = <<>> /\ batch = <<>> /\ cur = Null /\ w = "idle" /\ sub = Null /\ bid = Null
      /\ todo = {} /\ conn = Null /\ faults = 0
      /\ \A i \in RowId, r \in Rcpt : taken[i][r] = 0 /\ failed[i][r] = 0
  BY Zenon DEF Init
<1>2. StoreTypes
  BY QueueAssumption DEF Init, StoreTypes
<1>3. WorkerTypes
  BY DEF Init, WorkerTypes
<1>4. FateTypes
  BY QueueAssumption DEF Init, FateTypes
<1>5. StoreInv
  BY <1>1 DEF StoreInv, RowsInv, DueInv, NewIdInv, Ids
<1>6. BatchInv
  BY <1>1 DEF BatchInv, Active
<1>7. AttemptInv
  BY <1>1, Zenon DEF AttemptInv
<1>8. VerdictInv
  BY <1>1 DEF VerdictInv, OneVerdict, Pending
<1>9. CareInv
  BY <1>1, Zenon DEF CareInv, CareNow, NobodyForgotten
<1> QED BY <1>2, <1>3, <1>4, <1>5, <1>6, <1>7, <1>8, <1>9, TypesSplit, Zenon DEF IInv

\* Every step of the worker, of a submission and of time keeps it.
LEMMA NextIInv == IInv /\ [Next]_vars => IInv'
<1> SUFFICES ASSUME IInv, [Next]_vars PROVE IInv'
  BY Zenon
<1>1. StoreTypes' /\ WorkerTypes' /\ FateTypes'
  BY StoreTypesStep, WorkerTypesStep, FateTypesStep, Zenon
<1>2. StoreInv' /\ BatchInv' /\ AttemptInv' /\ VerdictInv'
  BY StoreInvStep, BatchInvStep, AttemptInvStep, VerdictInvStep, Zenon
<1>3. CareInv'
  BY NobodyForgottenStep, CareNowStep, Zenon DEF CareInv
<1> QED BY <1>1, <1>2, <1>3, TypesSplitNext, Zenon DEF IInv

\* The inductive invariant holds in every state of the queue.
THEOREM Invariance == Spec => []IInv
BY InitIInv, NextIInv, PTL DEF Spec

\* Every variable of the queue and of its worker keeps its type.
THEOREM TypeCorrect == Spec => []TypeOK
<1>1. IInv => TypeOK
  BY Zenon DEF IInv
<1> QED BY <1>1, Invariance, PTL

\* Wherever Enqueue, CompleteOutbound or the server stops, a row in
\* outbound_queue has its body.
THEOREM RowsHaveBodies == Spec => []RowHasBody
<1>1. IInv => RowHasBody
  BY Zenon DEF IInv, StoreInv, RowsInv, RowHasBody
<1> QED BY <1>1, Invariance, PTL

\* deliver gives a recipient one verdict, and one more for each failure at most.
THEOREM VerdictOnce == Spec => []OneVerdict
<1>1. IInv => OneVerdict
  BY Zenon DEF IInv, VerdictInv
<1> QED BY <1>1, Invariance, PTL

\* No recipient leaves the queue without a delivery, a bounce, or one of the
\* reasons for which bounce tells nobody.
THEOREM NoRecipientLost == Spec => []NobodyForgotten
<1>1. IInv => NobodyForgotten
  BY Zenon DEF IInv, CareInv
<1> QED BY <1>1, Invariance, PTL

-----------------------------------------------------------------------------
(* Bounces.                                                                *)

\* A bounce goes to a remote sender and has itself none.
OriginInv ==
    /\ \A i \in RowId : origin[i] # Null =>
          /\ i <= last
          /\ accepted[origin[i]] # Null /\ accepted[origin[i]].from = "remote"
          /\ accepted[i] # Null => accepted[i].from = "null"
    /\ sub # Null => origin[sub.id] = Null

\* Only a recipient that was tried fails, and is then retried or given up, not both.
FailedInv ==
    /\ \A r \in temp \cup perm : DomainOf[r] # Null
    /\ w # "deliver" => temp \cap perm = {}
    /\ w \in {"b_put", "b_row"} => cur.row.from = "remote" /\ perm # {}

\* Row k still names the recipients that the attempt has given up.
Bouncing(k) == w \in {"b_row", "settle"} /\ cur.id = k /\ perm # {}

\* A bounce costs the row a recipient, or a failure.
CostInv ==
    \A k \in RowId : accepted[k] # Null =>
        Cardinality(Bounces(k)) + Cardinality(Deliverable(Pending(k)))
            <= Cardinality(Deliverable(accepted[k].rcpts)) + faults
               + (IF Bouncing(k) THEN 1 ELSE 0)

BounceInv == OriginInv /\ FailedInv /\ CostInv

\* The history that OriginInv is about grows with the submissions and the bounces.
LEMMA OriginInvStep == ASSUME IInv, BounceInv, [Next]_vars PROVE OriginInv'
<1>0. /\ StoreTypes /\ WorkerTypes /\ FateTypes /\ StoreInv /\ BatchInv /\ AttemptInv
      /\ OriginInv /\ FailedInv /\ ExcusesStay
  BY TypesSplit, ExcusesStep, Zenon DEF IInv, BounceInv
<1>a. UNCHANGED <<accepted, origin, last>> /\ (sub' = sub \/ sub' = Null) => OriginInv'
  BY <1>0, Zenon DEF OriginInv
<1>1. CASE SubmitBody
  <2>1. PICK e \in Envelopes : sub' = [id |-> last + 1, env |-> e]
    BY <1>1, Zenon DEF SubmitBody
  <2>2. last' = last + 1 /\ UNCHANGED <<accepted, origin>> /\ sub'.id = last + 1
    BY <1>1, <2>1, Zenon DEF SubmitBody, PutRaw, fate
  <2>3. last \in Nat /\ last + 1 \in RowId /\ \A i \in RowId : i \in Nat /\ (i <= last => i <= last + 1)
    BY <1>0, <1>1, NextIdTyped DEF SubmitBody, StoreTypes, RowId
  <2>4. origin[last + 1] = Null
    BY <1>0, <2>3 DEF OriginInv
  <2> QED BY <1>0, <2>2, <2>3, <2>4, Zenon DEF OriginInv
<1>2. CASE SubmitRow \/ SubmitUnheard
  <2>1. /\ sub.id \in RowId /\ origin[sub.id] = Null /\ InsertRow(sub.id, sub.env)
        /\ UNCHANGED <<origin, last>> /\ sub' = Null
    BY <1>0, <1>2, Zenon DEF SubmitRow, SubmitUnheard, StoreTypes, OriginInv
  <2>2. \A j \in RowId \ {sub.id} : accepted'[j] = accepted[j]
    BY <1>0, <2>1, Zenon DEF InsertRow, FateTypes
  <2>3. ASSUME NEW i \in RowId, origin[i] # Null
        PROVE  /\ i <= last /\ accepted'[origin[i]] # Null /\ accepted'[origin[i]].from = "remote"
               /\ accepted'[i] # Null => accepted'[i].from = "null"
    <3>1. /\ i <= last /\ accepted[origin[i]] # Null /\ accepted[origin[i]].from = "remote"
          /\ accepted[i] # Null => accepted[i].from = "null"
      BY <1>0, <2>3, Zenon DEF OriginInv
    <3>2. origin[i] \in RowId /\ i # sub.id
      BY <1>0, <2>1, <2>3, Zenon DEF FateTypes
    <3>3. accepted'[origin[i]] = accepted[origin[i]]
      BY <1>0, <3>1, <3>2, Zenon DEF ExcusesStay
    <3> QED BY <2>2, <3>1, <3>2, <3>3, Zenon
  <2> QED BY <2>1, <2>3, Zenon DEF OriginInv
<1>3. CASE BouncePut
  <2>1. /\ last' = last + 1 /\ UNCHANGED <<accepted, sub>> /\ w = "b_put"
        /\ origin' = [origin EXCEPT ![last + 1] = cur.id]
    BY <1>3, Zenon DEF BouncePut, PutRaw
  <2>2. last \in Nat /\ last + 1 \in RowId /\ \A i \in RowId : i \in Nat /\ (i <= last => i <= last + 1)
    BY <1>0, <1>3, NextIdTyped DEF BouncePut, StoreTypes, RowId
  <2>3. accepted[cur.id] # Null /\ accepted[cur.id].from = "remote"
    BY <1>0, <2>1, CurAccepted, Zenon DEF Active, FailedInv
  <2>4. accepted[last + 1] = Null /\ last + 1 <= last + 1
    BY <1>0, <2>2 DEF StoreInv, RowsInv
  <2>5. sub # Null => sub.id \in RowId /\ sub.id # last + 1
    BY <1>0, <2>2 DEF StoreTypes, StoreInv, NewIdInv
  <2>6. \A i \in RowId : origin'[i] = IF i = last + 1 THEN cur.id ELSE origin[i]
    BY <1>0, <2>1, Zenon DEF FateTypes
  <2>7. ASSUME NEW i \in RowId, origin'[i] # Null
        PROVE  /\ i <= last + 1
               /\ accepted[origin'[i]] # Null /\ accepted[origin'[i]].from = "remote"
               /\ accepted[i] # Null => accepted[i].from = "null"
    <3>1. CASE i = last + 1
      BY <2>3, <2>4, <2>6, <3>1, Zenon
    <3>2. CASE i # last + 1
      BY <1>0, <2>2, <2>6, <2>7, <3>2, Zenon DEF OriginInv
    <3> QED BY <3>1, <3>2, Zenon
  <2>8. sub # Null => origin'[sub.id] = Null
    BY <1>0, <2>5, <2>6, Zenon DEF OriginInv
  <2> QED BY <2>1, <2>7, <2>8, Zenon DEF OriginInv
<1>4. CASE BounceRow \/ BounceUnheard
  <2> DEFINE e == [from |-> "null", rcpts |-> {SenderAddr}]
  <2>1. bid \in RowId /\ InsertRow(bid, e) /\ UNCHANGED <<origin, last, sub>>
    BY <1>0, <1>4, Zenon DEF BounceRow, BounceUnheard, WorkerTypes, StoreInv, NewIdInv
  <2>2. e.from = "null"
    BY Zenon
  <2> HIDE DEF e
  <2>3. accepted'[bid] = e /\ \A j \in RowId \ {bid} : accepted'[j] = accepted[j]
    BY <1>0, <2>1, Zenon DEF InsertRow, FateTypes
  <2>4. ASSUME NEW i \in RowId, origin[i] # Null
        PROVE  /\ i <= last /\ accepted'[origin[i]] # Null /\ accepted'[origin[i]].from = "remote"
               /\ accepted'[i] # Null => accepted'[i].from = "null"
    <3>1. /\ i <= last /\ accepted[origin[i]] # Null /\ accepted[origin[i]].from = "remote"
          /\ accepted[i] # Null => accepted[i].from = "null"
      BY <1>0, <2>4, Zenon DEF OriginInv
    <3>2. origin[i] \in RowId
      BY <1>0, <2>4, Zenon DEF FateTypes
    <3>3. accepted'[origin[i]] = accepted[origin[i]]
      BY <1>0, <3>1, <3>2, Zenon DEF ExcusesStay
    <3> QED BY <2>2, <2>3, <3>1, <3>3, Zenon
  <2> QED BY <1>0, <2>1, <2>4, Zenon DEF OriginInv
<1>5. CASE SubmitFails \/ Poll \/ EndBatch \/ Take \/ TakeUnreadable
  BY <1>a, <1>5, Zenon DEF SubmitFails, Poll, EndBatch, Take, TakeUnreadable, store, fate
<1>6. ASSUME NEW d \in Domain, Connect(d) PROVE OriginInv'
  BY <1>a, <1>6, Zenon DEF Connect, store, fate
<1>7. CASE Talk \/ TalkAnswerLost \/ Decide \/ BounceLocal \/ BounceFails
  BY <1>a, <1>7, Zenon DEF Talk, TalkAnswerLost, Decide, BounceLocal, BounceFails, store
<1>8. CASE Defer \/ CompleteDoc \/ CompleteBody \/ SettleFails \/ Elapse \/ Crash
  BY <1>a, <1>8, Zenon DEF Defer, CompleteDoc, CompleteBody, SettleFails, Elapse, Crash, store, fate
<1>9. ASSUME NEW d \in Domain, Expire(d) PROVE OriginInv'
  BY <1>a, <1>9, Zenon DEF Expire, store, fate
<1>10. ASSUME NEW i \in RowId, DropUnheard(i) PROVE OriginInv'
  BY <1>a, <1>10, Zenon DEF DropUnheard, fate
<1>11. CASE UNCHANGED vars
  BY <1>a, <1>11, Zenon DEF vars, store, fate
<1> QED BY <1>1, <1>2, <1>3, <1>4, <1>5, <1>6, <1>7, <1>8, <1>9, <1>10, <1>11, Zenon DEF Next,
           Worker, Failure

\* Those who fail were tried, so they have a domain; Decide divides them.
LEMMA FailedInvStep == ASSUME IInv, BounceInv, [Next]_vars PROVE FailedInv'
<1>0. /\ StoreTypes /\ WorkerTypes /\ FateTypes /\ StoreInv /\ BatchInv /\ AttemptInv
      /\ OriginInv /\ FailedInv
  BY TypesSplit, Zenon DEF IInv, BounceInv
<1>a. \A r \in Untried : DomainOf[r] # Null
  <2>1. Null \notin Domain
    BY QueueAssumption, Zenon
  <2> QED BY <1>0, <2>1, Zenon DEF Untried, WorkerTypes, Conn
<1>1. CASE SubmitBody \/ SubmitRow \/ SubmitUnheard \/ SubmitFails \/ Elapse
  BY <1>0, <1>1, Zenon DEF SubmitBody, SubmitRow, SubmitUnheard, SubmitFails, Elapse, FailedInv, job
<1>2. CASE Poll \/ EndBatch \/ Take \/ TakeUnreadable
  BY <1>0, <1>2, Zenon DEF Poll, EndBatch, Take, TakeUnreadable, FailedInv, job
<1>3. ASSUME NEW d \in Domain, Connect(d) PROVE FailedInv'
  <2>1. w = "deliver" /\ w' = w /\ Untried' \cup temp' \cup perm' = Untried \cup temp \cup perm
    BY <1>0, <1>3, ConnectEffect, Zenon
  <2> QED BY <1>0, <1>a, <2>1, Zenon DEF FailedInv
<1>4. CASE Talk \/ TalkAnswerLost
  <2>1. w = "deliver" /\ w' = w /\ At(conn.dom) \subseteq Untried
    BY <1>0, <1>4, TalkEffect, Zenon
  <2>2. \E R \in SUBSET At(conn.dom) : temp' \cup perm' = temp \cup perm \cup R
    BY <1>0, <1>4, TalkEffect, Zenon
  <2> QED BY <1>0, <1>a, <2>1, <2>2, Zenon DEF FailedInv
<1>5. CASE Decide
  <2>1. perm' = Bounced /\ temp' = temp \ Bounced /\ cur' = cur /\ w' = AfterDecide(Bounced)
    BY <1>5, Zenon DEF Decide
  <2>2. Bounced \subseteq temp \cup perm
    BY Zenon DEF Bounced
  <2>3. cur.row.from \in Sender
    BY <1>0, <1>5, CurTyped, Zenon DEF Decide
  <2>4. /\ AfterDecide(Bounced) = "b_put" => cur.row.from = "remote" /\ Bounced # {}
        /\ AfterDecide(Bounced) # "b_row"
    BY <2>3, Zenon DEF AfterDecide, Sender
  <2> QED BY <1>0, <2>1, <2>2, <2>4, Zenon DEF FailedInv
<1>6. CASE BounceLocal \/ BouncePut \/ BounceRow \/ BounceUnheard \/ BounceFails \/ CompleteDoc
  BY <1>0, <1>6, Zenon DEF BounceLocal, BouncePut, BounceRow, BounceUnheard, BounceFails,
     CompleteDoc, FailedInv, job
<1>7. CASE Defer \/ CompleteBody \/ SettleFails \/ Crash
  BY <1>7, Zenon DEF Defer, CompleteBody, SettleFails, Crash, Return, FailedInv
<1>8. ASSUME NEW d \in Domain, Expire(d) PROVE FailedInv'
  BY <1>0, <1>8, Zenon DEF Expire, FailedInv, job
<1>9. ASSUME NEW i \in RowId, DropUnheard(i) PROVE FailedInv'
  BY <1>0, <1>9, Zenon DEF DropUnheard, FailedInv, job
<1>10. CASE UNCHANGED vars
  BY <1>0, <1>10, Zenon DEF vars, FailedInv, job
<1> QED BY <1>1, <1>2, <1>3, <1>4, <1>5, <1>6, <1>7, <1>8, <1>9, <1>10, Zenon DEF Next, Worker,
           Failure

\* Only BouncePut makes a bounce; a row stops naming who was given up when deliver
\* settles it, or by a failure.
LEMMA BouncingStep ==
  ASSUME IInv, [Next]_vars
  PROVE  /\ faults' = faults \/ faults' = faults + 1
         /\ \/ Defer \/ CompleteDoc \/ BouncePut
            \/ /\ origin' = origin
               /\ \A k \in RowId : Bouncing(k) => Bouncing(k)' \/ faults' = faults + 1
<1>0. AttemptInv
  BY Zenon DEF IInv
<1> DEFINE Kept == /\ origin' = origin
                   /\ \A k \in RowId : Bouncing(k) => Bouncing(k)' \/ faults' = faults + 1
<1>1. CASE SubmitBody \/ SubmitRow \/ SubmitUnheard \/ SubmitFails \/ Elapse
  BY <1>1, Zenon DEF SubmitBody, SubmitRow, SubmitUnheard, SubmitFails, Elapse, Fault, Bouncing, job, fate
<1>2. CASE Poll \/ EndBatch \/ Take \/ TakeUnreadable
  BY <1>2, Zenon DEF Poll, EndBatch, Take, TakeUnreadable, Fault, Bouncing, fate
<1>3. ASSUME NEW d \in Domain, Connect(d) PROVE faults' = faults /\ Kept
  BY <1>3, Zenon DEF Connect, Bouncing, fate
<1>4. CASE Talk \/ TalkAnswerLost
  BY <1>0, <1>4, Zenon DEF Talk, TalkAnswerLost, Fault, Bouncing, AttemptInv
<1>5. CASE Decide \/ BounceLocal \/ BounceRow
  BY <1>5, Zenon DEF Decide, BounceLocal, BounceRow, Bouncing
<1>6. CASE BouncePut \/ Defer \/ CompleteDoc
  BY <1>6, Zenon DEF BouncePut, Defer, CompleteDoc
<1>7. CASE CompleteBody \/ BounceFails \/ BounceUnheard \/ SettleFails \/ Crash
  BY <1>7, Zenon DEF CompleteBody, BounceFails, BounceUnheard, SettleFails, Crash, Fault, Bouncing, fate
<1>8. ASSUME NEW d \in Domain, Expire(d) PROVE faults' = faults /\ Kept
  BY <1>8, Zenon DEF Expire, Bouncing, job, fate
<1>9. ASSUME NEW i \in RowId, DropUnheard(i) PROVE faults' = faults /\ Kept
  BY <1>9, Zenon DEF DropUnheard, Bouncing, job, fate
<1>10. CASE UNCHANGED vars
  BY <1>10, Zenon DEF vars, Bouncing, job, fate
<1> QED BY <1>1, <1>2, <1>3, <1>4, <1>5, <1>6, <1>7, <1>8, <1>9, <1>10, Zenon DEF Next, Worker,
           Failure

\* There are finitely many recipients and bounces to count.
LEMMA Counted ==
  /\ \A R \in SUBSET Rcpt : IsFiniteSet(Deliverable(R)) /\ Cardinality(Deliverable(R)) \in Nat
  /\ \A Q, R \in SUBSET Rcpt : Q \subseteq R => Cardinality(Deliverable(Q)) <= Cardinality(Deliverable(R))
  /\ \A B \in SUBSET RowId : IsFiniteSet(B) /\ Cardinality(B) \in Nat
<1>1. ASSUME NEW R \in SUBSET Rcpt
      PROVE  IsFiniteSet(Deliverable(R)) /\ Cardinality(Deliverable(R)) \in Nat
  <2>1. Deliverable(R) \in SUBSET Rcpt /\ IsFiniteSet(Rcpt)
    BY QueueAssumption, Zenon DEF Deliverable
  <2>2. IsFiniteSet(Deliverable(R))
    BY <2>1, FS_Subset, Zenon
  <2> QED BY <2>2, FS_CardinalityType, Zenon
<1>2. ASSUME NEW Q \in SUBSET Rcpt, NEW R \in SUBSET Rcpt, Q \subseteq R
      PROVE  Cardinality(Deliverable(Q)) <= Cardinality(Deliverable(R))
  <2>1. Deliverable(Q) \in SUBSET Deliverable(R)
    BY <1>2, Zenon DEF Deliverable
  <2> QED BY <1>1, <2>1, FS_Subset, Zenon
<1>3. ASSUME NEW B \in SUBSET RowId PROVE IsFiniteSet(B) /\ Cardinality(B) \in Nat
  <2>1. MaxRows \in Int /\ 1 \in Int
    BY QueueAssumption
  <2>2. IsFiniteSet(RowId)
    BY <2>1, FS_Interval, Zenon DEF RowId
  <2>3. IsFiniteSet(B)
    BY <2>2, FS_Subset, Zenon
  <2> QED BY <2>3, FS_CardinalityType, Zenon
<1> QED BY <1>1, <1>2, <1>3, Zenon

\* A row that gives up somebody it tried has fewer left to try.
LEMMA Fewer ==
  ASSUME NEW R \in SUBSET Rcpt, NEW Q \in SUBSET R, NEW r \in R \ Q, DomainOf[r] # Null
  PROVE  Cardinality(Deliverable(Q)) + 1 <= Cardinality(Deliverable(R))
<1>1. Deliverable(Q) \in SUBSET (Deliverable(R) \ {r}) /\ r \in Deliverable(R)
  BY Zenon DEF Deliverable
<1>2. /\ IsFiniteSet(Deliverable(R)) /\ Cardinality(Deliverable(R)) \in Nat
      /\ Cardinality(Deliverable(Q)) \in Nat
  BY Counted, Zenon
<1>3. /\ IsFiniteSet(Deliverable(R) \ {r})
      /\ Cardinality(Deliverable(R) \ {r}) = Cardinality(Deliverable(R)) - 1
  BY <1>1, <1>2, FS_RemoveElement, Zenon
<1>4. Cardinality(Deliverable(Q)) <= Cardinality(Deliverable(R) \ {r})
  BY <1>1, <1>3, FS_Subset, Zenon
<1> QED BY <1>2, <1>3, <1>4

\* What a bounce costs is paid when the row is settled, or by a failure.
LEMMA CostInvStep == ASSUME IInv, BounceInv, [Next]_vars PROVE CostInv'
<1>0. /\ StoreTypes /\ WorkerTypes /\ FateTypes /\ StoreInv /\ BatchInv /\ AttemptInv
      /\ OriginInv /\ FailedInv /\ CostInv /\ ExcusesStay
      /\ StoreTypes' /\ FateTypes'
  BY TypesSplit, ExcusesStep, StoreTypesStep, FateTypesStep, Zenon DEF IInv, BounceInv
<1> SUFFICES ASSUME NEW k \in RowId, accepted'[k] # Null
             PROVE  Cardinality(Bounces(k)') + Cardinality(Deliverable(Pending(k)'))
                      <= Cardinality(Deliverable(accepted'[k].rcpts)) + faults'
                         + (IF Bouncing(k)' THEN 1 ELSE 0)
  BY Zenon DEF CostInv, Deliverable
<1>1. Untouched \/ \E i \in RowId : Inserted(i) \/ Settled(i)
  BY PendingStep, Zenon
<1>2. /\ faults' = faults \/ faults' = faults + 1
      /\ \/ Defer \/ CompleteDoc \/ BouncePut
         \/ origin' = origin /\ (Bouncing(k) => Bouncing(k)' \/ faults' = faults + 1)
  BY BouncingStep, Zenon
<1>3. /\ Pending(k) \in SUBSET Rcpt /\ Pending(k)' \in SUBSET Rcpt
      /\ accepted'[k].rcpts \in SUBSET Rcpt
      /\ Bounces(k) \in SUBSET RowId /\ Bounces(k)' \in SUBSET RowId
  BY <1>0, Zenon DEF StoreTypes, FateTypes, Pending, Row, Envelope, Bounces
<1>4. /\ Cardinality(Deliverable(Pending(k))) \in Nat
      /\ Cardinality(Deliverable(Pending(k)')) \in Nat
      /\ Cardinality(Deliverable(accepted'[k].rcpts)) \in Nat
      /\ Cardinality(Bounces(k)) \in Nat /\ Cardinality(Bounces(k)') \in Nat
      /\ IsFiniteSet(Bounces(k))
      /\ faults \in Nat /\ faults' \in Nat
  BY <1>0, <1>2, <1>3, Counted, FaultsTyped
<1>5. CASE accepted[k] = Null
  <2>1. Pending(k)' = accepted'[k].rcpts /\ accepted' # accepted
    BY <1>1, <1>5, Zenon DEF Untouched, Inserted, Settled
  <2>2. origin' = origin
    BY <1>2, <2>1, Zenon DEF Defer, CompleteDoc, BouncePut, fate
  <2>3. Bounces(k)' = {}
    BY <1>0, <1>5, <2>2, NullNoId, Zenon DEF Bounces, OriginInv
  <2>4. Cardinality(Bounces(k)') = 0
    BY <2>3, FS_EmptySet, Zenon
  <2> QED BY <1>4, <2>1, <2>4
<1>6. CASE accepted[k] # Null
  <2>0. /\ accepted'[k] = accepted[k]
        /\ Cardinality(Bounces(k)) + Cardinality(Deliverable(Pending(k)))
             <= Cardinality(Deliverable(accepted[k].rcpts)) + faults + (IF Bouncing(k) THEN 1 ELSE 0)
    BY <1>0, <1>6, Zenon DEF CostInv, ExcusesStay
  <2>1. Pending(k)' \subseteq Pending(k)
    BY <1>1, <1>6, Zenon DEF Untouched, Inserted, Settled
  <2>2. Cardinality(Deliverable(Pending(k)')) <= Cardinality(Deliverable(Pending(k)))
    BY <1>3, <2>1, Counted, Zenon
  <2>3. CASE origin' = origin /\ (Bouncing(k) => Bouncing(k)' \/ faults' = faults + 1)
    <3>1. Bounces(k)' = Bounces(k)
      BY <2>3, Zenon DEF Bounces
    <3> QED BY <1>2, <1>4, <2>0, <2>2, <2>3, <3>1
  <2>4. CASE BouncePut
    <3>1. /\ w = "b_put" /\ w' = "b_row" /\ faults' = faults /\ UNCHANGED <<cur, perm>>
          /\ origin' = [origin EXCEPT ![last + 1] = cur.id]
      BY <2>4, Zenon DEF BouncePut
    <3>2. ~Bouncing(k) /\ (k = cur.id => Bouncing(k)')
      BY <1>0, <3>1, Zenon DEF Bouncing, FailedInv
    <3>3. last + 1 \in RowId /\ origin[last + 1] = Null
      <4>1. last \in Nat /\ last + 1 \in RowId
        BY <1>0, <2>4, NextIdTyped DEF BouncePut, StoreTypes
      <4> QED BY <1>0, <4>1 DEF OriginInv
    <3>4. \A i \in RowId : origin'[i] = IF i = last + 1 THEN cur.id ELSE origin[i]
      BY <1>0, <3>1, Zenon DEF FateTypes
    <3>5. CASE k = cur.id
      <4>1. Bounces(k)' = Bounces(k) \cup {last + 1}
        BY <3>3, <3>4, <3>5, Zenon DEF Bounces
      <4>2. Cardinality(Bounces(k)') <= Cardinality(Bounces(k)) + 1
        <5>1. Cardinality(Bounces(k) \cup {last + 1})
                = IF last + 1 \in Bounces(k) THEN Cardinality(Bounces(k)) ELSE Cardinality(Bounces(k)) + 1
          BY <1>4, FS_AddElement, Zenon
        <5> QED BY <1>4, <4>1, <5>1
      <4> QED BY <1>4, <2>0, <2>2, <3>1, <3>2, <3>5, <4>2
    <3>6. CASE k # cur.id
      <4>1. Bounces(k)' = Bounces(k)
        BY <3>3, <3>4, <3>6, NullNoId, Zenon DEF Bounces
      <4> QED BY <1>4, <2>0, <2>2, <3>1, <3>2, <4>1
    <3> QED BY <3>5, <3>6, Zenon
  <2>5. CASE Defer \/ CompleteDoc
    <3>1. origin' = origin /\ faults' = faults /\ w \in {"settle", "complete"}
      BY <2>5, Zenon DEF Defer, CompleteDoc, fate
    <3>2. Bounces(k)' = Bounces(k)
      BY <3>1, Zenon DEF Bounces
    <3>3. CASE ~Bouncing(k)
      BY <1>4, <2>0, <2>2, <3>1, <3>2, <3>3
    <3>4. CASE Bouncing(k)
      <4>1. k = cur.id /\ w = "settle" /\ w \in Active
        BY <3>1, <3>4, Zenon DEF Bouncing, Active
      <4>2. PICK r \in perm : TRUE
        BY <3>4, Zenon DEF Bouncing
      <4>3. DomainOf[r] # Null /\ r \notin temp
        BY <1>0, <4>1, <4>2, Zenon DEF FailedInv
      <4>4. r \in Pending(k)
        BY <1>0, <4>1, <4>2, CurPending, Zenon DEF AttemptInv, BatchInv
      <4>5. r \notin Pending(k)'
        <5>1. CASE Defer
          BY <1>0, <4>1, <4>3, <5>1, RowDeferred, Zenon DEF Pending
        <5>2. CASE CompleteDoc
          BY <1>0, <4>1, <5>2, Zenon DEF CompleteDoc, StoreTypes, Pending
        <5> QED BY <2>5, <5>1, <5>2, Zenon
      <4>6. Cardinality(Deliverable(Pending(k)')) + 1 <= Cardinality(Deliverable(Pending(k)))
        BY <1>3, <2>1, <4>3, <4>4, <4>5, Fewer, Zenon
      <4> QED BY <1>4, <2>0, <3>1, <3>2, <4>6
    <3> QED BY <3>3, <3>4, Zenon
  <2> QED BY <1>2, <2>3, <2>4, <2>5, Zenon
<1> QED BY <1>5, <1>6, Zenon

\* BounceInv is inductive, given the invariant of the queue.
LEMMA InitBounceInv == Init => BounceInv
<1> SUFFICES ASSUME Init PROVE BounceInv
  BY Zenon
<1>1. /\ \A i \in RowId : origin[i] = Null /\ accepted[i] = Null
      /\ sub = Null /\ w = "idle" /\ temp = {} /\ perm = {}
  BY Zenon DEF Init
<1> QED BY <1>1, Zenon DEF BounceInv, OriginInv, FailedInv, CostInv

\* In no state does a message cost more bounces than it has recipients and failures.
LEMMA BounceInvBounds == IInv /\ BounceInv => BouncesBounded
<1> SUFFICES ASSUME IInv, BounceInv, NEW k \in RowId, Bounces(k) # {}
             PROVE  /\ origin[k] = Null
                    /\ Cardinality(Bounces(k)) <= Cardinality(Deliverable(accepted[k].rcpts)) + faults
  BY Zenon DEF BouncesBounded
<1>0. /\ StoreTypes /\ WorkerTypes /\ FateTypes /\ StoreInv /\ BatchInv /\ AttemptInv
      /\ OriginInv /\ FailedInv /\ CostInv
  BY TypesSplit, Zenon DEF IInv, BounceInv
<1>1. accepted[k] # Null /\ accepted[k].from = "remote"
  <2>1. PICK i \in RowId : origin[i] = k
    BY Zenon DEF Bounces
  <2>2. origin[i] # Null
    BY <2>1, NullNoId, Zenon
  <2>3. accepted[origin[i]] # Null /\ accepted[origin[i]].from = "remote"
    BY <1>0, <2>2, Zenon DEF OriginInv
  <2> QED BY <2>1, <2>3, Zenon
<1>2. origin[k] = Null
  BY <1>0, <1>1, Zenon DEF OriginInv
<1>3. Pending(k) \in SUBSET Rcpt /\ accepted[k].rcpts \in SUBSET Rcpt /\ Bounces(k) \in SUBSET RowId
  BY <1>0, <1>1, PendingTyped, Zenon DEF FateTypes, Envelope, Bounces
<1>4. /\ Cardinality(Deliverable(Pending(k))) \in Nat
      /\ Cardinality(Deliverable(accepted[k].rcpts)) \in Nat
      /\ Cardinality(Bounces(k)) \in Nat /\ faults \in Nat
  BY <1>0, <1>3, Counted, FaultsTyped, Zenon
<1>5. Cardinality(Bounces(k)) + Cardinality(Deliverable(Pending(k)))
        <= Cardinality(Deliverable(accepted[k].rcpts)) + faults + (IF Bouncing(k) THEN 1 ELSE 0)
  BY <1>0, <1>1, Zenon DEF CostInv
<1>6. CASE Bouncing(k)
  <2>1. PICK r \in perm : k = cur.id /\ w \in Active
    BY <1>6, Zenon DEF Bouncing, Active
  <2>2. r \in Pending(k) /\ DomainOf[r] # Null
    BY <1>0, <2>1, CurPending, Zenon DEF AttemptInv, BatchInv, Active, FailedInv
  <2>3. Cardinality(Deliverable({})) + 1 <= Cardinality(Deliverable(Pending(k)))
    BY <1>3, <2>2, Fewer, Zenon
  <2>4. Cardinality(Deliverable({})) \in Nat
    BY Counted, Zenon
  <2> QED BY <1>2, <1>4, <1>5, <2>3, <2>4
<1>7. CASE ~Bouncing(k)
  BY <1>2, <1>4, <1>5, <1>7
<1> QED BY <1>6, <1>7, Zenon

\* A bounce is never bounced, and a message costs at most one bounce for each of
\* its recipients and one more for each failure.
THEOREM BouncesStop == Spec => []BouncesBounded
<1>1. IInv /\ BounceInv /\ [Next]_vars => BounceInv'
  BY OriginInvStep, FailedInvStep, CostInvStep, Zenon DEF BounceInv
<1> QED BY <1>1, InitBounceInv, BounceInvBounds, Invariance, PTL DEF Spec

-----------------------------------------------------------------------------
(* The promise.                                                            *)

\* What has become of recipient r of row i.
LEMMA FateValue ==
  ASSUME NEW i \in RowId, NEW r \in Rcpt
  PROVE  /\ accepted[i] = Null \/ r \notin accepted[i].rcpts => FateOf[i][r] = "none"
         /\ accepted[i] # Null /\ r \in accepted[i].rcpts =>
               FateOf[i][r] = IF r \in Pending(i) THEN "queued"
                              ELSE IF taken[i][r] > 0 THEN "delivered" ELSE "failed"
<1>1. r \in Named(i) <=> accepted[i] # Null /\ r \in accepted[i].rcpts
  BY Zenon DEF Named
<1>2. FateOf[i][r] = CASE r \notin Named(i) -> "none"
                          [] r \in Named(i) \cap Pending(i) -> "queued"
                          [] OTHER -> IF taken[i][r] > 0 THEN "delivered" ELSE "failed"
  BY Zenon DEF FateOf
<1>3. CASE r \notin Named(i)
  BY <1>1, <1>2, <1>3, Zenon
<1>4. CASE r \in Named(i)
  BY <1>1, <1>2, <1>4, Zenon
<1> QED BY <1>3, <1>4, Zenon

\* The same after a step.
LEMMA FateValueNext ==
  ASSUME NEW i \in RowId, NEW r \in Rcpt
  PROVE  /\ accepted'[i] = Null \/ r \notin accepted'[i].rcpts => FateOf'[i][r] = "none"
         /\ accepted'[i] # Null /\ r \in accepted'[i].rcpts =>
               FateOf'[i][r] = IF r \in Pending(i)' THEN "queued"
                               ELSE IF taken'[i][r] > 0 THEN "delivered" ELSE "failed"
<1>1. r \in Named(i)' <=> accepted'[i] # Null /\ r \in accepted'[i].rcpts
  BY Zenon DEF Named
<1>2. FateOf'[i][r] = CASE r \notin Named(i)' -> "none"
                          [] r \in Named(i)' \cap Pending(i)' -> "queued"
                          [] OTHER -> IF taken'[i][r] > 0 THEN "delivered" ELSE "failed"
  BY Zenon DEF FateOf
<1>3. CASE r \notin Named(i)'
  BY <1>1, <1>2, <1>3, Zenon
<1>4. CASE r \in Named(i)'
  BY <1>1, <1>2, <1>4, Zenon
<1> QED BY <1>3, <1>4, Zenon

\* A step that changes no fate of a row, in terms of that row.
LEMMA FateKept ==
  ASSUME NEW i \in RowId, accepted'[i] = accepted[i], Pending(i)' = Pending(i),
         \A r \in Rcpt \ Pending(i) : taken'[i][r] = taken[i][r]
  PROVE  \A r \in Rcpt : FateOf'[i][r] = FateOf[i][r]
<1> TAKE r \in Rcpt
<1>1. CASE accepted[i] = Null \/ r \notin accepted[i].rcpts
  BY <1>1, FateValue, FateValueNext
<1>2. CASE accepted[i] # Null /\ r \in accepted[i].rcpts
  BY <1>2, FateValue, FateValueNext, Zenon
<1> QED BY <1>1, <1>2, Zenon

\* Fates are a table of rows and recipients.
LEMMA FateShape ==
  /\ FateOf = [i \in RowId |-> [r \in Rcpt |-> FateOf[i][r]]]
  /\ FateOf' = [i \in RowId |-> [r \in Rcpt |-> FateOf'[i][r]]]
<1>1. FateOf = [i \in RowId |-> [r \in Rcpt |-> FateOf[i][r]]]
  BY Zenon DEF FateOf
<1>2. FateOf' = [i \in RowId |-> [r \in Rcpt |-> FateOf'[i][r]]]
  BY Zenon DEF FateOf
<1> QED BY <1>1, <1>2, Zenon

\* Inserting a row accepts it; deferring or completing it settles the
\* recipients that leave it; nothing else the code does shows in the fates.
LEMMA PromiseStep == ASSUME IInv, [Next]_vars PROVE [Promise!Next]_FateOf
<1>1. Untouched \/ \E i \in RowId : Inserted(i) \/ Settled(i)
  BY PendingStep, Zenon
<1>2. StoreTypes /\ FateTypes /\ StoreInv
  BY TypesSplit, Zenon DEF IInv
<1>3. CASE Untouched
  <2>1. \A i \in RowId, r \in Rcpt : FateOf'[i][r] = FateOf[i][r]
    BY <1>3, FateKept, Zenon DEF Untouched
  <2>2. FateOf' = FateOf
    BY <2>1, FateShape, Zenon
  <2> QED BY <2>2, Zenon
<1>4. ASSUME NEW i \in RowId, Inserted(i) PROVE Promise!Accept(i)
  <2> DEFINE R == accepted'[i].rcpts
  <2>1. \A r \in Rcpt : FateOf[i][r] = "none"
    BY <1>4, FateValue, Zenon DEF Inserted
  <2>2. accepted'[i] # Null /\ R \in SUBSET Rcpt /\ Pending(i)' = R
    BY <1>4, NotNull, Zenon DEF Inserted, Envelope
  <2>3. \A r \in Rcpt : FateOf'[i][r] = IF r \in R THEN "queued" ELSE "none"
    BY <2>2, FateValueNext, Zenon
  <2>4. \A j \in RowId \ {i} : \A r \in Rcpt : FateOf'[j][r] = FateOf[j][r]
    BY <1>4, FateKept, Zenon DEF Inserted
  <2> HIDE DEF R
  <2>5. FateOf' = [FateOf EXCEPT ![i] = [r \in Rcpt |-> IF r \in R THEN "queued" ELSE "none"]]
    BY <2>3, <2>4, FateShape
  <2> QED BY <2>1, <2>2, <2>5, Zenon DEF Promise!Accept
<1>5. ASSUME NEW i \in RowId, Settled(i) PROVE Promise!Settle(i)
  <2> DEFINE gone == Pending(i) \ Pending(i)'
             D == {r \in gone : taken[i][r] > 0}
             F == gone \ D
  <2>1. accepted[i] # Null /\ accepted' = accepted /\ taken' = taken /\ Pending(i)' \subseteq Pending(i)
    BY <1>5, Zenon DEF Settled
  <2>2. Pending(i) \subseteq accepted[i].rcpts /\ Pending(i) \subseteq Rcpt
    BY <1>2, PendingTyped, Zenon DEF StoreInv, RowsInv, Pending
  <2>3. \A r \in Pending(i) : FateOf[i][r] = "queued"
    BY <2>1, <2>2, FateValue, Zenon
  <2>4. D \in SUBSET Promise!Queued(i) /\ F \in SUBSET (Promise!Queued(i) \ D)
    BY <2>2, <2>3, Zenon DEF Promise!Queued
  <2>5. ASSUME NEW r \in Rcpt
        PROVE  FateOf'[i][r] = CASE r \in D -> "delivered" [] r \in F -> "failed"
                                 [] OTHER -> FateOf[i][r]
    <3>1. CASE r \in gone
      BY <2>1, <2>2, <3>1, FateValueNext, Zenon
    <3>2. CASE r \notin gone
      BY <2>1, <2>2, <3>2, FateValue, FateValueNext
    <3> QED BY <3>1, <3>2, Zenon
  <2>6. \A j \in RowId \ {i} : \A r \in Rcpt : FateOf'[j][r] = FateOf[j][r]
    BY <1>5, FateKept, Zenon DEF Settled
  <2> HIDE DEF D, F
  <2>7. FateOf' = [FateOf EXCEPT ![i] = [r \in Rcpt |-> CASE r \in D -> "delivered" [] r \in F -> "failed"
                                                         [] OTHER -> @[r]]]
    BY <2>5, <2>6, FateShape
  <2> QED BY <2>4, <2>7, Zenon DEF Promise!Settle
<1> QED BY <1>1, <1>3, <1>4, <1>5, Zenon DEF Promise!Next

\* The queue implements the safety of its promise: a recipient is queued when
\* its message is accepted, and what it becomes when it leaves never changes.
THEOREM SafePromise == Spec => Promise!Safety
<1>1. Init => Promise!Init
  BY Zenon DEF Init, Promise!Init, FateOf, Named
<1>2. IInv /\ [Next]_vars => [Promise!Next]_FateOf
  BY PromiseStep, Zenon
<1> QED BY <1>1, <1>2, Invariance, PTL DEF Spec, Promise!Safety
=============================================================================
