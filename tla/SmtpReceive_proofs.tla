------------------------- MODULE SmtpReceive_proofs -------------------------
(***************************************************************************)
(* Theorems about the inbound MX, for any messages, recipients, accounts,  *)
(* configurations and bounds, and about the addresses under which it       *)
(* forwards (Srs), for every sender and every moment.  What recipient      *)
(* resolution computes is not looked into: dest[r] is whatever             *)
(* ResolveDestinations returns for r.                                      *)
(***************************************************************************)
EXTENDS SmtpReceive, Srs, TLAPS

-----------------------------------------------------------------------------
(* The inductive invariant.                                                *)

Locals == UNION {dest[r].local : r \in Recipient}
Remotes == UNION {dest[r].remote : r \in Recipient}
Job == [pc : {"idle", "check", "file", "reply"}, rcpts : SUBSET Recipient,
        accts : SUBSET Locals, remote : SUBSET Remotes, todo : SUBSET Locals,
        failed : BOOLEAN, folder : {"INBOX", "Junk"}]

Shape ==
    /\ mail \in [Mail -> Input] /\ job \in [Mail -> Job]
    /\ want \in [Mail -> SUBSET Recipient] /\ accepted \in [Mail -> SUBSET Recipient]
    /\ redone \in [Mail -> Nat] /\ queued \in [Mail -> BOOLEAN]
    /\ seen \in [Account -> SUBSET Sender] /\ replies \in [Account -> [Sender -> Nat]]
    /\ DOMAIN copies = Mail
    /\ \A m \in Mail : DOMAIN copies[m] = Account /\ \A a \in Account : Len(copies[m][a]) \in Nat

\* A connection has the destinations of the recipients it was not refused.
Carries(m) ==
    ~At(m, "idle") =>
        /\ \A r \in job[m].rcpts : ~Empty(dest[r])
        /\ job[m].accts = UNION {dest[r].local : r \in job[m].rcpts}
        /\ job[m].remote = UNION {dest[r].remote : r \in job[m].rcpts}

\* Account a has the message, as far as its filter lets it.
Held(m, a) == Drops(a) \/ copies[m][a] # <<>>
Served(m, r) ==
    /\ ~Empty(dest[r])
    /\ \A a \in dest[r].local \cap Account : Held(m, a)
    /\ dest[r].remote # {} => queued[m]

\* The accounts a connection has come past have the message, unless a delivery has
\* failed, after which the message is not accepted.
Holds(m) ==
    /\ At(m, "file") =>
          \A a \in job[m].accts \cap Account : a \in job[m].todo \/ job[m].failed \/ Held(m, a)
    /\ At(m, "reply") => \A a \in job[m].accts \cap Account : Held(m, a)
    /\ \A r \in accepted[m] : Served(m, r)

\* A connection may yet file a copy of m for a.
Pending(m, a) ==
    \/ At(m, "idle") /\ want[m] # {}
    \/ At(m, "check")
    \/ At(m, "file") /\ a \in job[m].todo

\* Before a connection files a copy for a, every copy is accounted for by an earlier
\* connection that left the message on offer.
Counts(m, a) ==
    /\ Len(copies[m][a]) <= 1 + redone[m]
    /\ Pending(m, a) => Len(copies[m][a]) <= redone[m]

\* A reply of the current window has its sender in the suppressor.
Suppressed(a, s) == replies[a][s] <= 1 /\ (s \notin seen[a] => replies[a][s] = 0)

Good(m) == Carries(m) /\ Holds(m) /\ \A a \in Account : Counts(m, a)
ReplyInv == \A a \in Account, s \in Sender : Suppressed(a, s)
ReceiveInv == Shape /\ (\A m \in Mail : Good(m)) /\ ReplyInv
-----------------------------------------------------------------------------
(* Shape.                                                                  *)

\* What a step of the server's side and what the environment may do.
LEMMA NextCases ==
    ASSUME Next
    PROVE  \/ \E m \in Mail : \/ Envelope(m) \/ Screen(m) \/ Filed(m) \/ Finish(m)
                              \/ ReadFails(m) \/ ForwardFails(m)
                              \/ \E a \in Account : \/ File(m, a) \/ FileUnfiltered(m, a)
                                                     \/ FileFails(m, a) \/ Reply(m, a)
           \/ WindowEnds \/ Restart
           \/ \E s \in Sender : DelayPasses(s) \/ Sweep(s)
           \/ \E a \in Account, s \in Sender : SuppressionEnds(a, s)
  BY Zenon DEF Next, Serve

\* The configuration, the destinations and the messages do not change.
LEMMA WorldKept == ASSUME [Next]_vars PROVE conf' = conf /\ dest' = dest /\ mail' = mail
<1>1. CASE Next
  <2>1. ASSUME NEW m \in Mail, \/ Envelope(m) \/ Screen(m) \/ Filed(m) \/ Finish(m)
                               \/ ReadFails(m) \/ ForwardFails(m)
        PROVE  UNCHANGED world
    BY <2>1, Zenon DEF Envelope, Screen, Filed, Finish, ReadFails, ForwardFails
  <2>2. ASSUME NEW m \in Mail, NEW a \in Account,
               File(m, a) \/ FileUnfiltered(m, a) \/ FileFails(m, a) \/ Reply(m, a)
        PROVE  UNCHANGED world
    BY <2>2, Zenon DEF File, FileUnfiltered, FileFails, Reply
  <2>3. ASSUME NEW a, NEW s, \/ WindowEnds \/ Restart \/ DelayPasses(s) \/ Sweep(s)
                             \/ SuppressionEnds(a, s)
        PROVE  UNCHANGED world
    BY <2>3, Zenon DEF WindowEnds, Restart, DelayPasses, Sweep, SuppressionEnds
  <2> QED BY <1>1, <2>1, <2>2, <2>3, NextCases, Zenon DEF world
<1>2. CASE UNCHANGED vars
  BY <1>2, Zenon DEF vars, world
<1> QED BY <1>1, <1>2, Zenon

\* The sets a step does not change.
LEMMA SetsKept ==
    ASSUME dest' = dest, conf' = conf
    PROVE  Job' = Job /\ (\A a : Drops(a)' = Drops(a)) /\ (\A r : Refused(r)' = Refused(r))
  BY DEF Job, Locals, Remotes, Drops, Refused

\* A message's sender and recipients are among those of all messages.
LEMMA MailTyped ==
    ASSUME mail \in [Mail -> Input], NEW m \in Mail
    PROVE  mail[m].from \in Sender /\ mail[m].rcpts \subseteq Recipient
  BY Zenon DEF Sender, Recipient

\* The empty job is a job.
LEMMA NoJobTyped == NoJob \in Job
  BY Zenon DEF NoJob, Job

\* The initial state has its shape.
LEMMA ShapeInit == ASSUME Init PROVE Shape
<1>1. mail \in [Mail -> Input]
  BY Zenon DEF Init
<1>2. want \in [Mail -> SUBSET Recipient]
  BY <1>1, MailTyped, Zenon DEF Init
<1>3. job \in [Mail -> Job]
  BY NoJobTyped, Zenon DEF Init
<1>4. /\ DOMAIN copies = Mail
      /\ \A m \in Mail : DOMAIN copies[m] = Account /\ \A a \in Account : Len(copies[m][a]) \in Nat
  BY Zenon DEF Init
<1> QED BY <1>1, <1>2, <1>3, <1>4, Zenon DEF Init, Shape

\* A step of the connection that offers m leaves the other messages alone.
OthersKept(m) ==
    \A n \in Mail \ {m} :
        /\ job'[n] = job[n] /\ want'[n] = want[n] /\ accepted'[n] = accepted[n]
        /\ redone'[n] = redone[n] /\ copies'[n] = copies[n] /\ queued'[n] = queued[n]

\* The answers to DATA keep the shape.
LEMMA AnswerShape ==
    ASSUME Shape, NEW m \in Mail, Job' = Job,
           Accept(m) \/ (Reject(m) /\ UNCHANGED redone) \/ (TryLater(m) /\ UNCHANGED redone) \/ Redo(m)
    PROVE  /\ job' \in [Mail -> Job'] /\ want' \in [Mail -> SUBSET Recipient]
           /\ accepted' \in [Mail -> SUBSET Recipient] /\ redone' \in [Mail -> Nat]
           /\ job'[m] = NoJob
           /\ \A n \in Mail \ {m} : /\ job'[n] = job[n] /\ want'[n] = want[n]
                                    /\ accepted'[n] = accepted[n] /\ redone'[n] = redone[n]
<1>1. job' = [job EXCEPT ![m] = NoJob]
  BY Zenon DEF Accept, Reject, TryLater, Redo, Hangup
<1>2. /\ job' \in [Mail -> Job'] /\ job'[m] = NoJob
      /\ \A n \in Mail \ {m} : job'[n] = job[n]
  BY <1>1, NoJobTyped, Zenon DEF Shape
<1>3. CASE Accept(m)
  <2>1. (IF want'[m] = {} THEN 0 ELSE 1) \in Nat
    BY Zenon
  <2>2. redone' \in [Mail -> Nat] /\ \A n \in Mail \ {m} : redone'[n] = redone[n]
    BY <1>3, <2>1 DEF Accept, Shape
  <2>3. job[m].rcpts \subseteq Recipient
    BY Zenon DEF Shape, Job
  <2> QED BY <1>2, <1>3, <2>2, <2>3, Zenon DEF Accept, Shape
<1>4. CASE (Reject(m) /\ UNCHANGED redone) \/ (TryLater(m) /\ UNCHANGED redone) \/ Redo(m)
  <2>1. accepted' = accepted /\ (want' = want \/ want' = [want EXCEPT ![m] = @ \ job[m].rcpts])
        /\ (redone' = redone \/ redone' = [redone EXCEPT ![m] = @ + 1])
    BY <1>4, Zenon DEF Reject, TryLater, Redo
  <2>2. want' \in [Mail -> SUBSET Recipient] /\ \A n \in Mail \ {m} : want'[n] = want[n]
    BY <2>1, ZenonT(30) DEF Shape
  <2>3. redone' \in [Mail -> Nat] /\ \A n \in Mail \ {m} : redone'[n] = redone[n]
    BY <2>1 DEF Shape
  <2> QED BY <1>2, <2>1, <2>2, <2>3, Zenon DEF Shape
<1> QED BY <1>3, <1>4, Zenon

\* A copy filed keeps the shape of the mailboxes.
LEMMA PlaceShape ==
    ASSUME Shape, NEW m \in Mail, NEW a \in Account, NEW folder, Place(m, a, folder)
    PROVE  /\ DOMAIN copies' = Mail
           /\ \A n \in Mail : DOMAIN copies'[n] = Account
                              /\ \A b \in Account : Len(copies'[n][b]) \in Nat
           /\ \A n \in Mail \ {m} : copies'[n] = copies[n]
           /\ \A b \in Account \ {a} : copies'[m][b] = copies[m][b]
           /\ Len(copies'[m][a]) = Len(copies[m][a]) + 1 /\ copies'[m][a] # <<>>
<1>1. /\ DOMAIN copies' = Mail
      /\ \A n \in Mail \ {m} : copies'[n] = copies[n]
      /\ DOMAIN copies'[m] = Account
      /\ \A b \in Account \ {a} : copies'[m][b] = copies[m][b]
      /\ copies'[m][a] = Append(copies[m][a], folder)
  BY Zenon DEF Place, Shape
<1>2. Len(copies[m][a]) \in Nat
  BY Zenon DEF Shape
<1>3. Len(copies'[m][a]) = Len(copies[m][a]) + 1
  BY <1>1, <1>2
<1>4. copies'[m][a] # <<>>
  BY <1>1, <1>2
<1>5. ASSUME NEW n \in Mail PROVE DOMAIN copies'[n] = Account
  BY <1>1, Zenon DEF Shape
<1>6. ASSUME NEW n \in Mail, NEW b \in Account PROVE Len(copies'[n][b]) \in Nat
  <2>1. CASE n = m /\ b = a
    BY <1>2, <1>3, <2>1
  <2>2. CASE ~(n = m /\ b = a)
    BY <1>1, <2>2, Zenon DEF Shape
  <2> QED BY <2>1, <2>2, Zenon
<1> QED BY <1>1, <1>3, <1>4, <1>5, <1>6, Zenon

\* A step of a connection keeps the shape of the state and the other messages.
LEMMA ConnectionShape ==
    ASSUME Shape, conf' = conf, dest' = dest, mail' = mail, NEW m \in Mail,
           \/ Envelope(m) \/ Screen(m) \/ Filed(m) \/ Finish(m) \/ ReadFails(m) \/ ForwardFails(m)
           \/ \E a \in Account : File(m, a) \/ FileUnfiltered(m, a) \/ FileFails(m, a) \/ Reply(m, a)
    PROVE  Shape' /\ OthersKept(m)
<1>0. Job' = Job /\ mail[m].from \in Sender /\ job[m] \in Job
  BY SetsKept, MailTyped, Zenon DEF Shape
<1>1. CASE Envelope(m)
  <2>1. PICK T \in SUBSET want[m] :
            LET ok == {r \in want[m] \ T : ~Refused(r)}
            IN /\ want' = [want EXCEPT ![m] = T \cup ok]
               /\ job' = IF ok = {} THEN job
                         ELSE [job EXCEPT ![m] =
                                 [NoJob EXCEPT !.pc = "check", !.rcpts = ok,
                                    !.accts = UNION {dest[r].local : r \in ok},
                                    !.remote = UNION {dest[r].remote : r \in ok}]]
    BY <1>1, Zenon DEF Envelope
  <2> DEFINE ok == {r \in want[m] \ T : ~Refused(r)}
             new == [NoJob EXCEPT !.pc = "check", !.rcpts = ok,
                                  !.accts = UNION {dest[r].local : r \in ok},
                                  !.remote = UNION {dest[r].remote : r \in ok}]
  <2>2. ok \subseteq Recipient /\ T \subseteq Recipient
    BY Zenon DEF Shape
  <2>3. new \in Job
    BY <2>2, Zenon DEF NoJob, Job, Locals, Remotes
  <2>4. want' = [want EXCEPT ![m] = T \cup ok] /\ job' \in {job, [job EXCEPT ![m] = new]}
    BY <2>1, Zenon
  <2> HIDE DEF ok, new
  <2>5. UNCHANGED <<seen, copies, queued, replies, accepted, redone>>
    BY <1>1, Zenon DEF Envelope, guards, filed
  <2>6. want' \in [Mail -> SUBSET Recipient] /\ \A n \in Mail \ {m} : want'[n] = want[n]
    BY <2>2, <2>4, Zenon DEF Shape
  <2>7. job' \in [Mail -> Job] /\ \A n \in Mail \ {m} : job'[n] = job[n]
    BY <2>3, <2>4, Zenon DEF Shape
  <2> QED BY <1>0, <2>5, <2>6, <2>7, Zenon DEF Shape, OthersKept
<1>2. CASE Screen(m)
  <2>1. UNCHANGED <<redone, seen, copies, queued, replies>>
    BY <1>2, Zenon DEF Screen, filed
  <2>2. CASE Reject(m) \/ TryLater(m)
    BY <1>0, <2>1, <2>2, AnswerShape DEF Shape, OthersKept
  <2>3. CASE /\ job' = [job EXCEPT ![m].pc = "file", ![m].todo = job[m].accts,
                               ![m].folder = IF mail[m].dmarc = "quarantine"
                                             THEN "Junk" ELSE "INBOX"]
             /\ UNCHANGED <<want, accepted, faults>>
    <3>1. job'[m] \in Job
      BY <1>0, <2>3, Zenon DEF Shape, Job
    <3> QED BY <1>0, <2>1, <2>3, <3>1, Zenon DEF Shape, OthersKept
  <2> QED BY <1>2, <2>2, <2>3, Zenon DEF Screen
<1>3. CASE Filed(m)
  <2>1. UNCHANGED <<seen, copies, queued, replies>>
    BY <1>3, Zenon DEF Filed, guards, filed
  <2>2. CASE Redo(m)
    BY <1>0, <2>1, <2>2, AnswerShape DEF Shape, OthersKept
  <2>3. CASE ~job[m].failed
    <3>1. job'[m] \in Job
      <4>1. job' = [job EXCEPT ![m] = [job[m] EXCEPT !.pc = "reply",
                     !.todo = IF job[m].folder = "INBOX" THEN job[m].accts ELSE {}]]
        BY <1>3, <2>3, Zenon DEF Filed, Shape
      <4>2. (IF job[m].folder = "INBOX" THEN job[m].accts ELSE {}) \in SUBSET Locals
        BY <1>0, Zenon DEF Job
      <4> QED BY <1>0, <4>1, <4>2, Zenon DEF Shape, Job
    <3> QED BY <1>0, <1>3, <2>1, <2>3, <3>1, Zenon DEF Filed, Shape, OthersKept
  <2> QED BY <1>3, <2>2, <2>3, Zenon DEF Filed
<1>4. CASE Finish(m) \/ ReadFails(m) \/ ForwardFails(m)
  <2>1. UNCHANGED <<seen, copies, replies>>
    BY <1>4, Zenon DEF Finish, ReadFails, ForwardFails, guards, filed
  <2>2. queued' \in [Mail -> BOOLEAN] /\ \A n \in Mail \ {m} : queued'[n] = queued[n]
    BY <1>4, Zenon DEF Finish, ReadFails, ForwardFails, filed, Shape
  <2>3. Accept(m) \/ Redo(m) \/ (TryLater(m) /\ UNCHANGED redone)
    BY <1>4, Zenon DEF Finish, ReadFails, ForwardFails
  <2> QED BY <1>0, <2>1, <2>2, <2>3, AnswerShape DEF Shape, OthersKept
<1>5. ASSUME NEW a \in Account, File(m, a) \/ FileUnfiltered(m, a) \/ FileFails(m, a)
      PROVE  Shape' /\ OthersKept(m)
  <2>1. UNCHANGED <<want, seen, queued, replies, accepted, redone>>
    BY <1>5, Zenon DEF File, FileUnfiltered, FileFails, guards, filed
  <2>2. job'[m] \in Job /\ DOMAIN job' = Mail /\ job' = [n \in Mail |-> job'[n]]
        /\ \A n \in Mail \ {m} : job'[n] = job[n]
    <3>1. PICK j \in {[job[m] EXCEPT !.todo = @ \ {a}],
                      [job[m] EXCEPT !.todo = @ \ {a}, !.failed = TRUE]} :
              job' = [job EXCEPT ![m] = j]
      BY <1>5, Zenon DEF File, FileUnfiltered, FileFails, Shape
    <3>2. j \in Job
      BY <1>0, <3>1, Zenon DEF Job
    <3> QED BY <3>1, <3>2, Zenon DEF Shape
  <2>3. copies' = copies \/ \E folder : Place(m, a, folder)
    BY <1>5, Zenon DEF File, FileUnfiltered, FileFails, filed
  <2>4. /\ DOMAIN copies' = Mail
        /\ \A n \in Mail : DOMAIN copies'[n] = Account
                           /\ \A b \in Account : Len(copies'[n][b]) \in Nat
        /\ \A n \in Mail \ {m} : copies'[n] = copies[n]
    BY <2>3, PlaceShape, Zenon DEF Shape
  <2>5. job' \in [Mail -> Job']
    BY <1>0, <2>2, Zenon DEF Shape
  <2> QED BY <2>1, <2>2, <2>4, <2>5, Zenon DEF Shape, OthersKept
<1>6. ASSUME NEW a \in Account, Reply(m, a) PROVE Shape' /\ OthersKept(m)
  <2>1. UNCHANGED <<want, copies, queued, accepted, redone>>
    BY <1>6, Zenon DEF Reply
  <2>2. job'[m] \in Job
    BY <1>0, <1>6, Zenon DEF Reply, Shape, Job
  <2>0. /\ seen' = seen \/ seen' = [seen EXCEPT ![a] = @ \cup {mail[m].from}]
        /\ replies' = replies \/ replies' = [replies EXCEPT ![a][mail[m].from] = @ + 1]
    BY <1>6, Zenon DEF Reply
  <2>3. seen' \in [Account -> SUBSET Sender]
    <3>1. seen[a] \cup {mail[m].from} \in SUBSET Sender /\ seen \in [Account -> SUBSET Sender]
      BY <1>0, Zenon DEF Shape
    <3> QED BY <2>0, <3>1, Zenon
  <2>4. replies' \in [Account -> [Sender -> Nat]]
    <3>1. replies[a][mail[m].from] + 1 \in Nat /\ replies \in [Account -> [Sender -> Nat]]
      BY <1>0 DEF Shape
    <3>2. [replies[a] EXCEPT ![mail[m].from] = @ + 1] \in [Sender -> Nat]
      BY <1>0, <3>1, Zenon
    <3>3. CASE replies' = replies
      BY <3>1, <3>3, Zenon
    <3>4. CASE replies' = [replies EXCEPT ![a][mail[m].from] = @ + 1]
      BY <3>1, <3>2, <3>4, Zenon
    <3> QED BY <2>0, <3>3, <3>4, Zenon
  <2> QED BY <1>0, <1>6, <2>1, <2>2, <2>3, <2>4, Zenon DEF Reply, Shape, OthersKept
<1> QED BY <1>1, <1>2, <1>3, <1>4, <1>5, <1>6, Zenon

\* Clocks, sweeps and restarts keep the shape too.
LEMMA EnvironmentShape ==
    ASSUME Shape, conf' = conf, dest' = dest, mail' = mail, NEW a, NEW s,
           \/ WindowEnds \/ Restart \/ DelayPasses(s) \/ Sweep(s)
           \/ a \in Account /\ s \in Sender /\ SuppressionEnds(a, s)
           \/ UNCHANGED vars
    PROVE  Shape'
<1>0. Job' = Job
  BY SetsKept, Zenon
<1>1. CASE WindowEnds \/ DelayPasses(s) \/ Sweep(s) \/ UNCHANGED vars
  <2>1. UNCHANGED <<want, job, seen, copies, queued, replies, accepted, redone>>
    BY <1>1, Zenon DEF WindowEnds, DelayPasses, Sweep, vars, world, guards, filed
  <2> QED BY <1>0, <2>1, Zenon DEF Shape
<1>2. CASE a \in Account /\ s \in Sender /\ SuppressionEnds(a, s)
  <2>1. UNCHANGED <<want, job, copies, queued, accepted, redone>>
    BY <1>2, Zenon DEF SuppressionEnds
  <2>2. seen' \in [Account -> SUBSET Sender] /\ replies' \in [Account -> [Sender -> Nat]]
    BY <1>2, Zenon DEF SuppressionEnds, Shape
  <2> QED BY <1>0, <2>1, <2>2, Zenon DEF Shape
<1>3. CASE Restart
  <2>1. UNCHANGED <<want, copies, queued, accepted>>
    BY <1>3, Zenon DEF Restart
  <2>2. seen' \in [Account -> SUBSET Sender] /\ replies' \in [Account -> [Sender -> Nat]]
    BY <1>3, Zenon DEF Restart
  <2>3. job' \in [Mail -> Job] /\ redone' \in [Mail -> Nat]
    BY <1>3, NoJobTyped DEF Restart, Shape
  <2> QED BY <1>0, <2>1, <2>2, <2>3, Zenon DEF Shape
<1> QED BY <1>1, <1>2, <1>3, Zenon

-----------------------------------------------------------------------------
(* Connections.                                                            *)

\* Only the message at hand needs looking at.
LEMMA Frame ==
    ASSUME conf' = conf, dest' = dest, NEW m \in Mail, OthersKept(m),
           \A n \in Mail : Good(n), Good(m)'
    PROVE  \A n \in Mail : Good(n)'
<1> SUFFICES ASSUME NEW n \in Mail \ {m} PROVE Good(n)'
  BY Zenon
<1>1. /\ job'[n] = job[n] /\ want'[n] = want[n] /\ accepted'[n] = accepted[n]
      /\ redone'[n] = redone[n] /\ copies'[n] = copies[n] /\ queued'[n] = queued[n]
  BY Zenon DEF OthersKept
<1>2. Good(n)
  BY Zenon
<1>3. Carries(n)'
  BY <1>1, <1>2 DEF Good, Carries, At
<1>4. \A a : Held(n, a)' = Held(n, a)
  BY <1>1, SetsKept, Zenon DEF Held
<1>5. Holds(n)'
  BY <1>1, <1>2, <1>4, Zenon DEF Good, Holds, Served, At
<1>6. \A a \in Account : Counts(n, a)'
  BY <1>1, <1>2, Zenon DEF Good, Counts, Pending, At
<1> QED BY <1>3, <1>5, <1>6, Zenon DEF Good

\* A connection that ends before it files, with an answer of 4xx or 5xx.
LEMMA EndUnfiled ==
    ASSUME Shape, conf' = conf, dest' = dest, NEW m \in Mail, Good(m), At(m, "check"),
           Reject(m) \/ TryLater(m), UNCHANGED <<redone, copies, queued>>
    PROVE  Good(m)'
<1>1. job'[m] = NoJob /\ accepted' = accepted
  BY Zenon DEF Reject, TryLater, Hangup, Shape
<1>2. At(m, "idle")' /\ ~At(m, "check")' /\ ~At(m, "file")' /\ ~At(m, "reply")'
  <2>1. NoJob.pc = "idle"
    BY DEF NoJob
  <2>2. job'[m].pc = "idle"
    BY <1>1, <2>1, Zenon
  <2> QED BY <2>2, Zenon DEF At
<1>3. \A a : Held(m, a)' = Held(m, a)
  BY SetsKept, Zenon DEF Held
<1>4. Carries(m)' /\ Holds(m)'
  BY <1>1, <1>2, <1>3, Zenon DEF Good, Carries, Holds, Served
<1>5. \A a \in Account : Counts(m, a)'
  BY <1>2, Zenon DEF Good, Counts, Pending
<1> QED BY <1>4, <1>5, Zenon DEF Good

\* A connection that ends after it has filed, with an answer of 4xx or none.
LEMMA EndRedone ==
    ASSUME Shape, conf' = conf, dest' = dest, NEW m \in Mail, Good(m), Redo(m),
           copies' = copies, queued[m] => queued'[m]
    PROVE  Good(m)'
<1>1. job'[m] = NoJob /\ accepted' = accepted /\ redone'[m] = redone[m] + 1 /\ redone[m] \in Nat
  BY Zenon DEF Redo, TryLater, Hangup, Shape
<1>2. At(m, "idle")' /\ ~At(m, "check")' /\ ~At(m, "file")' /\ ~At(m, "reply")'
  <2>1. NoJob.pc = "idle"
    BY DEF NoJob
  <2>2. job'[m].pc = "idle"
    BY <1>1, <2>1, Zenon
  <2> QED BY <2>2, Zenon DEF At
<1>3. \A a : Held(m, a)' = Held(m, a)
  BY SetsKept, Zenon DEF Held
<1>4. Carries(m)' /\ Holds(m)'
  BY <1>1, <1>2, <1>3, Zenon DEF Good, Carries, Holds, Served
<1>5. ASSUME NEW a \in Account PROVE Counts(m, a)'
  BY <1>1 DEF Good, Counts, Shape
<1> QED BY <1>4, <1>5, Zenon DEF Good

\* The message is accepted: all the accounts of its recipients have it.
LEMMA EndAccepted ==
    ASSUME Shape, conf' = conf, dest' = dest, NEW m \in Mail, Good(m), At(m, "reply"), Accept(m),
           copies' = copies, queued' = [queued EXCEPT ![m] = @ \/ job[m].remote # {}]
    PROVE  Good(m)'
<1>1. /\ job'[m] = NoJob /\ accepted'[m] = accepted[m] \cup job[m].rcpts
      /\ queued'[m] = (queued[m] \/ job[m].remote # {}) /\ redone[m] \in Nat
      /\ redone'[m] = redone[m] + (IF want'[m] = {} THEN 0 ELSE 1)
  BY Zenon DEF Accept, Hangup, Shape
<1>2. At(m, "idle")' /\ ~At(m, "check")' /\ ~At(m, "file")' /\ ~At(m, "reply")' /\ ~At(m, "idle")
  BY <1>1 DEF At, NoJob
<1>3. \A a : Held(m, a)' = Held(m, a)
  BY SetsKept, Zenon DEF Held
<1>4. ASSUME NEW r \in accepted'[m] PROVE Served(m, r)'
  <2>1. CASE r \in accepted[m]
    BY <1>1, <1>3, <2>1, Zenon DEF Good, Holds, Served
  <2>2. CASE r \in job[m].rcpts
    <3>1. dest[r].local \subseteq job[m].accts /\ dest[r].remote \subseteq job[m].remote /\ ~Empty(dest[r])
      BY <1>2, <2>2, Zenon DEF Good, Carries
    <3>2. \A a \in dest[r].local \cap Account : Held(m, a)
      BY <3>1, Zenon DEF Good, Holds
    <3> QED BY <1>1, <1>3, <3>1, <3>2, Zenon DEF Served
  <2> QED BY <1>1, <1>4, <2>1, <2>2, Zenon
<1>5. Carries(m)' /\ Holds(m)'
  BY <1>2, <1>4, Zenon DEF Carries, Holds
<1>6. ASSUME NEW a \in Account PROVE Counts(m, a)'
  BY <1>1, <1>2 DEF Good, Counts, Pending, Shape
<1> QED BY <1>5, <1>6, Zenon DEF Good

\* A new connection: what has been filed of the message is accounted for.
LEMMA EnvelopeGood ==
    ASSUME Shape, conf' = conf, dest' = dest, NEW m \in Mail, Good(m), Envelope(m)
    PROVE  Good(m)'
<1>1. PICK T \in SUBSET want[m] :
          LET ok == {r \in want[m] \ T : ~Refused(r)}
          IN /\ want' = [want EXCEPT ![m] = T \cup ok]
             /\ job' = IF ok = {} THEN job
                       ELSE [job EXCEPT ![m] =
                               [NoJob EXCEPT !.pc = "check", !.rcpts = ok,
                                  !.accts = UNION {dest[r].local : r \in ok},
                                  !.remote = UNION {dest[r].remote : r \in ok}]]
  BY Zenon DEF Envelope
<1> DEFINE ok == {r \in want[m] \ T : ~Refused(r)}
<1>2. /\ At(m, "idle") /\ want[m] # {} /\ UNCHANGED <<copies, queued, accepted, redone>>
  BY Zenon DEF Envelope, filed
<1>3. \A a \in Account : Len(copies[m][a]) <= redone[m]
  BY <1>2, Zenon DEF Good, Counts, Pending
<1>4. \A a \in Account : Counts(m, a)'
  BY <1>2, <1>3, Zenon DEF Good, Counts
<1>5. \A a : Held(m, a)' = Held(m, a)
  BY <1>2, SetsKept, Zenon DEF Held
<1>6. \A r \in accepted'[m] : Served(m, r)'
  BY <1>2, <1>5, Zenon DEF Good, Holds, Served
<1>7. CASE ok = {}
  <2>1. job' = job
    BY <1>1, <1>7, Zenon
  <2> QED BY <1>2, <1>4, <1>6, <2>1, Zenon DEF Good, Carries, Holds, At
<1>8. CASE ok # {}
  <2>1. /\ job'[m].pc = "check" /\ job'[m].rcpts = ok
        /\ job'[m].accts = UNION {dest[r].local : r \in ok}
        /\ job'[m].remote = UNION {dest[r].remote : r \in ok}
    BY <1>1, <1>8, Zenon DEF NoJob, Shape
  <2>2. \A r \in ok : ~Empty(dest[r])
    BY Zenon DEF Refused
  <2>3. ~At(m, "file")' /\ ~At(m, "reply")'
    BY <2>1, Zenon DEF At
  <2>4. Carries(m)'
    BY <2>1, <2>2, Zenon DEF Carries
  <2> QED BY <1>4, <1>6, <2>3, <2>4, Zenon DEF Good, Holds
<1> QED BY <1>7, <1>8, Zenon

\* A connection that goes on with the recipients it has.
GoesOn(m, pc) ==
    /\ ~At(m, "idle") /\ At(m, pc)' /\ UNCHANGED <<want, accepted, redone, queued>>
    /\ job'[m].rcpts = job[m].rcpts /\ job'[m].accts = job[m].accts
    /\ job'[m].remote = job[m].remote

\* Then it is enough to look at the copies.
LEMMA GoesOnGood ==
    ASSUME conf' = conf, dest' = dest, NEW m \in Mail, Good(m),
           NEW pc \in {"file", "reply"}, GoesOn(m, pc),
           \A a \in Account : Held(m, a) => Held(m, a)',
           \A a \in job[m].accts \cap Account :
              \/ Held(m, a)'
              \/ pc = "file" /\ (a \in job'[m].todo \/ job'[m].failed),
           \A a \in Account :
              /\ Len(copies'[m][a]) <= 1 + redone[m]
              /\ pc = "file" /\ a \in job'[m].todo => Len(copies'[m][a]) <= redone[m]
    PROVE  Good(m)'
<1>1. Carries(m)'
  BY DEF Good, GoesOn, Carries
<1>2. \A r \in accepted'[m] : Served(m, r)'
  BY Zenon DEF Good, GoesOn, Holds, Served
<1>3. /\ (At(m, "file"))' <=> pc = "file"
      /\ (At(m, "reply"))' <=> pc = "reply"
      /\ ~At(m, "idle")' /\ ~At(m, "check")'
  BY Zenon DEF GoesOn, At
<1>4. Holds(m)'
  BY <1>2, <1>3, Zenon DEF Holds, GoesOn
<1>5. \A a \in Account : Counts(m, a)'
  BY <1>3, Zenon DEF Counts, Pending, GoesOn
<1> QED BY <1>1, <1>4, <1>5, Zenon DEF Good

\* The screening: the connection ends, or turns to the accounts.
LEMMA ScreenGood ==
    ASSUME Shape, conf' = conf, dest' = dest, NEW m \in Mail, Good(m), Screen(m)
    PROVE  Good(m)'
<1>1. At(m, "check") /\ UNCHANGED <<redone, copies, queued>>
  BY Zenon DEF Screen, filed
<1>2. CASE Reject(m) \/ TryLater(m)
  BY <1>1, <1>2, EndUnfiled, Zenon
<1>3. CASE /\ job' = [job EXCEPT ![m].pc = "file", ![m].todo = job[m].accts,
                             ![m].folder = IF mail[m].dmarc = "quarantine"
                                           THEN "Junk" ELSE "INBOX"]
           /\ UNCHANGED <<want, accepted, faults>>
  <2>1. GoesOn(m, "file") /\ job'[m].todo = job[m].accts
    BY <1>1, <1>3 DEF GoesOn, At, Shape, Job
  <2>2. \A a \in Account : Len(copies[m][a]) <= redone[m] /\ Len(copies[m][a]) <= 1 + redone[m]
    BY <1>1, Zenon DEF Good, Counts, Pending
  <2>3. \A a : Held(m, a)' = Held(m, a)
    BY <1>1, SetsKept, Zenon DEF Held
  <2> QED BY <1>1, <2>1, <2>2, <2>3, GoesOnGood, Zenon
<1> QED BY <1>2, <1>3, Zenon DEF Screen

\* One account: a copy is filed, or not wanted, or the delivery has failed.
LEMMA FileGood ==
    ASSUME Shape, conf' = conf, dest' = dest, NEW m \in Mail, Good(m), NEW a \in Account,
           File(m, a) \/ FileUnfiltered(m, a) \/ FileFails(m, a)
    PROVE  Good(m)'
<1>1. /\ At(m, "file") /\ a \in job[m].todo
      /\ UNCHANGED <<want, accepted, redone, queued>>
  BY Zenon DEF File, FileUnfiltered, FileFails, filed
<1>2. /\ GoesOn(m, "file") /\ job'[m].todo = job[m].todo \ {a}
      /\ job'[m].failed \in {job[m].failed, TRUE}
      /\ FileFails(m, a) => job'[m].failed
  <2>1. PICK f \in {job[m].failed, TRUE} :
            /\ job' = [job EXCEPT ![m] = [job[m] EXCEPT !.todo = @ \ {a}, !.failed = f]]
            /\ FileFails(m, a) => f = TRUE
    BY Zenon DEF File, FileUnfiltered, FileFails, Shape, Job
  <2> QED BY <1>1, <2>1, Zenon DEF GoesOn, At, Shape, Job
<1>3. \/ UNCHANGED copies /\ (Drops(a) \/ FileFails(m, a))
      \/ \E folder : Place(m, a, folder)
  BY Zenon DEF File, FileUnfiltered, FileFails, filed
<1>4. /\ \A b \in Account \ {a} : copies'[m][b] = copies[m][b]
      /\ \/ copies'[m][a] = copies[m][a] /\ (Drops(a) \/ FileFails(m, a))
         \/ copies'[m][a] # <<>> /\ Len(copies'[m][a]) = Len(copies[m][a]) + 1
  BY <1>3, PlaceShape, Zenon
<1>5. \A b : Drops(b)' = Drops(b)
  BY SetsKept, Zenon
<1>6. \A b \in Account : Held(m, b) => Held(m, b)'
  BY <1>4, <1>5, Zenon DEF Held
<1>7. ASSUME NEW b \in job[m].accts \cap Account
      PROVE  Held(m, b)' \/ b \in job'[m].todo \/ job'[m].failed
  <2>1. CASE b = a
    BY <1>2, <1>4, <1>5, <2>1, Zenon DEF Held
  <2>2. CASE b # a
    <3>1. b \in job[m].todo \/ job[m].failed \/ Held(m, b)
      BY <1>1, Zenon DEF Good, Holds
    <3> QED BY <1>2, <1>6, <2>2, <3>1, Zenon
  <2> QED BY <2>1, <2>2, Zenon
<1>8. ASSUME NEW b \in Account
      PROVE  /\ Len(copies'[m][b]) <= 1 + redone[m]
             /\ b \in job'[m].todo => Len(copies'[m][b]) <= redone[m]
  <2>1. /\ Len(copies[m][b]) <= 1 + redone[m] /\ Len(copies[m][b]) \in Nat /\ redone[m] \in Nat
        /\ b \in job[m].todo => Len(copies[m][b]) <= redone[m]
    BY <1>1, Zenon DEF Good, Counts, Pending, Shape
  <2>2. CASE b = a
    BY <1>1, <1>2, <1>4, <2>1, <2>2, SMTT(20)
  <2>3. CASE b # a
    BY <1>2, <1>4, <2>1, <2>3, Zenon
  <2> QED BY <2>2, <2>3, Zenon
<1> QED BY <1>2, <1>6, <1>7, <1>8, GoesOnGood, Zenon

\* All accounts done: nothing has failed, or the connection ends.
LEMMA FiledGood ==
    ASSUME Shape, conf' = conf, dest' = dest, NEW m \in Mail, Good(m), Filed(m)
    PROVE  Good(m)'
<1>1. At(m, "file") /\ job[m].todo = {} /\ UNCHANGED <<copies, queued>>
  BY Zenon DEF Filed, filed
<1>2. CASE Redo(m)
  BY <1>1, <1>2, EndRedone, Zenon
<1>3. CASE ~job[m].failed
  <2>1. GoesOn(m, "reply")
    BY <1>1, <1>3 DEF Filed, GoesOn, At, Shape, Job
  <2>2. \A a : Held(m, a)' = Held(m, a)
    BY <1>1, SetsKept, Zenon DEF Held
  <2>3. \A a \in job[m].accts \cap Account : Held(m, a)
    BY <1>1, <1>3, Zenon DEF Good, Holds
  <2>4. \A a \in Account : Len(copies[m][a]) <= 1 + redone[m]
    BY Zenon DEF Good, Counts
  <2> QED BY <1>1, <2>1, <2>2, <2>3, <2>4, GoesOnGood, Zenon
<1> QED BY <1>2, <1>3, Zenon DEF Filed

\* A vacation reply concerns neither copies nor recipients.
LEMMA ReplyGood ==
    ASSUME Shape, conf' = conf, dest' = dest, NEW m \in Mail, Good(m), NEW a \in Account, Reply(m, a)
    PROVE  Good(m)'
<1>1. At(m, "reply") /\ UNCHANGED <<want, copies, queued, accepted, redone>>
      /\ job' = [job EXCEPT ![m].todo = @ \ {a}]
  BY Zenon DEF Reply
<1>2. GoesOn(m, "reply")
  BY <1>1 DEF GoesOn, At, Shape, Job
<1>3. \A b : Held(m, b)' = Held(m, b)
  BY <1>1, SetsKept, Zenon DEF Held
<1>4. \A b \in job[m].accts \cap Account : Held(m, b)
  BY <1>1, Zenon DEF Good, Holds
<1>5. \A b \in Account : Len(copies[m][b]) <= 1 + redone[m]
  BY Zenon DEF Good, Counts
<1> QED BY <1>1, <1>2, <1>3, <1>4, <1>5, GoesOnGood, Zenon

\* A restart ends every connection.
LEMMA RestartGood ==
    ASSUME Shape, conf' = conf, dest' = dest, NEW m \in Mail, Good(m), Restart
    PROVE  Good(m)'
<1>1. /\ UNCHANGED <<want, copies, queued, accepted>> /\ redone[m] \in Nat
      /\ redone'[m] = redone[m] + (IF job[m].pc \in {"file", "reply"} THEN 1 ELSE 0)
      /\ job'[m] = NoJob /\ job[m].pc \in {"idle", "check", "file", "reply"}
  BY Zenon DEF Restart, Shape, Job
<1>2. At(m, "idle")' /\ ~At(m, "check")' /\ ~At(m, "file")' /\ ~At(m, "reply")'
  <2>1. NoJob.pc = "idle"
    BY DEF NoJob
  <2>2. job'[m].pc = "idle"
    BY <1>1, <2>1, Zenon
  <2> QED BY <2>2, Zenon DEF At
<1>3. \A a : Held(m, a)' = Held(m, a)
  BY <1>1, SetsKept, Zenon DEF Held
<1>4. Carries(m)' /\ Holds(m)'
  BY <1>1, <1>2, <1>3, Zenon DEF Good, Carries, Holds, Served
<1>5. ASSUME NEW a \in Account PROVE Counts(m, a)'
  <2>1. Len(copies[m][a]) \in Nat
    BY Zenon DEF Shape
  <2> QED BY <1>1, <1>2, <2>1 DEF Good, Counts, Pending, At
<1> QED BY <1>4, <1>5, Zenon DEF Good

-----------------------------------------------------------------------------
(* Vacation replies.                                                       *)

\* A reply is queued for a sender the suppressor did not hold, and then does.
LEMMA ReplyStep ==
    ASSUME Shape, ReplyInv, mail' = mail, NEW m \in Mail, NEW a \in Account, Reply(m, a)
    PROVE  ReplyInv'
<1> DEFINE f == mail[m].from
<1>0. f \in Sender
  BY MailTyped, Zenon DEF Shape
<1>1. CASE UNCHANGED replies /\ seen' \in {seen, [seen EXCEPT ![a] = @ \cup {f}]}
  <2>1. \A b \in Account : seen[b] \subseteq seen'[b]
    BY <1>1, Zenon DEF Shape
  <2> QED BY <1>1, <2>1, Zenon DEF ReplyInv, Suppressed
<1>2. CASE /\ f \notin seen[a] /\ seen' = [seen EXCEPT ![a] = @ \cup {f}]
           /\ replies' = [replies EXCEPT ![a][f] = @ + 1]
  <2>1. replies[a][f] = 0
    BY <1>0, <1>2, Zenon DEF ReplyInv, Suppressed
  <2>2. replies'[a][f] = 1 /\ f \in seen'[a]
    BY <1>0, <1>2, <2>1 DEF Shape
  <2>3. ASSUME NEW b \in Account, NEW s \in Sender, ~(b = a /\ s = f)
        PROVE  replies'[b][s] = replies[b][s] /\ (s \in seen'[b] <=> s \in seen[b])
    BY <1>0, <1>2, <2>3, Zenon DEF Shape
  <2> QED BY <2>2, <2>3 DEF ReplyInv, Suppressed
<1>3. \/ UNCHANGED replies /\ seen' \in {seen, [seen EXCEPT ![a] = @ \cup {f}]}
      \/ /\ f \notin seen[a] /\ seen' = [seen EXCEPT ![a] = @ \cup {f}]
         /\ replies' = [replies EXCEPT ![a][f] = @ + 1]
  BY Zenon DEF Reply, Replies, Allow
<1> QED BY <1>1, <1>2, <1>3, Zenon

\* The end of a window for one sender, or for all of them.
LEMMA WindowStep ==
    ASSUME Shape, ReplyInv, NEW a, NEW s,
           (a \in Account /\ s \in Sender /\ SuppressionEnds(a, s)) \/ Restart
    PROVE  ReplyInv'
<1>1. CASE Restart
  BY <1>1 DEF Restart, ReplyInv, Suppressed
<1>2. CASE a \in Account /\ s \in Sender /\ SuppressionEnds(a, s)
  <2>1. replies'[a][s] = 0
    BY <1>2, Zenon DEF SuppressionEnds, Shape
  <2>2. ASSUME NEW b \in Account, NEW t \in Sender, ~(b = a /\ t = s)
        PROVE  replies'[b][t] = replies[b][t] /\ (t \in seen'[b] <=> t \in seen[b])
    BY <1>2, <2>2, Zenon DEF SuppressionEnds, Shape
  <2> QED BY <2>1, <2>2 DEF ReplyInv, Suppressed
<1> QED BY <1>1, <1>2, Zenon

-----------------------------------------------------------------------------
(* The theorems.                                                           *)

\* The initial state satisfies the invariant.
LEMMA ReceiveInit == Init => ReceiveInv
<1> SUFFICES ASSUME Init PROVE ReceiveInv
  BY Zenon
<1>1. Shape
  BY ShapeInit, Zenon
<1>2. ASSUME NEW m \in Mail PROVE Good(m)
  <2>1. job[m] = NoJob /\ accepted[m] = {} /\ redone[m] = 0
        /\ \A a \in Account : copies[m][a] = <<>>
    BY Zenon DEF Init
  <2>2. At(m, "idle") /\ ~At(m, "file") /\ ~At(m, "reply")
    BY <2>1 DEF At, NoJob
  <2>3. \A a \in Account : Counts(m, a)
    BY <2>1 DEF Counts
  <2> QED BY <2>1, <2>2, <2>3, Zenon DEF Good, Carries, Holds
<1>3. ReplyInv
  BY DEF Init, ReplyInv, Suppressed
<1> QED BY <1>1, <1>2, <1>3, Zenon DEF ReceiveInv

\* Every step keeps it.
LEMMA ReceiveStep == ReceiveInv /\ [Next]_vars => ReceiveInv'
<1> SUFFICES ASSUME ReceiveInv, [Next]_vars PROVE ReceiveInv'
  BY Zenon
<1>0. conf' = conf /\ dest' = dest /\ mail' = mail /\ Shape /\ ReplyInv /\ \A m \in Mail : Good(m)
  BY WorldKept, Zenon DEF ReceiveInv
<1>1. ASSUME NEW m \in Mail, \/ Envelope(m) \/ Screen(m) \/ Filed(m) \/ Finish(m)
                             \/ ReadFails(m) \/ ForwardFails(m)
      PROVE  ReceiveInv'
  <2>1. UNCHANGED <<seen, replies>>
    BY <1>1, Zenon DEF Envelope, Screen, Filed, Finish, ReadFails, ForwardFails, guards, filed
  <2>2. ASSUME Finish(m) \/ ReadFails(m) \/ ForwardFails(m) PROVE Good(m)'
    <3>1. CASE ReadFails(m)
      BY <1>0, <3>1, EndUnfiled, Zenon DEF ReadFails, filed
    <3>2. CASE Finish(m) /\ Accept(m)
      BY <1>0, <3>2, EndAccepted, Zenon DEF Finish
    <3>3. CASE (Finish(m) \/ ForwardFails(m)) /\ Redo(m)
      <4>1. copies' = copies /\ (queued[m] => queued'[m])
        BY <1>0, <3>3, Zenon DEF Finish, ForwardFails, filed, Shape
      <4> QED BY <1>0, <3>3, <4>1, EndRedone, ZenonT(30)
    <3> QED BY <2>2, <3>1, <3>2, <3>3, Zenon DEF Finish, ForwardFails
  <2>3. Good(m)'
    BY <1>0, <1>1, <2>2, EnvelopeGood, ScreenGood, FiledGood, Zenon
  <2>4. Shape' /\ OthersKept(m)
    BY <1>0, <1>1, ConnectionShape, Zenon
  <2>5. ReplyInv'
    BY <1>0, <2>1, Zenon DEF ReplyInv, Suppressed
  <2> QED BY <1>0, <2>3, <2>4, <2>5, Frame, Zenon DEF ReceiveInv
<1>2. ASSUME NEW m \in Mail, NEW a \in Account,
             File(m, a) \/ FileUnfiltered(m, a) \/ FileFails(m, a) \/ Reply(m, a)
      PROVE  ReceiveInv'
  <2>1. Good(m)'
    BY <1>0, <1>2, FileGood, ReplyGood, Zenon
  <2>2. Shape' /\ OthersKept(m)
    BY <1>0, <1>2, ConnectionShape, Zenon
  <2>3. ReplyInv'
    <3>1. CASE File(m, a) \/ FileUnfiltered(m, a) \/ FileFails(m, a)
      <4>1. UNCHANGED <<seen, replies>>
        BY <3>1, Zenon DEF File, FileUnfiltered, FileFails, guards, filed
      <4> QED BY <1>0, <4>1, Zenon DEF ReplyInv, Suppressed
    <3>2. CASE Reply(m, a)
      BY <1>0, <3>2, ReplyStep, Zenon
    <3> QED BY <1>2, <3>1, <3>2, Zenon
  <2> QED BY <1>0, <2>1, <2>2, <2>3, Frame, Zenon DEF ReceiveInv
<1>3. ASSUME NEW a, NEW s, \/ WindowEnds \/ Restart \/ DelayPasses(s) \/ Sweep(s)
                           \/ a \in Account /\ s \in Sender /\ SuppressionEnds(a, s)
                           \/ UNCHANGED vars
      PROVE  ReceiveInv'
  <2>1. Shape'
    BY <1>0, <1>3, EnvironmentShape, Zenon
  <2>2. CASE Restart
    BY <1>0, <2>1, <2>2, RestartGood, WindowStep, Zenon DEF ReceiveInv
  <2>3. CASE \/ WindowEnds \/ DelayPasses(s) \/ Sweep(s)
             \/ a \in Account /\ s \in Sender /\ SuppressionEnds(a, s)
             \/ UNCHANGED vars
    <3>1. UNCHANGED <<want, job, copies, queued, accepted, redone>>
      BY <2>3, Zenon DEF WindowEnds, DelayPasses, Sweep, SuppressionEnds, vars, world, guards, filed
    <3>2. \A m \in Mail : OthersKept(m) /\ Good(m)'
      BY <1>0, <3>1 DEF OthersKept, Good, Carries, Holds, Served, Held, Drops, Counts, Pending, At
    <3>3. CASE a \in Account /\ s \in Sender /\ SuppressionEnds(a, s)
      BY <1>0, <2>1, <3>2, <3>3, WindowStep, Zenon DEF ReceiveInv
    <3>4. CASE WindowEnds \/ DelayPasses(s) \/ Sweep(s) \/ UNCHANGED vars
      <4>1. UNCHANGED <<seen, replies>>
        BY <3>4, Zenon DEF WindowEnds, DelayPasses, Sweep, vars, guards, filed
      <4> QED BY <1>0, <2>1, <3>2, <4>1, Zenon DEF ReceiveInv, ReplyInv, Suppressed
    <3> QED BY <2>3, <3>3, <3>4, Zenon
  <2> QED BY <1>3, <2>2, <2>3, Zenon
<1> QED BY <1>1, <1>2, <1>3, NextCases, Zenon

\* The invariant holds of every reachable state.
LEMMA ReceiveInvariant == Spec => []ReceiveInv
  BY ReceiveInit, ReceiveStep, PTL DEF Spec

\* However often a message is offered and whatever fails, an account has at most one
\* copy more than there were connections that filed and left recipients on offer
\* (Data's one answer for all recipients).
THEOREM CopiesAccounted == Spec => []CopiesExplained
<1>1. ReceiveInv => CopiesExplained
  BY Zenon DEF ReceiveInv, Good, Counts, CopiesExplained
<1> QED BY <1>1, ReceiveInvariant, PTL

\* An account sends a sender at most one vacation reply in a window, with any number
\* of messages in any number of connections (Suppressor.Allow records the attempt
\* under its lock before the reply is queued).
THEOREM RepliesBounded == Spec => []OneReplyPerWindow
<1>1. ReceiveInv => OneReplyPerWindow
  BY Zenon DEF ReceiveInv, ReplyInv, Suppressed, OneReplyPerWindow
<1> QED BY <1>1, ReceiveInvariant, PTL

\* The search of resolveDestinations finds what the aliases lead to.
Resolves ==
    Cardinality(DOMAIN conf.alias) <= MaxAliasDepth =>
    \A r \in Recipient : ~Empty(dest[r]) =>
        /\ dest[r].local = Reachable(conf.alias, r, MaxAliasDepth) \cap Account
        /\ dest[r].remote = Reachable(conf.alias, r, MaxAliasDepth) \ Account

\* Where resolution finds what the aliases lead to, accepted mail is in the server's
\* hands: a copy with every account that does not discard it, and the rest queued
\* (Data answers 250 only after every delivery and the enqueue have succeeded).
THEOREM AcceptedKept == Spec => [](Resolves => AcceptedIsPlaced)
<1>1. ReceiveInv /\ Resolves => AcceptedIsPlaced
  <2> SUFFICES ASSUME ReceiveInv, Resolves, Cardinality(DOMAIN conf.alias) <= MaxAliasDepth,
                      NEW m \in Mail
               PROVE  /\ \A a \in Leads(m) \cap Account : Drops(a) \/ copies[m][a] # <<>>
                      /\ Leads(m) \ Account # {} => queued[m]
    BY Zenon DEF AcceptedIsPlaced
  <2>1. ASSUME NEW x \in Leads(m)
        PROVE  \E r \in accepted[m] : Served(m, r) /\ (x \in Account => x \in dest[r].local)
                                       /\ (x \notin Account => dest[r].remote # {})
    <3>1. PICK r \in accepted[m] : x \in Reachable(conf.alias, r, MaxAliasDepth)
      BY <2>1, Zenon DEF Leads
    <3>2. r \in Recipient /\ Served(m, r)
      BY <3>1, Zenon DEF ReceiveInv, Shape, Good, Holds
    <3>3. /\ dest[r].local = Reachable(conf.alias, r, MaxAliasDepth) \cap Account
          /\ dest[r].remote = Reachable(conf.alias, r, MaxAliasDepth) \ Account
      BY <3>2, Zenon DEF Resolves, Served
    <3> QED BY <3>1, <3>2, <3>3, Zenon
  <2>2. \A a \in Leads(m) \cap Account : Drops(a) \/ copies[m][a] # <<>>
    BY <2>1, Zenon DEF Served, Held
  <2>3. Leads(m) \ Account # {} => queued[m]
    BY <2>1, Zenon DEF Served
  <2> QED BY <2>2, <2>3, Zenon
<1> QED BY <1>1, ReceiveInvariant, PTL

-----------------------------------------------------------------------------
(* Sender rewriting.                                                       *)

\* The two characters of a stamp give the day back.
LEMMA StampDay ==
  ASSUME NEW t \in Nat
  PROVE  /\ t \div Day \in Nat
         /\ Stamp(t)[2] * 32 + Stamp(t)[3] = (t \div Day) % Wrap
         /\ t = (t \div Day) * Day + (t % Day) /\ t % Day \in 0 .. Day - 1
<1> DEFINE d == (t \div Day) % Wrap
<1>1. t \div Day \in Nat /\ t = (t \div Day) * Day + (t % Day) /\ t % Day \in 0 .. Day - 1
  BY DEF Day
<1>2. d \in 0 .. 1023
  BY <1>1 DEF Wrap
<1>3. (d \div 32) * 32 + (d % 32) = d
  BY <1>2
<1>4. Stamp(t)[2] = d \div 32 /\ Stamp(t)[3] = d % 32
  BY Zenon DEF Stamp
<1> QED BY <1>1, <1>3, <1>4, Zenon

\* Whole turns of the stamp leave no trace in it.
LEMMA WholeWraps ==
  ASSUME NEW q \in Nat, NEW k \in 0 .. Wrap - 1
  PROVE  (q * Wrap + k) % Wrap = k
  BY DEF Wrap

\* Up to the wrap of the stamp, the age of an address is the time since it was
\* made, counted from the midnight before (decodeAge).
LEMMA AgeExact ==
  ASSUME NEW t \in Nat, NEW d \in Nat, d < (Wrap - 1) * Day
  PROVE  Age(Stamp(t), t + d) = d + (t % Day) /\ t % Day \in 0 .. Day - 1
<1> DEFINE then == t \div Day
           today == (t + d) \div Day
<1>1. then \in Nat /\ t = then * Day + (t % Day) /\ t % Day \in 0 .. Day - 1
  BY StampDay, Zenon
<1>2. today \in Nat /\ t + d = today * Day + ((t + d) % Day) /\ (t + d) % Day \in 0 .. Day - 1
  BY DEF Day
<1>3. today - then \in 0 .. Wrap - 1
  BY <1>1, <1>2, SMTT(20) DEF Day, Wrap
<1>4. (today - (then % Wrap)) % Wrap = today - then
  <2>1. PICK q \in Nat : then = q * Wrap + (then % Wrap)
    <3>1. then = (then \div Wrap) * Wrap + (then % Wrap) /\ then \div Wrap \in Nat
      BY <1>1 DEF Wrap
    <3> QED BY <3>1, Zenon
  <2>2. today - (then % Wrap) = q * Wrap + (today - then)
    BY <1>1, <1>2, <2>1 DEF Wrap
  <2> QED BY <1>3, <2>1, <2>2, WholeWraps, Zenon
<1>5. Stamp(t)[2] * 32 + Stamp(t)[3] = then % Wrap
  BY StampDay, Zenon
<1>6. Age(Stamp(t), t + d) = (t + d) - then * Day
  <2>1. Age(Stamp(t), t + d) = (t + d) - (today - (today - then)) * Day
    <3>1. Age(Stamp(t), t + d)
             = (t + d) - (today - ((today - (Stamp(t)[2] * 32 + Stamp(t)[3])) % Wrap)) * Day
      BY Zenon DEF Age
    <3> QED BY <1>4, <1>5, <3>1, Zenon
  <2> QED BY <1>1, <1>2, <2>1 DEF Day
<1> QED BY <1>1, <1>6 DEF Day

\* The end of a sequence.
LEMMA Suffix ==
  ASSUME NEW T, NEW s \in Seq(T), NEW u \in Seq(T), NEW n \in Nat, Len(s) = Len(u) + n,
         \A i \in 1 .. Len(u) : s[i + n] = u[i]
  PROVE  SubSeq(s, n + 1, Len(s)) = u
  OBVIOUS

\* What Decode finds in an address made by Encode.
LEMMA Unpacked ==
  ASSUME NEW S, NEW local \in Seq(S), local # <<>>, NEW domain, NEW t \in Nat
  PROVE  LET e == Encode(Address(local, domain), t).local
             payload == <<Stamp(t), domain>> \o local
         IN /\ Len(e) >= 5 /\ Head(e) = "SRS0"
            /\ e[2] = Hash(payload) /\ e[3] = Stamp(t) /\ e[4] = domain
            /\ SubSeq(e, 3, Len(e)) = payload
            /\ SubSeq(e, 5, Len(e)) = local
<1> DEFINE payload == <<Stamp(t), domain>> \o local
           e == Encode(Address(local, domain), t).local
           T == S \cup {Stamp(t), domain, "SRS0", Hash(payload)}
<1>1. e = <<"SRS0", Hash(payload)>> \o payload
  BY Zenon DEF Encode, Address
<1>2. local \in Seq(T) /\ Len(local) \in Nat /\ Len(local) > 0
  <2>1. \A i \in 1 .. Len(local) : local[i] \in T
    OBVIOUS
  <2> QED BY <2>1
<1>3. payload \in Seq(T) /\ Len(payload) = Len(local) + 2
      /\ payload[1] = Stamp(t) /\ payload[2] = domain
      /\ \A i \in 1 .. Len(local) : payload[i + 2] = local[i]
  <2>1. <<Stamp(t), domain>> \in Seq(T)
    OBVIOUS
  <2> QED BY <1>2, <2>1
<1> HIDE DEF payload
<1>4. e \in Seq(T) /\ Len(e) = Len(payload) + 2
      /\ e[1] = "SRS0" /\ e[2] = Hash(payload)
      /\ \A i \in 1 .. Len(payload) : e[i + 2] = payload[i]
  <2>1. <<"SRS0", Hash(payload)>> \in Seq(T)
    OBVIOUS
  <2> QED BY <1>1, <1>3, <2>1
<1> HIDE DEF e
<1>5. Len(e) = Len(local) + 4 /\ e[3] = Stamp(t) /\ e[4] = domain
      /\ \A i \in 1 .. Len(local) : e[i + 4] = local[i]
  BY <1>2, <1>3, <1>4
<1>6. SubSeq(e, 3, Len(e)) = payload
  BY <1>2, <1>3, <1>4
<1>7. SubSeq(e, 5, Len(e)) = local
  <2>1. SubSeq(e, 4 + 1, Len(e)) = local
    BY <1>2, <1>4, <1>5, Suffix
  <2> QED BY <2>1
<1>8. Len(e) >= 5 /\ Head(e) = "SRS0"
  BY <1>2, <1>4, <1>5
<1> QED BY <1>4, <1>5, <1>6, <1>7, <1>8, Zenon DEF e, payload

\* A bounce finds its way back to the sender, whatever the address and whatever
\* the day, for as long as it may, less the day that the stamp is rounded down
\* by; once it is too old it is refused, until the stamp wraps (Encode, Decode).
THEOREM RoundTrip ==
  ASSUME NEW S, NEW local \in Seq(S), local # <<>>, NEW domain, MaxAge > 0,
         NEW t \in Nat, NEW d \in Nat, d < (Wrap - 1) * Day
  PROVE  LET back == Decode(Encode(Address(local, domain), t), t + d)
         IN /\ d <= MaxAge - Day => back = Address(local, domain)
            /\ d > MaxAge => back = SrsError
<1> DEFINE a == Encode(Address(local, domain), t)
           payload == <<Stamp(t), domain>> \o local
           age == Age(Stamp(t), t + d)
<1>1. /\ Len(a.local) >= 5 /\ Head(a.local) = "SRS0"
      /\ a.local[2] = Hash(payload) /\ a.local[3] = Stamp(t) /\ a.local[4] = domain
      /\ SubSeq(a.local, 3, Len(a.local)) = payload
      /\ SubSeq(a.local, 5, Len(a.local)) = local
  BY Unpacked, ZenonT(30)
<1> HIDE DEF a, payload
<1>2. Len(a.local) > 1 /\ ~(Len(a.local) < 5)
  <2>1. Len(a.local) \in Nat
    BY <1>1 DEF a, Encode, Address
  <2> QED BY <1>1, <2>1
<1>3. Decode(a, t + d) = IF MaxAge > 0 /\ age > MaxAge THEN SrsError ELSE Address(local, domain)
  BY <1>1, <1>2, Zenon DEF Decode, Is
<1>4. age = d + (t % Day) /\ t % Day \in 0 .. Day - 1
  BY AgeExact, ZenonT(30)
<1>5. (d <= MaxAge - Day => ~(age > MaxAge)) /\ (d > MaxAge => age > MaxAge)
  BY <1>4, SrsAssumption DEF Day
<1> QED BY <1>3, <1>5, Zenon DEF a
=============================================================================
