------------------------ MODULE MigrationCopies_proofs ------------------------
(***************************************************************************)
(* Proofs about Migration, continued: every duplicate of a row has its     *)
(* cause.                                                                  *)
(***************************************************************************)
EXTENDS Migration_proofs, FiniteSetTheorems

-----------------------------------------------------------------------------
(* The invariant that counts copies.                                       *)

\* Collection j comes after k in the second pass.
Later(k, j) ==
    \/ k = "mailboxes" /\ j # "mailboxes"
    \/ k = "messages" /\ j \in {"rules", "expunge_log"}
    \/ k = "rules" /\ j = "expunge_log"

\* Process p may yet come to row r of collection k; it is about to insert it; it
\* has inserted it or found it there.
Ahead(p, k, r) ==
    \/ pc[p] = "find" /\ (k = loc[p].k \/ Later(loc[p].k, k)) /\ r \in legacy[k]
    \/ pc[p] \in Working /\ Later(loc[p].k, k) /\ r \in legacy[k]
    \/ pc[p] \in {"scan", "row"} /\ k = loc[p].k /\ r \in loc[p].todo
    \/ pc[p] \in {"insert", "delete"} /\ k = loc[p].k /\ r \in loc[p].todo \ {Hand(p)}
Inserting(p, k, r) == pc[p] = "insert" /\ k = loc[p].k /\ r = Hand(p)
Deleting(p, k, r) == pc[p] = "delete" /\ k = loc[p].k /\ r = Hand(p)

\* Row r of a collection with a key has a document that a look-up finds.
Found(k, r) == Legacy[k][r].acct # 0 => Present(k, Legacy[k][r].acct, r)

\* As things stand process p will insert row r.
Will(p, k, r) ==
    IF Keyed(k) THEN Inserting(p, k, r) \/ (Ahead(p, k, r) /\ ~Found(k, r)) ELSE Ahead(p, k, r)

One(b) == IF b THEN 1 ELSE 0

\* The copies of row r and the inserts to come are accounted for.  A row without a
\* key that is still in the shared collection has a copy only for the process that
\* is about to delete it, for a repeated insert or for a death in between.
Count(k, r) ==
    /\ IsFiniteSet(CopyIds(k, r))
    /\ Copies(k, r) + One(Will("daemon", k, r)) + One(Will("ctl", k, r))
            <= 1 + overlaps + retries + (IF Keyed(k) THEN 0 ELSE torn)
    /\ ~Keyed(k) /\ r \in legacy[k] =>
            Copies(k, r) <= One(Deleting("daemon", k, r)) + One(Deleting("ctl", k, r)) + retries + torn

\* A document of a collection with a key is in the collection of its row's account.
Placed ==
    \A k \in {"mailboxes", "rules"} : \A a \in AcctId : \A i \in Ids(k, a) :
        coll[k][a][i].row \in RowId(k) /\ Legacy[k][coll[k][a][i].row].acct = a

CountInv ==
    /\ Placed
    /\ \A k \in Kind : \A r \in RowId(k) : Count(k, r)
    /\ \A a \in Account : Cardinality(Ids("rules", a)) <= 1

-----------------------------------------------------------------------------
(* What a step does to the copies of a row.                                *)

\* For a collection with a key, a row is found when a document stands for it.
LEMMA FoundStep ==
    ASSUME RowsInv, NEW p \in Proc, Step(p), NEW k \in Kind, Keyed(k), NEW r \in RowId(k), Found(k, r)
    PROVE  Found(k, r)'
<1>1. SUFFICES ASSUME Legacy[k][r].acct # 0
               PROVE  Present(k, Legacy[k][r].acct, r)'
  BY Zenon DEF Found
<1>2. Legacy[k][r].acct \in AcctId
  BY <1>1, ConstantFacts, Zenon
<1>3. Has(k, r)
  BY <1>1, <1>2, Zenon DEF Found, Present, Has, Stands, Keyed
<1>4. Has(k, r)'
  BY <1>1, <1>3, HasStep, Zenon
<1> QED BY <1>4, Zenon DEF Has, Stands, Present, Keyed, NameOf

\* A row that is not found has no copies.
LEMMA NotFound ==
    ASSUME Placed, NEW k \in Kind, Keyed(k), NEW r \in RowId(k), ~Found(k, r)
    PROVE  CopyIds(k, r) = {}
<1> SUFFICES ASSUME NEW d \in CopyIds(k, r) PROVE FALSE
  BY Zenon
<1>1. PICK a \in AcctId : d \in {a} \X Ids(k, a)
  BY Zenon DEF CopyIds
<1>2. d[1] = a /\ d[2] \in Ids(k, a) /\ coll[k][a][d[2]].row = r
  BY <1>1, Zenon DEF CopyIds
<1>3. Legacy[k][r].acct = a
  BY <1>2, ZenonT(30) DEF Placed, Keyed
<1>4. Present(k, a, r)
  BY <1>2, Zenon DEF Present, NameOf
<1> QED BY <1>3, <1>4, Zenon DEF Found

\* Only an insert adds documents; no step changes the row of one.
NoneNew ==
    \A j \in Kind, b \in AcctId : \A i \in Ids(j, b)' :
        i \in Ids(j, b) /\ coll'[j][b][i].row = coll[j][b][i].row

\* A step that only rewrites or deletes documents adds none.
LEMMA RewriteDocs ==
    ASSUME NEW k \in Kind, NEW a \in AcctId, Rewrites(k, a),
           \A i \in DOMAIN coll[k][a] : coll'[k][a][i] # Null =>
               coll[k][a][i] # Null /\ coll'[k][a][i].row = coll[k][a][i].row
    PROVE  NoneNew
<1> SUFFICES ASSUME NEW j \in Kind, NEW b \in AcctId, NEW i \in Ids(j, b)'
             PROVE  i \in Ids(j, b) /\ coll'[j][b][i].row = coll[j][b][i].row
  BY Zenon DEF NoneNew
<1>1. CASE <<j, b>> = <<k, a>>
  BY <1>1, Zenon DEF Rewrites, Ids
<1>2. CASE <<j, b>> # <<k, a>>
  BY <1>2, Zenon DEF Rewrites, Ids
<1> QED BY <1>1, <1>2, Zenon

\* A step adds no document, or inserts the row in hand.
LEMMA DocStep ==
    ASSUME RowsInv, NEW p \in Proc, Step(p)
    PROVE  \/ NoneNew
           \/ /\ InsertRow(p) /\ pc'[p] = "delete"
              /\ Grows(loc[p].k, Dest(p, Hand(p)), HandDoc(p))
<1> DEFINE c == loc["ctl"]
           b == loc["ctl"].acct
<1>0. TypeOK /\ Plan /\ Stage(p)
  BY Zenon DEF RowsInv
<1>1. CASE coll' = coll
  BY <1>1, Zenon DEF NoneNew, Ids
<1>2. CASE Plain(p)
  BY <1>0, <1>1, <1>2, PlainFacts, Zenon
<1>3. CASE DedupeAccount(p) \/ DedupeBox(p)
  BY <1>0, <1>1, <1>3, DedupeAccountFacts, DedupeBoxFacts, Zenon
<1>4. "messages" \in Kind /\ "mailboxes" \in Kind
  BY Zenon DEF Kind
<1>5. CASE DedupeMove(p)
  <2>1. pc["ctl"] = "d_move" /\ (coll' = coll \/ Moves(b, Hand("ctl"), c.pair[1]))
    BY <1>0, <1>5, MoveFacts, Zenon
  <2>2. PICK a \in AcctId : a = b
    BY <1>0, <2>1, DedupeProc, Zenon DEF Deduping, Proc
  <2>3. CASE Moves(a, Hand("ctl"), c.pair[1])
    <3>1. \A i \in DOMAIN coll["messages"][a] : coll'["messages"][a][i] # Null =>
              coll["messages"][a][i] # Null /\ coll'["messages"][a][i].row = coll["messages"][a][i].row
      BY <2>3, Zenon DEF Moves, Ids
    <3> QED BY <1>4, <2>3, <3>1, RewriteDocs, Zenon DEF Moves
  <2> QED BY <1>1, <2>1, <2>2, <2>3, Zenon
<1>6. CASE DedupeEmpty(p)
  <2>1. pc["ctl"] = "d_move" /\ Empties(b, c.pair[2])
    BY <1>0, <1>6, EmptyFacts, Zenon
  <2>2. PICK a \in AcctId : a = b
    BY <1>0, <2>1, DedupeProc, Zenon DEF Deduping, Proc
  <2>3. \A i \in DOMAIN coll["messages"][a] : coll'["messages"][a][i] # Null =>
            coll["messages"][a][i] # Null /\ coll'["messages"][a][i].row = coll["messages"][a][i].row
    BY <2>1, <2>2, Zenon DEF Empties
  <2> QED BY <1>4, <2>1, <2>2, <2>3, RewriteDocs, Zenon DEF Empties
<1>7. CASE DedupeDrop(p)
  <2>1. pc["ctl"] = "d_box" /\ Drops(b, c.pair[2])
    BY <1>0, <1>7, DropFacts, Zenon
  <2>2. PICK a \in AcctId : a = b
    BY <1>0, <2>1, DedupeProc, Zenon DEF Deduping, Proc
  <2>3. \A i \in DOMAIN coll["mailboxes"][a] : coll'["mailboxes"][a][i] # Null =>
            coll["mailboxes"][a][i] # Null /\ coll'["mailboxes"][a][i].row = coll["mailboxes"][a][i].row
    BY <2>1, <2>2, Zenon DEF Drops
  <2> QED BY <1>4, <2>1, <2>2, <2>3, RewriteDocs, Zenon DEF Drops
<1> QED BY <1>2, <1>3, <1>5, <1>6, <1>7, Zenon DEF Step, Dedupe

-----------------------------------------------------------------------------
(* What a process has ahead of it.                                         *)

\* The process in hand has nothing new ahead of it, unless it starts.
LEMMA ContinueAhead ==
    ASSUME TypeOK, NEW p \in Proc, NEW todo, Continue(p, loc[p].k, todo), NEW k \in Kind, NEW r
    PROVE  /\ Ahead(p, k, r)' => \/ Later(loc[p].k, k) /\ r \in legacy'[k]
                                 \/ k = loc[p].k /\ r \in todo
           /\ pc'[p] # "insert"
<1>0. loc[p] \in Local /\ loc[p].k \in Kind
  BY LocalFields, Zenon DEF TypeOK
<1>1. CASE pc'[p] = "drop"
  BY <1>1, Zenon DEF Ahead, Working
<1>2. CASE /\ loc[p].k # "expunge_log" /\ pc'[p] = "find"
           /\ loc'[p] = [Idle EXCEPT !.k = NextKind(loc[p].k)]
  <2>1. loc'[p].k = NextKind(loc[p].k)
    BY <1>2, Zenon DEF Idle
  <2>2. k = NextKind(loc[p].k) \/ Later(NextKind(loc[p].k), k) => Later(loc[p].k, k)
    BY <1>0, <1>2, Zenon DEF Later, NextKind, Kind
  <2> QED BY <1>2, <2>1, <2>2, Zenon DEF Ahead, Working
<1>3. CASE pc'[p] = "row" /\ loc'[p] = [loc[p] EXCEPT !.todo = todo]
  <2>1. loc'[p].k = loc[p].k /\ loc'[p].todo = todo
    BY <1>0, <1>3, Zenon DEF Local
  <2> QED BY <1>3, <2>1, Zenon DEF Ahead, Working
<1> QED BY <1>1, <1>2, <1>3, ContinueFacts, Zenon

\* The process in hand has nothing new ahead of it, unless it starts; it inserts what it did not find.
LEMMA AheadOwn ==
    ASSUME RowsInv, NEW p \in Proc, Step(p), ~Start(p), NEW k \in Kind, NEW r \in RowId(k)
    PROVE  /\ Ahead(p, k, r)' => Ahead(p, k, r)
           /\ Inserting(p, k, r)' => Keyed(k) /\ Ahead(p, k, r) /\ ~Found(k, r)
<1> DEFINE j == loc[p].k
           h == Hand(p)
<1>0. /\ TypeOK /\ Shared /\ Stage(p) /\ Plan
      /\ loc[p] \in Local /\ j \in Kind /\ pc \in [Proc -> Label] /\ loc \in [Proc -> Local]
  BY LocalFields, Zenon DEF RowsInv, TypeOK
<1>1. legacy'[k] \subseteq legacy[k]
  BY <1>0, LegacyStep, Zenon
<1>2. pc'[p] \notin Working \cup {"find"} => ~Ahead(p, k, r)' /\ ~Inserting(p, k, r)'
  BY Zenon DEF Ahead, Inserting, Working
<1>3. CASE Fail(p) \/ Stop(p)
  <2>1. pc'[p] = "down"
    BY <1>0, <1>3, Zenon DEF Fail, Stop, Goto
  <2> QED BY <1>2, <2>1, Zenon DEF Working
<1>4. CASE Dedupe(p)
  <2>1. pc'[p] \in {"down", "up", "d_next", "d_move", "d_box"}
    <3>1. CASE DedupeAccount(p) \/ DedupeBox(p)
      BY <1>0, <3>1, Zenon DEF DedupeAccount, DedupeBox, Goto
    <3>2. CASE DedupeMove(p)
      BY <1>0, <3>2, MoveFacts, Zenon
    <3>3. CASE DedupeEmpty(p)
      BY <1>0, <3>3, EmptyFacts, Zenon
    <3>4. CASE DedupeDrop(p)
      BY <1>0, <3>4, DropFacts, Zenon
    <3> QED BY <1>4, <3>1, <3>2, <3>3, <3>4, Zenon DEF Dedupe
  <2> QED BY <1>2, <2>1, Zenon DEF Working
<1>5. CASE DropLegacy(p)
  <2>1. pc'[p] \in {"drop", "up"}
    BY <1>0, <1>5, Zenon DEF DropLegacy, Goto
  <2> QED BY <1>2, <2>1, Zenon DEF Working
<1>6. CASE FindRows(p)
  <2> DEFINE found == IF j \in dropped THEN {} ELSE legacy[j]
  <2>1. found \subseteq legacy[j]
    BY Zenon
  <2> HIDE DEF found
  <2>2. /\ pc[p] = "find"
        /\ \/ /\ j = "expunge_log" /\ pc'[p] = "scan"
              /\ loc'[p] = [loc[p] EXCEPT !.todo = found, !.accts = Accounts]
           \/ Continue(p, j, found)
    BY <1>0, <1>6, Zenon DEF FindRows, Goto, found
  <2>3. CASE Continue(p, j, found)
    <3>1. /\ Ahead(p, k, r)' => (Later(j, k) /\ r \in legacy'[k]) \/ (k = j /\ r \in found)
          /\ pc'[p] # "insert"
      BY <1>0, <2>3, ContinueAhead, Zenon
    <3> QED BY <1>1, <2>1, <2>2, <3>1, Zenon DEF Ahead, Inserting
  <2>4. CASE /\ j = "expunge_log" /\ pc'[p] = "scan"
             /\ loc'[p] = [loc[p] EXCEPT !.todo = found, !.accts = Accounts]
    <3>1. loc'[p].todo = found /\ loc'[p].k = j
      BY <1>0, <2>4, PutFacts
    <3> QED BY <2>1, <2>2, <2>4, <3>1, Zenon DEF Ahead, Inserting, Later, Working
  <2> QED BY <2>2, <2>3, <2>4, Zenon
<1>7. CASE ScanOwners(p)
  <2>1. pc[p] = "scan" /\ pc'[p] \in {"scan", "row"}
    BY <1>0, <1>7, Zenon DEF ScanOwners, Goto
  <2> DEFINE v == Tail(loc[p].accts)
             w == Owners(p, Head(loc[p].accts))
  <2>2. loc'[p] = loc[p] \/ loc'[p] = [loc[p] EXCEPT !.accts = v, !.owners = w]
    BY <1>0, <1>7, Zenon DEF ScanOwners
  <2> HIDE DEF v, w
  <2>3. loc'[p].todo = loc[p].todo /\ loc'[p].k = loc[p].k
    BY <1>0, <2>2, Zenon DEF Local
  <2> QED BY <1>1, <2>1, <2>3, Zenon DEF Ahead, Inserting, Working
<1>8. CASE SkipRow(p) \/ DeleteRow(p)
  <2>1. /\ pc[p] \in {"row", "delete"}
        /\ pc'[p] = "down" \/ Continue(p, j, loc[p].todo \ {h})
    BY <1>0, <1>8, Zenon DEF SkipRow, DeleteRow, Hand, Goto
  <2>2. CASE pc'[p] = "down"
    BY <1>2, <2>2, Zenon DEF Working
  <2>3. CASE Continue(p, j, loc[p].todo \ {h})
    <3>1. /\ Ahead(p, k, r)' => (Later(j, k) /\ r \in legacy'[k]) \/ (k = j /\ r \in loc[p].todo \ {h})
          /\ pc'[p] # "insert"
      BY <1>0, <2>3, ContinueAhead, Zenon
    <3> QED BY <1>1, <2>1, <3>1, Zenon DEF Ahead, Inserting, Working
  <2> QED BY <2>1, <2>2, <2>3, Zenon
<1>9. CASE LookUp(p)
  <2>1. /\ pc[p] = "row" /\ Dest(p, h) # 0 /\ Keyed(j) /\ loc' = loc
        /\ pc'[p] = IF Present(j, Dest(p, h), h) THEN "delete" ELSE "insert"
    BY <1>0, <1>9, Zenon DEF LookUp, Goto, Hand
  <2>2. h \in loc[p].todo /\ Hand(p)' = h
    BY <1>0, <2>1, HandType, Zenon DEF Working, Hand
  <2>3. Dest(p, h) = Legacy[j][h].acct
    BY <2>1, Zenon DEF Dest, Keyed
  <2>4. Inserting(p, k, r)' => k = j /\ r = h /\ ~Present(j, Dest(p, h), h)
    BY <2>1, <2>2, Zenon DEF Inserting
  <2>5. Inserting(p, k, r)' => ~Found(k, r)
    BY <2>1, <2>3, <2>4, Zenon DEF Found
  <2> QED BY <1>1, <2>1, <2>2, <2>4, <2>5, Zenon DEF Ahead, Working
<1>10. CASE InsertRow(p)
  <2>1. pc[p] \in {"insert", "row"} /\ pc'[p] \in {"down", "delete"} /\ loc' = loc
    BY <1>0, <1>10, InsertFacts, Zenon
  <2>2. Hand(p)' = h
    BY <2>1, Zenon DEF Hand
  <2> QED BY <1>1, <2>1, <2>2, Zenon DEF Ahead, Inserting, Working
<1> QED BY <1>3, <1>4, <1>5, <1>6, <1>7, <1>8, <1>9, <1>10, Zenon DEF Step, Plain, Migrate

\* A row that a process will insert is one it was to insert before, unless it starts.
LEMMA WillStep ==
    ASSUME RowsInv, NEW p \in Proc, Step(p), NEW q \in Proc, ~(q = p /\ Start(p)),
           NEW k \in Kind, NEW r \in RowId(k), Will(q, k, r)'
    PROVE  Will(q, k, r)
<1>1. Keyed(k) /\ Found(k, r) => Found(k, r)'
  BY FoundStep, Zenon
<1>2. CASE q = p
  <2>1. /\ Ahead(p, k, r)' => Ahead(p, k, r)
        /\ Inserting(p, k, r)' => Keyed(k) /\ Ahead(p, k, r) /\ ~Found(k, r)
    BY <1>2, AheadOwn, Zenon
  <2> QED BY <1>1, <1>2, <2>1, Zenon DEF Will
<1>3. CASE q # p
  <2>1. TypeOK /\ Plan
    BY Zenon DEF RowsInv
  <2>2. pc'[q] = pc[q] /\ loc'[q] = loc[q] /\ legacy'[k] \subseteq legacy[k]
    BY <1>3, <2>1, Frame, LegacyStep, ZenonT(30)
  <2>3. Hand(q)' = Hand(q)
    BY <2>2, Zenon DEF Hand
  <2>4. Ahead(q, k, r)' => Ahead(q, k, r)
    BY <2>2, <2>3, Zenon DEF Ahead
  <2>5. Inserting(q, k, r)' => Inserting(q, k, r)
    BY <2>2, <2>3, Zenon DEF Inserting
  <2> QED BY <1>1, <2>4, <2>5, Zenon DEF Will
<1> QED BY <1>2, <1>3, Zenon

\* The causes are counted: a row in hand leaves the shared collection, or the
\* process that had it in hand is torn from it.
LEMMA CauseStep ==
    ASSUME RowsInv, NEW p \in Proc, Step(p)
    PROVE  /\ retries' \in Nat /\ overlaps' \in Nat /\ torn' \in Nat
           /\ overlaps <= overlaps' /\ torn <= torn' /\ retries <= retries'
           /\ \A k \in Kind : \A r \in legacy'[k] : Deleting(p, k, r) => torn' = torn + 1
<1>0. TypeOK /\ Plan /\ Stage(p) /\ retries \in Nat /\ overlaps \in Nat /\ torn \in Nat
  BY Zenon DEF RowsInv, TypeOK
<1>1. retries' \in Nat /\ overlaps' \in Nat /\ torn' \in Nat
  BY <1>0, TypeStep, Zenon DEF TypeOK
<1>2. overlaps' \in {overlaps, overlaps + 1} /\ torn' \in {torn, torn + 1} /\ retries' \in {retries, retries + 1}
  <2>1. CASE InsertRow(p)
    BY <1>0, <2>1, InsertFacts, Zenon DEF Grows
  <2>2. CASE Plain(p) /\ ~InsertRow(p)
    BY <2>2, Zenon DEF Plain, Migrate, Start, Fail, Stop, FindRows, ScanOwners, SkipRow, LookUp, DeleteRow, DropLegacy, bounds
  <2>3. CASE Dedupe(p)
    BY <2>3, Zenon DEF Dedupe, DedupeAccount, DedupeBox, DedupeMove, DedupeEmpty, DedupeDrop, bounds
  <2> QED BY <2>1, <2>2, <2>3, Zenon DEF Step
<1>3. ASSUME NEW k \in Kind, NEW r \in legacy'[k], Deleting(p, k, r)
      PROVE  torn' = torn + 1
  <2>1. pc[p] = "delete" /\ k = loc[p].k /\ r = Hand(p)
    BY <1>3, Zenon DEF Deleting
  <2>2. Fail(p) \/ DeleteRow(p)
    <3>1. CASE Plain(p)
      BY <1>0, <2>1, <3>1, InsertFacts, Zenon DEF Plain, Migrate, Start, Stop, FindRows, ScanOwners, SkipRow, LookUp, DropLegacy
    <3>2. CASE Dedupe(p)
      BY <1>0, <2>1, <3>2, Zenon DEF Dedupe, DedupeAccount, DedupeBox, DedupeMove, DedupeEmpty, DedupeDrop
    <3> QED BY <3>1, <3>2, Zenon DEF Step
  <2>3. CASE Fail(p)
    BY <2>1, <2>3, Zenon DEF Fail
  <2>4. CASE DeleteRow(p)
    <3>1. legacy' = [legacy EXCEPT ![k] = @ \ {r}]
      BY <2>1, <2>4, Zenon DEF DeleteRow, Hand
    <3> QED BY <1>0, <1>3, <3>1, Zenon DEF TypeOK
  <2> QED BY <2>2, <2>3, <2>4, Zenon
<1> QED BY <1>0, <1>1, <1>2, <1>3

\* The count, seen from process p and the other one, q.
CountBy(p, q, k, r) ==
    /\ IsFiniteSet(CopyIds(k, r))
    /\ Copies(k, r) + One(Will(p, k, r)) + One(Will(q, k, r))
            <= 1 + overlaps + retries + (IF Keyed(k) THEN 0 ELSE torn)
    /\ ~Keyed(k) /\ r \in legacy[k] =>
            Copies(k, r) <= One(Deleting(p, k, r)) + One(Deleting(q, k, r)) + retries + torn

\* The two ways to write the count agree.
LEMMA CountSides ==
    ASSUME NEW p \in Proc, NEW q \in Proc, p # q, NEW k, NEW r
    PROVE  Count(k, r) <=> CountBy(p, q, k, r)
<1>1. \A b : One(b) \in Nat
  BY Zenon DEF One
<1>2. IsFiniteSet(CopyIds(k, r)) => Copies(k, r) \in Nat
  BY FS_CardinalityType, Zenon DEF Copies
<1>3. (p = "daemon" /\ q = "ctl") \/ (p = "ctl" /\ q = "daemon")
  BY Zenon DEF Proc
<1>4. CASE p = "daemon" /\ q = "ctl"
  BY <1>4, Zenon DEF Count, CountBy
<1>5. CASE p = "ctl" /\ q = "daemon"
  <2> DEFINE n == Copies(k, r)
             wd == One(Will("daemon", k, r))
             wc == One(Will("ctl", k, r))
             dd == One(Deleting("daemon", k, r))
             dc == One(Deleting("ctl", k, r))
  <2>1. wd \in Nat /\ wc \in Nat /\ dd \in Nat /\ dc \in Nat
    BY <1>1, Zenon
  <2>2. n \in Nat => n + wd + wc = n + wc + wd
    <3> HIDE DEF n, wd, wc, dd, dc
    <3> QED BY <2>1
  <2>3. dd + dc = dc + dd
    <3> HIDE DEF n, wd, wc, dd, dc
    <3> QED BY <2>1
  <2> QED BY <1>2, <1>5, <2>2, <2>3, Zenon DEF Count, CountBy
<1> QED BY <1>3, <1>4, <1>5, Zenon

Sides == \A p, q \in Proc : p # q => \A k, r : Count(k, r) <=> CountBy(p, q, k, r)

\* They agree in every state.
LEMMA SidesAgree == Sides
BY CountSides, Zenon DEF Sides

\* A step that makes no copy of the row and starts no process.
LEMMA CountKeeps ==
    ASSUME RowsInv, NEW p \in Proc, Step(p), NEW q \in Proc, q # p, ~Start(p),
           NEW k \in Kind, NEW r \in RowId(k), CountBy(p, q, k, r), CopyIds(k, r)' \subseteq CopyIds(k, r)
    PROVE  CountBy(p, q, k, r)'
<1> DEFINE n == Copies(k, r)
           m == Copies(k, r)'
           wp == One(Will(p, k, r))
           wq == One(Will(q, k, r))
           vp == One(Will(p, k, r)')
           vq == One(Will(q, k, r)')
           dp == One(Deleting(p, k, r))
           dq == One(Deleting(q, k, r))
           ep == One(Deleting(p, k, r)')
           eq == One(Deleting(q, k, r)')
<1>0. TypeOK /\ Plan /\ overlaps \in Nat /\ retries \in Nat /\ torn \in Nat
  BY Zenon DEF RowsInv, TypeOK
<1>1. IsFiniteSet(CopyIds(k, r)') /\ n \in Nat /\ m \in Nat /\ m <= n
  BY FS_Subset, FS_CardinalityType, Zenon DEF CountBy, Copies
<1>2. vp <= wp /\ vq <= wq
  BY WillStep DEF One
<1>3. /\ wp \in Nat /\ wq \in Nat /\ vp \in Nat /\ vq \in Nat
      /\ dp \in Nat /\ dq \in Nat /\ ep \in Nat /\ eq \in Nat
  BY Zenon DEF One
<1>4. PICK o \in Nat : o = overlaps' /\ overlaps <= o
  BY CauseStep, Zenon
<1>5. PICK t \in Nat : t = torn' /\ torn <= t /\ (r \in legacy'[k] /\ Deleting(p, k, r) => t = torn + 1)
  BY CauseStep, Zenon
<1>6. PICK x \in Nat : x = retries' /\ retries <= x
  BY CauseStep, Zenon
<1>7. overlaps <= o /\ torn <= t /\ retries <= x
  BY <1>4, <1>5, <1>6, Zenon
<1>8. dq = eq
  <2>1. pc'[q] = pc[q] /\ loc'[q] = loc[q]
    BY <1>0, Frame, Zenon
  <2> QED BY <2>1, Zenon DEF Deleting, Hand, One
<1>9. r \in legacy'[k] => r \in legacy[k] /\ dp + torn <= ep + t
  <2>1. r \in legacy'[k] => r \in legacy[k]
    BY <1>0, LegacyStep, Zenon
  <2>2. r \in legacy'[k] => (dp = 1 /\ t = torn + 1) \/ dp = 0
    BY <1>5, Zenon DEF One
  <2>3. r \in legacy'[k] => dp + torn <= ep + t
    <3> HIDE DEF dp, ep
    <3>1. ASSUME dp = 1 /\ t = torn + 1 PROVE dp + torn <= ep + t
      BY <1>0, <1>3, <3>1
    <3>2. ASSUME dp = 0 PROVE dp + torn <= ep + t
      BY <1>0, <1>3, <1>7, <3>2
    <3> QED BY <2>2, <3>1, <3>2, Zenon
  <2> QED BY <2>1, <2>3, Zenon
<1>10. /\ n + wp + wq <= 1 + overlaps + retries + (IF Keyed(k) THEN 0 ELSE torn)
       /\ ~Keyed(k) /\ r \in legacy[k] => n <= dp + dq + retries + torn
  BY Zenon DEF CountBy
<1>11. m + vp + vq <= 1 + o + x + (IF Keyed(k) THEN 0 ELSE t)
  <2> HIDE DEF n, m, wp, wq, vp, vq, dp, dq, ep, eq
  <2>1. CASE Keyed(k)
    BY <1>0, <1>1, <1>2, <1>3, <1>7, <1>10, <2>1, SMTT(30)
  <2>2. CASE ~Keyed(k)
    BY <1>0, <1>1, <1>2, <1>3, <1>7, <1>10, <2>2, SMTT(30)
  <2> QED BY <2>1, <2>2, Zenon
<1>12. ~Keyed(k) /\ r \in legacy'[k] => m <= ep + eq + x + t
  <2> HIDE DEF n, m, wp, wq, vp, vq, dp, dq, ep, eq
  <2>1. ASSUME n <= dp + dq + retries + torn, dp + torn <= ep + t
        PROVE  m <= ep + eq + x + t
    BY <1>0, <1>1, <1>3, <1>7, <1>8, <2>1, SMTT(30)
  <2> QED BY <1>9, <1>10, <2>1, ZenonT(30)
<1>13. Keyed(k)' = Keyed(k)
  BY Zenon DEF Keyed
<1> QED BY <1>1, <1>4, <1>5, <1>6, <1>11, <1>12, <1>13, ZenonT(30) DEF CountBy

\* A process starts: the other one runs, or nothing of the row is left over but
\* what deaths and retries account for.
LEMMA CountStart ==
    ASSUME RowsInv, Placed, NEW p \in Proc, Start(p), NEW q \in Proc, q # p,
           NEW k \in Kind, NEW r \in RowId(k), CountBy(p, q, k, r)
    PROVE  CountBy(p, q, k, r)'
<1> DEFINE n == Copies(k, r)
           wq == One(Will(q, k, r))
           vp == One(Will(p, k, r)')
           vq == One(Will(q, k, r)')
           dq == One(Deleting(q, k, r))
<1>0. TypeOK /\ overlaps \in Nat /\ retries \in Nat /\ torn \in Nat /\ Step(p)
  BY Zenon DEF RowsInv, TypeOK, Step, Plain
<1>1. pc[p] = "down" /\ pc'[p] = "find" /\ UNCHANGED <<legacy, coll, retries, torn>>
  BY <1>0, Zenon DEF Start, Goto, TypeOK
<1>2. CopyIds(k, r)' = CopyIds(k, r) /\ Copies(k, r)' = n /\ (Found(k, r)' <=> Found(k, r))
  BY <1>1 DEF CopyIds, Copies, Ids, Found, Present, NameOf
<1>3. n \in Nat /\ wq \in Nat /\ vp \in {0, 1} /\ vq \in Nat /\ dq \in Nat
  BY FS_CardinalityType, Zenon DEF CountBy, Copies, One
<1>4. ~Will(p, k, r) /\ ~Deleting(p, k, r) /\ ~Deleting(p, k, r)' /\ ~Inserting(p, k, r)'
  BY <1>1, Zenon DEF Will, Ahead, Inserting, Deleting, Working
<1>5. pc'[q] = pc[q] /\ loc'[q] = loc[q]
  BY <1>0, Frame, Zenon
<1>6. Deleting(q, k, r)' <=> Deleting(q, k, r)
  BY <1>5, Zenon DEF Deleting, Hand
<1>7. Will(q, k, r)' => Will(q, k, r)
  BY <1>0, WillStep, Zenon
<1>8. vq <= wq
  BY <1>7 DEF One
<1>9. /\ n + wq <= 1 + overlaps + retries + (IF Keyed(k) THEN 0 ELSE torn)
      /\ ~Keyed(k) /\ r \in legacy[k] => n <= dq + retries + torn
  <2>1. One(Will(p, k, r)) = 0 /\ One(Deleting(p, k, r)) = 0
    BY <1>4, Zenon DEF One
  <2>2. /\ n + 0 + wq <= 1 + overlaps + retries + (IF Keyed(k) THEN 0 ELSE torn)
        /\ ~Keyed(k) /\ r \in legacy[k] => n <= 0 + dq + retries + torn
    BY <2>1, Zenon DEF CountBy
  <2>3. n + 0 = n /\ 0 + dq = dq
    BY <1>3
  <2> QED BY <2>2, <2>3, Zenon
<1>10. PICK o \in Nat : o = overlaps' /\ o = IF pc[q] \in Migrating THEN overlaps + 1 ELSE overlaps
  <2>1. overlaps' = IF pc[q] \in Migrating THEN overlaps + 1 ELSE overlaps
    BY Zenon DEF Start, Proc
  <2> QED BY <1>0, <2>1
<1>11. n + vp + vq <= 1 + o + retries + (IF Keyed(k) THEN 0 ELSE torn)
  <2>1. CASE pc[q] \in Migrating
    <3>1. o = overlaps + 1
      BY <1>10, <2>1, Zenon
    <3> HIDE DEF n, wq, vp, vq, dq
    <3>2. CASE Keyed(k)
      BY <1>0, <1>3, <1>8, <1>9, <3>1, <3>2, SMTT(30)
    <3>3. CASE ~Keyed(k)
      BY <1>0, <1>3, <1>8, <1>9, <3>1, <3>3, SMTT(30)
    <3> QED BY <3>2, <3>3, Zenon
  <2>2. CASE pc[q] \notin Migrating
    <3>1. o = overlaps
      BY <1>10, <2>2, Zenon
    <3>2. ~Will(q, k, r) /\ ~Deleting(q, k, r)
      BY <2>2, Zenon DEF Will, Ahead, Inserting, Deleting, Working, Migrating
    <3>3. wq = 0 /\ vq = 0 /\ dq = 0
      BY <1>7, <3>2, Zenon DEF One
    <3>4. CASE ~Will(p, k, r)'
      <4>1. vp = 0
        BY <3>4, Zenon DEF One
      <4>2. n + vp + vq = n + wq
        <5> HIDE DEF n, wq, vp, vq
        <5> QED BY <1>3, <3>3, <4>1
      <4> QED BY <1>9, <3>1, <4>2, Zenon
    <3>5. CASE Will(p, k, r)' /\ Keyed(k)
      <4>1. ~Found(k, r)
        BY <1>2, <1>4, <3>5, Zenon DEF Will, Keyed
      <4>2. n = 0
        BY <3>5, <4>1, NotFound, FS_EmptySet, ZenonT(30) DEF Copies
      <4> HIDE DEF n, wq, vp, vq, dq
      <4> QED BY <1>0, <1>3, <3>1, <3>3, <3>5, <4>2, SMTT(30)
    <3>6. CASE Will(p, k, r)' /\ ~Keyed(k)
      <4>1. Ahead(p, k, r)'
        BY <3>6, Zenon DEF Will, Keyed
      <4>2. r \in legacy[k]
        BY <1>1, <4>1, Zenon DEF Ahead, Working
      <4>3. n <= dq + retries + torn
        BY <1>9, <3>6, <4>2, Zenon
      <4> HIDE DEF n, wq, vp, vq, dq
      <4> QED BY <1>0, <1>3, <3>1, <3>3, <3>6, <4>3, SMTT(30)
    <3> QED BY <3>4, <3>5, <3>6, Zenon
  <2> QED BY <2>1, <2>2, Zenon
<1>12. ~Keyed(k) /\ r \in legacy'[k] =>
           n <= One(Deleting(p, k, r)') + One(Deleting(q, k, r)') + retries + torn
  <2>1. One(Deleting(p, k, r)') = 0 /\ One(Deleting(q, k, r)') = dq
    BY <1>4, <1>6, Zenon DEF One
  <2>2. 0 + dq = dq
    BY <1>3
  <2> QED BY <1>1, <1>9, <2>1, <2>2, ZenonT(30)
<1>13. Keyed(k)' = Keyed(k) /\ IsFiniteSet(CopyIds(k, r)')
  BY <1>2, Zenon DEF Keyed, CountBy
<1> QED BY <1>1, <1>2, <1>10, <1>11, <1>12, <1>13, ZenonT(30) DEF CountBy

\* At most two elements are added to a finite set.
LEMMA AddTwo ==
    ASSUME NEW S, IsFiniteSet(S), NEW e, NEW g, NEW T, T \subseteq S \cup {e, g}
    PROVE  /\ IsFiniteSet(T) /\ Cardinality(T) \in Nat /\ Cardinality(T) <= Cardinality(S) + 2
           /\ e = g => Cardinality(T) <= Cardinality(S) + 1
<1>1. /\ IsFiniteSet(S \cup {e}) /\ Cardinality(S) \in Nat
      /\ Cardinality(S \cup {e}) \in {Cardinality(S), Cardinality(S) + 1}
  BY FS_AddElement, FS_CardinalityType, Zenon
<1>2. /\ IsFiniteSet((S \cup {e}) \cup {g})
      /\ Cardinality((S \cup {e}) \cup {g}) \in {Cardinality(S \cup {e}), Cardinality(S \cup {e}) + 1}
  BY <1>1, FS_AddElement, Zenon
<1>3. IsFiniteSet(T) /\ Cardinality(T) <= Cardinality((S \cup {e}) \cup {g})
  <2>1. T \in SUBSET ((S \cup {e}) \cup {g})
    BY Zenon
  <2> QED BY <1>2, <2>1, FS_Subset, Zenon
<1>4. Cardinality(T) \in Nat
  BY <1>3, FS_CardinalityType, Zenon
<1>5. e = g => (S \cup {e}) \cup {g} = S \cup {e}
  BY Zenon
<1>6. e = g => Cardinality(T) <= Cardinality(S \cup {e})
  BY <1>3, <1>5, Zenon
<1> QED BY <1>1, <1>2, <1>3, <1>4, <1>6, SMTT(30)

\* The row in hand is inserted.
LEMMA CountInsert ==
    ASSUME RowsInv, NEW p \in Proc, InsertRow(p), pc'[p] = "delete", NEW q \in Proc, q # p,
           Grows(loc[p].k, Dest(p, Hand(p)), HandDoc(p)),
           NEW k \in Kind, NEW r \in RowId(k), k = loc[p].k, r = Hand(p), CountBy(p, q, k, r)
    PROVE  CountBy(p, q, k, r)'
<1> DEFINE n == Copies(k, r)
           m == Copies(k, r)'
           wq == One(Will(q, k, r))
           vq == One(Will(q, k, r)')
           dq == One(Deleting(q, k, r))
<1>0. TypeOK /\ Stage(p) /\ overlaps \in Nat /\ retries \in Nat /\ torn \in Nat /\ Step(p)
  BY Zenon DEF RowsInv, TypeOK, Step, Plain, Migrate
<1>1. /\ pc[p] \in {"insert", "row"} /\ (pc[p] = "row" => ~Keyed(k)) /\ (pc[p] = "insert" => Keyed(k))
      /\ Dest(p, Hand(p)) \in AcctId /\ HandDoc(p) \in Doc /\ Hand(p) \in loc[p].todo
      /\ UNCHANGED <<legacy, loc, overlaps, torn>>
  <2>1. /\ pc[p] \in {"insert", "row"} /\ (pc[p] = "row" => ~Keyed(k))
        /\ Dest(p, Hand(p)) \in AcctId /\ HandDoc(p) \in Doc
    BY <1>0, InsertFacts, Zenon
  <2>2. pc[p] = "insert" => Keyed(k)
    BY <1>0, ZenonT(30) DEF Stage
  <2>3. Hand(p) \in loc[p].todo
    BY <1>0, <2>1, HandType, ZenonT(30) DEF Working
  <2>4. UNCHANGED <<legacy, loc, overlaps, torn>>
    BY Zenon DEF InsertRow
  <2> QED BY <2>1, <2>2, <2>3, <2>4, ZenonT(30)
<1>a. PICK a \in AcctId : a = Dest(p, Hand(p))
  BY <1>1, Zenon
<1>g. /\ \A b \in AcctId : \A i \in Ids(k, b) : i \in Ids(k, b)' /\ coll'[k][b][i] = coll[k][b][i]
      /\ \A b \in AcctId : b # a => Ids(k, b)' = Ids(k, b)
      /\ \E x, y \in Nat : /\ Ids(k, a)' = Ids(k, a) \cup {x, y}
                           /\ (x = y /\ retries' = retries) \/ (x # y /\ retries' = retries + 1)
  <2>1. PICK e \in Doc : e = HandDoc(p)
    BY <1>1, Zenon
  <2>2. Grows(k, a, e)
    BY <1>a, <2>1, ZenonT(30)
  <2>3. /\ \A j \in Kind, b \in AcctId : \A i \in Ids(j, b) : i \in Ids(j, b)' /\ coll'[j][b][i] = coll[j][b][i]
        /\ \A j \in Kind, b \in AcctId : <<j, b>> # <<k, a>> => Ids(j, b)' = Ids(j, b) /\ coll'[j][b] = coll[j][b]
        /\ \E x, y \in Nat : /\ x \notin Ids(k, a) /\ y \notin Ids(k, a)
                            /\ Ids(k, a)' = Ids(k, a) \cup {x, y}
                            /\ coll'[k][a][x] = e /\ coll'[k][a][y] = e
                            /\ \/ x = y /\ retries' = retries
                               \/ x # y /\ retries' = retries + 1 /\ ~(k = "rules" /\ a \in Account)
    BY <1>0, <1>1, <2>2, GrowsFacts, ZenonT(30)
  <2>4. \A b \in AcctId : b # a => Ids(k, b)' = Ids(k, b)
    <3>1. \A b : b # a => <<k, b>> # <<k, a>>
      BY Zenon
    <3> QED BY <2>3, <3>1, Zenon
  <2>5. \A b \in AcctId : \A i \in Ids(k, b) : i \in Ids(k, b)' /\ coll'[k][b][i] = coll[k][b][i]
    BY <2>3, Zenon
  <2>6. \E x, y \in Nat : /\ Ids(k, a)' = Ids(k, a) \cup {x, y}
                          /\ (x = y /\ retries' = retries) \/ (x # y /\ retries' = retries + 1)
    BY <2>3, Zenon
  <2> QED BY <2>4, <2>5, <2>6, Zenon
<1>2. PICK x \in Nat : \E y \in Nat :
         /\ Ids(k, a)' = Ids(k, a) \cup {x, y}
         /\ (x = y /\ retries' = retries) \/ (x # y /\ retries' = retries + 1)
  BY <1>g, Zenon
<1>3. PICK y \in Nat :
         /\ Ids(k, a)' = Ids(k, a) \cup {x, y}
         /\ (x = y /\ retries' = retries) \/ (x # y /\ retries' = retries + 1)
  BY <1>2, Zenon
<1>4. CopyIds(k, r)' \subseteq CopyIds(k, r) \cup {<<a, x>>, <<a, y>>}
  <2> SUFFICES ASSUME NEW d \in CopyIds(k, r)', d \notin {<<a, x>>, <<a, y>>}
               PROVE  d \in CopyIds(k, r)
    BY Zenon
  <2>1. PICK b \in AcctId : d \in {b} \X Ids(k, b)'
    BY ZenonT(30) DEF CopyIds
  <2>2. PICK i \in Ids(k, b)' : d = <<b, i>> /\ coll'[k][b][i].row = r
    BY <2>1 DEF CopyIds
  <2>3. i \in Ids(k, b)
    <3>1. CASE b = a
      <4>1. i # x /\ i # y
        BY <2>2, <3>1, Zenon
      <4>2. i \in Ids(k, a) \cup {x, y}
        BY <1>3, <3>1, Zenon
      <4> QED BY <3>1, <4>1, <4>2, Zenon
    <3>2. CASE b # a
      BY <1>g, <3>2, Zenon
    <3> QED BY <3>1, <3>2, Zenon
  <2>4. coll[k][b][i].row = r
    BY <1>g, <2>2, <2>3, Zenon
  <2>5. d \in {b} \X Ids(k, b) /\ d[1] = b /\ d[2] = i
    BY <2>2, <2>3, Zenon
  <2> QED BY <2>4, <2>5, Zenon DEF CopyIds
<1>5. n \in Nat /\ m \in Nat /\ IsFiniteSet(CopyIds(k, r)') /\ m <= n + 2 /\ (x = y => m <= n + 1)
  BY <1>4, AddTwo, FS_CardinalityType, ZenonT(30) DEF CountBy, Copies
<1>6. PICK z \in Nat : z = retries' /\ m <= n + 1 + (z - retries) /\ retries <= z
  <2>1. CASE x = y
    <3>1. m <= n + 1 + (retries - retries) /\ retries <= retries
      <4> HIDE DEF n, m
      <4> QED BY <1>0, <1>5, <2>1
    <3> QED BY <1>0, <1>3, <2>1, <3>1, ZenonT(30)
  <2>2. CASE x # y
    <3>1. retries + 1 \in Nat /\ m <= n + 1 + ((retries + 1) - retries) /\ retries <= retries + 1
      <4> HIDE DEF n, m
      <4> QED BY <1>0, <1>5, <2>2
    <3> QED BY <1>3, <2>2, <3>1, ZenonT(30)
  <2> QED BY <2>1, <2>2, Zenon
<1>7. Will(p, k, r) /\ ~Deleting(p, k, r)
  BY <1>1, Zenon DEF Will, Ahead, Inserting, Deleting
<1>8. ~Will(p, k, r)' /\ Deleting(p, k, r)'
  <2>1. Hand(p)' = r /\ loc'[p].k = k /\ ~Later(k, k)
    BY <1>1, Zenon DEF Hand, Later
  <2>2. ~Ahead(p, k, r)' /\ ~Inserting(p, k, r)' /\ Deleting(p, k, r)'
    BY <2>1, ZenonT(30) DEF Ahead, Inserting, Deleting
  <2> QED BY <2>2, Zenon DEF Will, Keyed
<1>9. Will(q, k, r)' => Will(q, k, r)
  <2>1. ~Start(p)
    BY <1>1, Zenon DEF Start
  <2> QED BY <1>0, <2>1, WillStep
<1>10. Deleting(q, k, r)' <=> Deleting(q, k, r)
  <2>1. pc'[q] = pc[q] /\ loc'[q] = loc[q]
    BY <1>0, Frame, ZenonT(30)
  <2> QED BY <2>1, Zenon DEF Deleting, Hand
<1>11. wq \in Nat /\ vq \in Nat /\ dq \in Nat /\ vq <= wq
  BY <1>9 DEF One
<1>12. /\ n + 1 + wq <= 1 + overlaps + retries + (IF Keyed(k) THEN 0 ELSE torn)
       /\ ~Keyed(k) /\ r \in legacy[k] => n <= 0 + dq + retries + torn
  <2>1. One(Will(p, k, r)) = 1 /\ One(Deleting(p, k, r)) = 0
    BY <1>7, Zenon DEF One
  <2> QED BY <2>1, Zenon DEF CountBy
<1>13. m + 0 + vq <= 1 + overlaps + z + (IF Keyed(k) THEN 0 ELSE torn)
  <2>1. m <= n + 1 + (z - retries)
    BY <1>6, ZenonT(30)
  <2> HIDE DEF n, m, wq, vq, dq
  <2>2. CASE Keyed(k)
    BY <1>0, <1>5, <1>11, <1>12, <2>1, <2>2, SMTT(30)
  <2>3. CASE ~Keyed(k)
    BY <1>0, <1>5, <1>11, <1>12, <2>1, <2>3, SMTT(30)
  <2> QED BY <2>2, <2>3, Zenon
<1>14. ~Keyed(k) /\ r \in legacy[k] => m <= 1 + dq + z + torn
  <2>1. m <= n + 1 + (z - retries)
    BY <1>6, ZenonT(30)
  <2> HIDE DEF n, m, wq, vq, dq
  <2> QED BY <1>0, <1>5, <1>11, <1>12, <2>1, SMTT(30)
<1>15. /\ One(Will(p, k, r)') = 0 /\ One(Deleting(p, k, r)') = 1 /\ One(Deleting(q, k, r)') = dq
       /\ Keyed(k)' = Keyed(k)
  BY <1>8, <1>10, Zenon DEF One, Keyed
<1> QED BY <1>1, <1>5, <1>6, <1>13, <1>14, <1>15, ZenonT(30) DEF CountBy

\* An insert of row h of collection k for account a: documents x and y, one
\* and the same if the call was not repeated.
Adds(k, a, h, x, y) ==
    /\ \A j \in Kind, b \in AcctId : <<j, b>> # <<k, a>> => Ids(j, b)' = Ids(j, b) /\ coll'[j][b] = coll[j][b]
    /\ \A i \in Ids(k, a) : coll'[k][a][i] = coll[k][a][i]
    /\ Ids(k, a)' = Ids(k, a) \cup {x, y}
    /\ coll'[k][a][x].row = h /\ coll'[k][a][y].row = h
    /\ k = "rules" /\ a \in Account => x = y /\ Ids(k, a) = {}

\* An insert adds the row in hand, and to an account's rules only if there are none.
LEMMA Inserted ==
    ASSUME RowsInv, NEW p \in Proc, InsertRow(p), Grows(loc[p].k, Dest(p, Hand(p)), HandDoc(p)),
           NEW K, K = loc[p].k, NEW h, h = Hand(p), NEW a, a = Dest(p, h)
    PROVE  K \in Kind /\ a \in AcctId /\ h \in RowId(K) /\ \E x, y \in Nat : Adds(K, a, h, x, y)
<1>0. TypeOK /\ Stage(p)
  BY Zenon DEF RowsInv
<1>1. K \in Kind /\ h \in RowId(K) /\ a \in AcctId
  BY <1>0, InsertFacts, Zenon
<1>4. PICK e \in Doc : e = HandDoc(p)
  BY <1>0, InsertFacts, Zenon
<1>5. Grows(K, a, e) /\ e.row = h
  <2>1. e.row = h
    BY <1>4, ZenonT(30) DEF HandDoc
  <2> QED BY <1>4, <2>1, Zenon
<1>6. /\ \A j \in Kind, b \in AcctId : \A i \in Ids(j, b) : i \in Ids(j, b)' /\ coll'[j][b][i] = coll[j][b][i]
      /\ \A j \in Kind, b \in AcctId : <<j, b>> # <<K, a>> => Ids(j, b)' = Ids(j, b) /\ coll'[j][b] = coll[j][b]
      /\ \E x, y \in Nat : /\ x \notin Ids(K, a) /\ y \notin Ids(K, a)
                          /\ Ids(K, a)' = Ids(K, a) \cup {x, y}
                          /\ coll'[K][a][x] = e /\ coll'[K][a][y] = e
                          /\ \/ x = y /\ retries' = retries
                             \/ x # y /\ retries' = retries + 1 /\ ~(K = "rules" /\ a \in Account)
  BY <1>0, <1>1, <1>5, GrowsFacts, SMTT(30)
<1>7. PICK x \in Nat : \E y \in Nat :
           /\ Ids(K, a)' = Ids(K, a) \cup {x, y} /\ coll'[K][a][x] = e /\ coll'[K][a][y] = e
           /\ x # y => ~(K = "rules" /\ a \in Account)
  BY <1>6, Zenon
<1>8. PICK y \in Nat :
           /\ Ids(K, a)' = Ids(K, a) \cup {x, y} /\ coll'[K][a][x] = e /\ coll'[K][a][y] = e
           /\ x # y => ~(K = "rules" /\ a \in Account)
  BY <1>7, Zenon
<1>9. K = "rules" /\ a \in Account => Ids(K, a) = {}
  <2>1. ~Refused(K, a)
    <3>1. Refused(K, a) => coll' = coll
      BY ZenonT(30) DEF InsertRow, Hand
    <3>2. coll' = coll => FALSE
      BY <1>0, <1>1, <1>5 DEF Grows, TypeOK
    <3> QED BY <3>1, <3>2, Zenon
  <2> QED BY <2>1, Zenon DEF Refused
<1>10. /\ coll'[K][a][x].row = h /\ coll'[K][a][y].row = h
       /\ K = "rules" /\ a \in Account => x = y /\ Ids(K, a) = {}
  BY <1>5, <1>8, <1>9, ZenonT(30)
<1>11. \A i \in Ids(K, a) : coll'[K][a][i] = coll[K][a][i]
  BY <1>1, <1>6
<1>12. Adds(K, a, h, x, y)
  BY <1>6, <1>8, <1>10, <1>11, ZenonT(30) DEF Adds
<1> QED BY <1>1, <1>12, Zenon

\* No copies of a row appear but by the insert of it.
LEMMA CopyStep ==
    ASSUME RowsInv, NEW p \in Proc, Step(p), NEW k \in Kind, NEW r \in RowId(k)
    PROVE  \/ CopyIds(k, r)' \subseteq CopyIds(k, r)
           \/ /\ InsertRow(p) /\ pc'[p] = "delete" /\ k = loc[p].k /\ r = Hand(p)
              /\ Grows(loc[p].k, Dest(p, Hand(p)), HandDoc(p))
<1>1. ASSUME \A b \in AcctId : \A i \in Ids(k, b)' :
                 coll'[k][b][i].row = r => i \in Ids(k, b) /\ coll[k][b][i].row = r
      PROVE  CopyIds(k, r)' \subseteq CopyIds(k, r)
  <2> SUFFICES ASSUME NEW d \in CopyIds(k, r)' PROVE d \in CopyIds(k, r)
    BY Zenon
  <2>1. PICK b \in AcctId : d \in {b} \X Ids(k, b)'
    BY Zenon DEF CopyIds
  <2>2. PICK i \in Ids(k, b)' : d = <<b, i>> /\ coll'[k][b][i].row = r
    BY <2>1 DEF CopyIds
  <2>3. i \in Ids(k, b) /\ coll[k][b][i].row = r
    BY <1>1, <2>2, Zenon
  <2>4. d \in {b} \X Ids(k, b) /\ d[1] = b /\ d[2] = i
    BY <2>2, <2>3
  <2> QED BY <2>3, <2>4, Zenon DEF CopyIds
<1>2. CASE NoneNew
  BY <1>1, <1>2, Zenon DEF NoneNew
<1>3. CASE InsertRow(p) /\ Grows(loc[p].k, Dest(p, Hand(p)), HandDoc(p)) /\ ~(k = loc[p].k /\ r = Hand(p))
  <2>0. PICK K, h, a : K = loc[p].k /\ h = Hand(p) /\ a = Dest(p, h)
    BY Zenon
  <2>1. K \in Kind /\ a \in AcctId /\ \E x, y \in Nat : Adds(K, a, h, x, y)
    BY <1>3, <2>0, Inserted, Zenon
  <2>3. PICK x \in Nat, y \in Nat : Adds(K, a, h, x, y)
    BY <2>1, Zenon
  <2>2. ASSUME NEW b \in AcctId, NEW i \in Ids(k, b)', coll'[k][b][i].row = r
        PROVE  i \in Ids(k, b) /\ coll[k][b][i].row = r
    <3>1. CASE <<k, b>> # <<K, a>>
      BY <2>1, <2>2, <2>3, <3>1, ZenonT(30) DEF Adds
    <3>2. CASE <<k, b>> = <<K, a>>
      <4>1. k = K /\ b = a
        BY <3>2, Zenon
      <4>2. r # h
        BY <1>3, <2>0, <4>1, Zenon
      <4>3. i # x /\ i # y
        BY <2>2, <2>3, <4>1, <4>2, Zenon DEF Adds
      <4>4. i \in Ids(K, a)
        BY <2>2, <2>3, <4>1, <4>3, ZenonT(30) DEF Adds
      <4> QED BY <2>2, <2>3, <4>1, <4>4, ZenonT(30) DEF Adds
    <3> QED BY <3>1, <3>2
  <2> QED BY <1>1, <2>2, Zenon
<1> QED BY <1>2, <1>3, DocStep, Zenon

\* Every step keeps documents with a key in the collection of their row's account.
LEMMA PlacedStep ==
    ASSUME RowsInv, Placed, NEW p \in Proc, Step(p)
    PROVE  Placed'
<1> SUFFICES ASSUME NEW k \in {"mailboxes", "rules"}, NEW b \in AcctId, NEW i \in Ids(k, b)'
             PROVE  coll'[k][b][i].row \in RowId(k) /\ Legacy[k][coll'[k][b][i].row].acct = b
  BY Zenon DEF Placed
<1>0. k \in Kind
  BY ZenonT(30) DEF Kind
<1>1. ASSUME i \in Ids(k, b), coll'[k][b][i].row = coll[k][b][i].row
      PROVE  coll'[k][b][i].row \in RowId(k) /\ Legacy[k][coll'[k][b][i].row].acct = b
  BY <1>1 DEF Placed
<1>2. CASE NoneNew
  BY <1>0, <1>1, <1>2, Zenon DEF NoneNew
<1>3. CASE InsertRow(p) /\ Grows(loc[p].k, Dest(p, Hand(p)), HandDoc(p))
  <2>0. PICK K, h, a : K = loc[p].k /\ h = Hand(p) /\ a = Dest(p, h)
    BY Zenon
  <2>1. K \in Kind /\ a \in AcctId /\ h \in RowId(K) /\ \E x, y \in Nat : Adds(K, a, h, x, y)
    BY <1>3, <2>0, Inserted, Zenon
  <2>2. PICK x \in Nat, y \in Nat : Adds(K, a, h, x, y)
    BY <2>1, Zenon
  <2>3. CASE <<k, b>> # <<K, a>>
    BY <1>0, <1>1, <2>1, <2>2, <2>3, ZenonT(30) DEF Adds
  <2>4. CASE k = K /\ b = a /\ i \in Ids(k, b)
    BY <1>1, <2>2, <2>4, Zenon DEF Adds
  <2>5. CASE k = K /\ b = a /\ i \notin Ids(k, b)
    <3>1. coll'[k][b][i].row = h
      BY <2>2, <2>5, Zenon DEF Adds
    <3>2. a = Legacy[k][h].acct
      BY <2>0, <2>5, Zenon DEF Dest
    <3> QED BY <2>1, <2>5, <3>1, <3>2, ZenonT(30)
  <2> QED BY <2>3, <2>4, <2>5, Zenon
<1> QED BY <1>2, <1>3, DocStep, ZenonT(30)

\* No step gives an account a second document of rules.
LEMMA RulesStep ==
    ASSUME RowsInv, NEW a \in Account, Cardinality(Ids("rules", a)) <= 1, NEW p \in Proc, Step(p)
    PROVE  Cardinality(Ids("rules", a)') <= 1
<1>0. TypeOK /\ TypeOK' /\ a \in AcctId /\ "rules" \in Kind
  BY TypeStep, ConstantFacts, Zenon DEF RowsInv, Kind
<1>1. IsFiniteSet(Ids("rules", a)) /\ IsFiniteSet(Ids("rules", a)')
  <2>1. coll["rules"][a] \in Seq(Doc \cup {Null}) /\ coll'["rules"][a] \in Seq(Doc \cup {Null})
    BY <1>0, Zenon DEF TypeOK
  <2>2. Ids("rules", a) \in SUBSET (1 .. Len(coll["rules"][a])) /\ Len(coll["rules"][a]) \in Int
    BY <2>1 DEF Ids
  <2>3. Ids("rules", a)' \in SUBSET (1 .. Len(coll'["rules"][a])) /\ Len(coll'["rules"][a]) \in Int
    BY <2>1 DEF Ids
  <2>4. \A n \in Int : IsFiniteSet(1 .. n)
    BY FS_Interval
  <2> QED BY <2>2, <2>3, <2>4, FS_Subset, ZenonT(30)
<1>2. ASSUME Ids("rules", a)' \subseteq Ids("rules", a)
      PROVE  Cardinality(Ids("rules", a)') <= 1
  <2>1. Cardinality(Ids("rules", a)') <= Cardinality(Ids("rules", a))
    BY <1>1, <1>2, FS_Subset, Zenon
  <2>2. PICK m \in Nat, n \in Nat : m = Cardinality(Ids("rules", a)') /\ n = Cardinality(Ids("rules", a))
    BY <1>1, FS_CardinalityType, Zenon
  <2>3. m <= n /\ n <= 1
    BY <2>1, <2>2, Zenon
  <2>4. m <= 1
    BY <2>3
  <2> QED BY <2>2, <2>4, Zenon
<1>3. CASE NoneNew
  BY <1>0, <1>2, <1>3, ZenonT(30) DEF NoneNew
<1>4. CASE InsertRow(p) /\ Grows(loc[p].k, Dest(p, Hand(p)), HandDoc(p))
  <2>0. PICK K, h, b : K = loc[p].k /\ h = Hand(p) /\ b = Dest(p, h)
    BY Zenon
  <2>1. K \in Kind /\ b \in AcctId /\ \E x, y \in Nat : Adds(K, b, h, x, y)
    BY <1>4, <2>0, Inserted, Zenon
  <2>2. PICK x \in Nat, y \in Nat : Adds(K, b, h, x, y)
    BY <2>1, Zenon
  <2>3. CASE <<"rules", a>> # <<K, b>>
    BY <1>0, <1>2, <2>1, <2>2, <2>3, ZenonT(30) DEF Adds
  <2>4. CASE K = "rules" /\ b = a
    <3>1. Ids("rules", a)' = {x}
      BY <2>2, <2>4, Zenon DEF Adds
    <3>2. Cardinality(Ids("rules", a)') = 1
      BY <3>1, FS_Singleton, Zenon
    <3> QED BY <3>2
  <2> QED BY <2>3, <2>4, Zenon
<1> QED BY <1>3, <1>4, DocStep, Zenon

-----------------------------------------------------------------------------
\* The count holds on a server in the old layout.
LEMMA CountInit == ASSUME Init PROVE CountInv
<1>1. \A k \in Kind, a \in AcctId : Ids(k, a) = {}
  BY DEF Init, Ids
<1>2. Placed
  BY <1>1, Zenon DEF Placed, Kind
<1>3. ASSUME NEW a \in Account PROVE Cardinality(Ids("rules", a)) <= 1
  <2>1. a \in AcctId /\ "rules" \in Kind
    BY ConstantFacts, Zenon DEF Kind
  <2>2. Cardinality(Ids("rules", a)) = 0
    BY <1>1, <2>1, FS_EmptySet, Zenon
  <2> QED BY <2>2
<1>4. ASSUME NEW k \in Kind, NEW r \in RowId(k) PROVE Count(k, r)
  <2>1. CopyIds(k, r) = {}
    BY <1>1, Zenon DEF CopyIds
  <2>2. IsFiniteSet(CopyIds(k, r)) /\ Copies(k, r) = 0
    BY <2>1, FS_EmptySet, Zenon DEF Copies
  <2>3. \A p \in Proc : pc[p] = "down"
    BY Zenon DEF Init
  <2>4. \A p \in Proc : ~Will(p, k, r) /\ ~Deleting(p, k, r)
    BY <2>3, Zenon DEF Will, Ahead, Inserting, Deleting, Working
  <2>5. /\ One(Will("daemon", k, r)) = 0 /\ One(Will("ctl", k, r)) = 0
        /\ One(Deleting("daemon", k, r)) = 0 /\ One(Deleting("ctl", k, r)) = 0
    BY <2>4, Zenon DEF One, Proc
  <2>6. retries = 0 /\ overlaps = 0 /\ torn = 0
    BY Zenon DEF Init
  <2>7. 0 + 0 + 0 <= 1 + 0 + 0 + (IF Keyed(k) THEN 0 ELSE 0) /\ 0 <= 0 + 0 + 0 + 0
    OBVIOUS
  <2> QED BY <2>2, <2>5, <2>6, <2>7, ZenonT(30) DEF Count
<1> QED BY <1>2, <1>3, <1>4, Zenon DEF CountInv

\* Every step keeps the count.
LEMMA CountNext == ASSUME RowsInv, CountInv, [Next]_vars PROVE CountInv'
<1>0. Sides'
  BY SidesAgree, PTL
<1>1. CASE UNCHANGED vars
  <2>1. UNCHANGED <<legacy, coll, pc, loc, retries, overlaps, torn>>
    BY <1>1, Zenon DEF vars
  <2>2. Placed' <=> Placed
    BY <2>1 DEF Placed, Ids
  <2>3. \A a : Ids("rules", a)' = Ids("rules", a)
    BY <2>1, Zenon DEF Ids
  <2>4. ASSUME NEW k \in Kind, NEW r \in RowId(k) PROVE Count(k, r)' <=> Count(k, r)
    <3>1. CopyIds(k, r)' = CopyIds(k, r) /\ Copies(k, r)' = Copies(k, r)
      BY <2>1 DEF CopyIds, Copies, Ids
    <3>2. \A p \in Proc : Ahead(p, k, r)' = Ahead(p, k, r)
      BY <2>1, Zenon DEF Ahead, Hand
    <3>3. \A p \in Proc : /\ Inserting(p, k, r)' = Inserting(p, k, r)
                          /\ Deleting(p, k, r)' = Deleting(p, k, r)
      BY <2>1, Zenon DEF Inserting, Deleting, Hand
    <3>4. Found(k, r)' = Found(k, r)
      BY <2>1, Zenon DEF Found, Present, Ids, NameOf
    <3>5. \A p \in Proc : Will(p, k, r)' = Will(p, k, r)
      BY <3>2, <3>3, <3>4, Zenon DEF Will, Keyed
    <3>6. "daemon" \in Proc /\ "ctl" \in Proc
      BY Zenon DEF Proc
    <3> QED BY <2>1, <3>1, <3>3, <3>5, <3>6, ZenonT(30) DEF Count, Keyed
  <2> QED BY <2>2, <2>3, <2>4, Zenon DEF CountInv
<1>2. CASE Next
  <2>1. PICK p \in Proc : Step(p)
    BY <1>2, Zenon DEF Next, Step, Plain
  <2>2. PICK q \in Proc : q # p
    BY Zenon DEF Proc
  <2>3. Placed'
    BY <2>1, PlacedStep, Zenon DEF CountInv
  <2>4. \A a \in Account : Cardinality(Ids("rules", a)') <= 1
    BY <2>1, RulesStep, Zenon DEF CountInv
  <2>5. ASSUME NEW k \in Kind, NEW r \in RowId(k) PROVE Count(k, r)'
    <3>1. CountBy(p, q, k, r)
      BY <2>2, CountSides, Zenon DEF CountInv
    <3>2. CountBy(p, q, k, r)'
      <4>1. CASE Start(p)
        BY <2>2, <3>1, <4>1, CountStart, ZenonT(30) DEF CountInv
      <4>2. CASE ~Start(p) /\ CopyIds(k, r)' \subseteq CopyIds(k, r)
        BY <2>1, <2>2, <3>1, <4>2, CountKeeps, ZenonT(30)
      <4>3. CASE /\ InsertRow(p) /\ pc'[p] = "delete" /\ k = loc[p].k /\ r = Hand(p)
                 /\ Grows(loc[p].k, Dest(p, Hand(p)), HandDoc(p))
        BY <2>2, <3>1, <4>3, CountInsert, Zenon
      <4> QED BY <2>1, <4>1, <4>2, <4>3, CopyStep, ZenonT(30)
    <3> QED BY <1>0, <2>2, <3>2, Zenon DEF Sides
  <2> QED BY <2>3, <2>4, <2>5, Zenon DEF CountInv
<1> QED BY <1>1, <1>2, Zenon

\* A row is copied twice only for a start beside a running migration, for a
\* repeated insert or, if it has no key, for a death between its insert and its
\* delete; an account has at most one document of rules (migrateLegacyCollection).
THEOREM DuplicatesHaveCauses == Spec => []DuplicatesExplained
<1>1. Init => CountInv
  BY CountInit, Zenon
<1>2. RowsInv /\ CountInv /\ [Next]_vars => CountInv'
  BY CountNext, Zenon
<1>3. RowsInv /\ CountInv => DuplicatesExplained
  <2> SUFFICES ASSUME RowsInv, CountInv PROVE DuplicatesExplained
    BY Zenon
  <2>1. overlaps \in Nat /\ retries \in Nat /\ torn \in Nat
    BY Zenon DEF RowsInv, TypeOK
  <2>2. ASSUME NEW k \in Kind, NEW r \in RowId(k)
        PROVE  Copies(k, r) <= 1 + overlaps + retries + (IF k \in {"mailboxes", "rules"} THEN 0 ELSE torn)
    <3> DEFINE n == Copies(k, r)
               wd == One(Will("daemon", k, r))
               wc == One(Will("ctl", k, r))
    <3>1. /\ n + wd + wc <= 1 + overlaps + retries + (IF k \in {"mailboxes", "rules"} THEN 0 ELSE torn)
          /\ IsFiniteSet(CopyIds(k, r))
      BY Zenon DEF CountInv, Count, Keyed
    <3>2. n \in Nat /\ wd \in Nat /\ wc \in Nat
      BY <3>1, FS_CardinalityType, ZenonT(30) DEF Copies, One
    <3> HIDE DEF n, wd, wc
    <3>3. n <= 1 + overlaps + retries + (IF k \in {"mailboxes", "rules"} THEN 0 ELSE torn)
      BY <2>1, <3>1, <3>2
    <3> QED BY <3>3, Zenon DEF n
  <2> QED BY <2>2, Zenon DEF DuplicatesExplained, CountInv
<1> QED BY <1>1, <1>2, <1>3, RowsInvariant, PTL DEF Spec
=============================================================================
