--------------------------- MODULE Migration_proofs ---------------------------
(***************************************************************************)
(* Proofs about Migration: no row of the shared collections is ever lost,  *)
(* for every old server, every list of accounts and every bound on         *)
(* failures, retries, stops and starts.                                    *)
(***************************************************************************)
EXTENDS Migration, WellFoundedInduction, TLAPS

Doc == [row : Nat, mbox : Nat]
Working == {"scan", "row", "insert", "delete"}
Label == Migrating \cup Deduping \cup {"down", "up"}
Local == [k : Kind, todo : SUBSET Nat, accts : Seq(AcctId), owners : [BoxId -> AcctId \cup {0}],
          acct : Nat, pairs : SUBSET (Nat \X Nat), pair : Nat \X Nat]

TypeOK ==
    /\ legacy \in [Kind -> SUBSET Nat]
    /\ dropped \in SUBSET Kind
    /\ coll \in [Kind -> [AcctId -> Seq(Doc \cup {Null})]]
    /\ pc \in [Proc -> Label]
    /\ loc \in [Proc -> Local]
    /\ retries \in Nat /\ overlaps \in Nat /\ torn \in Nat

\* The row process p has in hand.
Hand(p) == Least(loc[p].todo)

\* The shared collections only shrink, and a row of no account stays.
Shared ==
    /\ \A k \in Kind : legacy[k] \subseteq RowId(k)
    /\ \A k \in Kind \ {"expunge_log"} : \A r \in RowId(k) : Legacy[k][r].acct = 0 => r \in legacy[k]
    /\ \A k \in dropped : legacy[k] = {}

\* What a process knows at each label.
Stage(p) ==
    /\ pc[p] \in Working => loc[p].todo # {} /\ loc[p].todo \subseteq RowId(loc[p].k)
    /\ pc[p] = "scan" => loc[p].k = "expunge_log"
    /\ pc[p] \in {"insert", "delete"} => Dest(p, Hand(p)) # 0
    /\ pc[p] = "insert" => Keyed(loc[p].k)
    /\ pc[p] = "delete" => Has(loc[p].k, Hand(p))

\* A process past the messages has left none that names an account.
PastMessages(p) ==
    \/ pc[p] \in Deduping \cup {"drop", "up"}
    \/ pc[p] \in {"find", "scan", "row", "insert", "delete"} /\ loc[p].k \in {"rules", "expunge_log"}

Passed(p) ==
    \A r \in legacy["messages"] :
        \/ Legacy["messages"][r].acct = 0
        \/ ~PastMessages(p) /\ (pc[p] \in Working /\ loc[p].k = "messages" => r \in loc[p].todo)

\* The tool's plan: each duplicate goes to a mailbox of its name that is there
\* and is itself no duplicate.
Plan ==
    LET c == loc["ctl"] IN
    /\ pc["daemon"] \notin Deduping
    /\ pc["ctl"] \in Deduping =>
        /\ c.acct \in Account
        /\ \A x \in c.pairs :
            /\ x[1] \in Ids("mailboxes", c.acct) /\ x[2] \in Ids("mailboxes", c.acct)
            /\ NameOf(coll["mailboxes"][c.acct][x[1]]) = NameOf(coll["mailboxes"][c.acct][x[2]])
            /\ \A y \in c.pairs : x[1] # y[2] /\ (x[2] = y[2] => x = y)
    /\ pc["ctl"] \in {"d_move", "d_box"} => c.pair \in c.pairs

\* While it merges, every message that names an account has a document that
\* the emptying of the duplicate at hand will spare.
Spared(a, i) ==
    LET c == loc["ctl"] IN
    pc["ctl"] = "d_move" /\ a = c.acct => coll["messages"][a][i].mbox # c.pair[2] \/ i \in c.todo

Safe ==
    pc["ctl"] \in Deduping =>
        \A r \in RowId("messages") :
            Legacy["messages"][r].acct # 0 =>
                \E a \in AcctId : \E i \in Ids("messages", a) : coll["messages"][a][i].row = r /\ Spared(a, i)

RowsInv ==
    /\ TypeOK /\ Shared /\ NoRowLost /\ Plan /\ Safe
    /\ \A p \in Proc : Stage(p) /\ Passed(p)

-----------------------------------------------------------------------------
(* Constants and operators.                                                *)

\* A nonempty set of ids has a least one.
LEMMA LeastIn ==
    ASSUME NEW S \in SUBSET Nat, S # {}
    PROVE  Least(S) \in S /\ \A j \in S : Least(S) <= j
<1> DEFINE Less == {n \in Nat \X Nat : n[1] < n[2]}
<1>1. IsWellFoundedOn(Less, Nat)
  BY NatLessThanWellFounded, Zenon DEF OpToRel
<1>2. \E x \in S : \A y \in S : ~(<<y, x>> \in Less)
  <2> HIDE DEF Less
  <2> QED BY <1>1, WFMin, Zenon
<1>3. \A x, y \in Nat : y < x => <<y, x>> \in Less
  BY Zenon
<1>4. \E x \in S : \A y \in S : x <= y
  <2>1. PICK x \in S : \A y \in S : ~(<<y, x>> \in Less)
    BY <1>2, Zenon
  <2>2. \A y \in S : ~(y < x)
    BY <1>3, <2>1, Zenon
  <2> QED BY <2>2
<1> QED BY <1>4, Zenon DEF Least

\* What the constants give: accounts, the rows of the old server, and no document is Null.
LEMMA ConstantFacts ==
    /\ Account \subseteq AcctId /\ AcctId \subseteq Nat \ {0}
    /\ Accounts \in Seq(AcctId)
    /\ \A k \in Kind : RowId(k) \subseteq Nat
    /\ \A k \in Kind : \A r \in RowId(k) :
          Legacy[k][r] \in Row /\ (Legacy[k][r].acct # 0 => Legacy[k][r].acct \in AcctId)
    /\ Null \notin Doc
<1>1. \A k \in Kind : RowId(k) \subseteq Nat /\ \A r \in RowId(k) : Legacy[k][r] \in Row
  BY ConstantsAssumption DEF RowId
<1>2. \A k \in Kind : \A r \in RowId(k) : Legacy[k][r].acct \in Nat
  BY <1>1, Zenon DEF Row
<1>3. \A i \in DOMAIN Accounts : Accounts[i] \in Nat \ {0}
  BY ConstantsAssumption
<1>4. Account \subseteq Nat \ {0}
  BY <1>3, Zenon DEF Account
<1>5. AcctId \subseteq Nat \ {0} /\ Account \subseteq AcctId
  <2>1. \A a \in AcctId : a # 0 /\ (a \in Account \/ \E k \in Kind : \E r \in RowId(k) : a = Legacy[k][r].acct)
    BY Zenon DEF AcctId
  <2>2. Account \subseteq AcctId
    BY <1>4, Zenon DEF AcctId
  <2> QED BY <1>2, <1>4, <2>1, <2>2
<1>6. \A k \in Kind : \A r \in RowId(k) : Legacy[k][r].acct # 0 => Legacy[k][r].acct \in AcctId
  BY DEF AcctId
<1>7. Accounts \in Seq(AcctId)
  <2>1. \A i \in DOMAIN Accounts : Accounts[i] \in AcctId
    BY <1>5, Zenon DEF Account
  <2> QED BY <2>1, ConstantsAssumption
<1> QED BY <1>1, <1>5, <1>6, <1>7, ConstantsAssumption, Zenon DEF Doc

\* The fields of a process's local variables have their types.
LEMMA LocalFields ==
    ASSUME NEW l \in Local
    PROVE  /\ l.k \in Kind /\ l.todo \in SUBSET Nat /\ l.accts \in Seq(AcctId)
           /\ l.owners \in [BoxId -> AcctId \cup {0}]
           /\ l.acct \in Nat /\ l.pairs \in SUBSET (Nat \X Nat) /\ l.pair \in Nat \X Nat
BY Zenon DEF Local

\* An assignment to a local variable keeps the type.
LEMMA LocalPuts ==
    ASSUME NEW l \in Local
    PROVE  /\ \A v \in Kind : [l EXCEPT !.k = v] \in Local
           /\ \A v \in SUBSET Nat : [l EXCEPT !.todo = v] \in Local
           /\ \A v \in SUBSET (Nat \X Nat) : [l EXCEPT !.pairs = v] \in Local
           /\ \A v \in SUBSET Nat, w \in Seq(AcctId) : [l EXCEPT !.todo = v, !.accts = w] \in Local
           /\ \A v \in Seq(AcctId), w \in [BoxId -> AcctId \cup {0}] :
                  [l EXCEPT !.accts = v, !.owners = w] \in Local
           /\ \A v \in Nat \X Nat, w \in SUBSET Nat : [l EXCEPT !.pair = v, !.todo = w] \in Local
           /\ \A v \in Nat, w \in SUBSET (Nat \X Nat) : [l EXCEPT !.acct = v, !.pairs = w] \in Local
BY Zenon DEF Local

\* The local variables of a process that starts have their types.
LEMMA IdleType == Idle \in Local
<1>1. NoOwners \in [BoxId -> AcctId \cup {0}]
  BY Zenon DEF NoOwners
<1>2. <<>> \in Seq(AcctId)
  OBVIOUS
<1> QED BY <1>1, <1>2, Zenon DEF Idle, Local, Kind

\* What the documents of a collection are.
LEMMA DocFacts ==
    ASSUME TypeOK, NEW k \in Kind, NEW a \in AcctId
    PROVE  /\ coll[k][a] \in Seq(Doc \cup {Null})
           /\ Ids(k, a) \subseteq Nat /\ Ids(k, a) \subseteq 1 .. Len(coll[k][a])
           /\ \A i \in Ids(k, a) : coll[k][a][i] \in Doc
BY DEF TypeOK, Ids

\* The second pass goes from one collection to another.
LEMMA NextKindType == \A k \in Kind \ {"expunge_log"} : NextKind(k) \in Kind
BY Zenon DEF NextKind, Kind

-----------------------------------------------------------------------------
(* Types.                                                                  *)

\* Going on to the next collection keeps the types.
LEMMA ProceedType ==
    ASSUME TypeOK, NEW p \in Proc, NEW k \in Kind, Proceed(p, k)
    PROVE  pc' \in [Proc -> Label] /\ loc' \in [Proc -> Local]
<1>1. CASE k = "expunge_log"
  BY <1>1, IdleType, Zenon DEF Proceed, TypeOK, Goto, Label, Migrating
<1>2. CASE k # "expunge_log"
  <2>1. [Idle EXCEPT !.k = NextKind(k)] \in Local
    BY <1>2, IdleType, LocalPuts, NextKindType, Zenon
  <2> QED BY <1>2, <2>1, Zenon DEF Proceed, TypeOK, Goto, Label, Migrating
<1> QED BY <1>1, <1>2, Zenon

\* Going on with the next row keeps the types.
LEMMA ContinueType ==
    ASSUME TypeOK, NEW p \in Proc, NEW k \in Kind, NEW todo \in SUBSET Nat, Continue(p, k, todo)
    PROVE  pc' \in [Proc -> Label] /\ loc' \in [Proc -> Local]
<1>1. CASE todo = {}
  BY <1>1, ProceedType, Zenon DEF Continue
<1>2. CASE todo # {}
  <2>1. loc[p] \in Local
    BY Zenon DEF TypeOK
  <2>2. [loc[p] EXCEPT !.todo = todo] \in Local
    BY <2>1, LocalPuts, Zenon
  <2> QED BY <1>2, <2>2, Zenon DEF Continue, TypeOK, Goto, Give, Label, Migrating
<1> QED BY <1>1, <1>2, Zenon

\* A row goes to an account, or nowhere.
LEMMA DestType ==
    ASSUME TypeOK, NEW p \in Proc, NEW r \in RowId(loc[p].k)
    PROVE  Dest(p, r) \in AcctId \cup {0}
<1>1. loc[p].k \in Kind /\ loc[p].owners \in [BoxId -> AcctId \cup {0}]
  BY LocalFields, Zenon DEF TypeOK
<1> QED BY <1>1, ConstantFacts, Zenon DEF Dest

\* One collection is replaced by another sequence of documents.
Put(c, k, a, s) == [c EXCEPT ![k][a] = s]

\* Replacing one collection leaves the others.
LEMMA CollPut ==
    ASSUME TypeOK, NEW k \in Kind, NEW a \in AcctId, NEW s \in Seq(Doc \cup {Null}),
           NEW c, c = Put(coll, k, a, s)
    PROVE  /\ c \in [Kind -> [AcctId -> Seq(Doc \cup {Null})]]
           /\ c[k][a] = s
           /\ \A j \in Kind, b \in AcctId : <<j, b>> # <<k, a>> => c[j][b] = coll[j][b]
<1>1. coll \in [Kind -> [AcctId -> Seq(Doc \cup {Null})]]
  BY Zenon DEF TypeOK
<1> DEFINE D == Seq(Doc \cup {Null})
<1>2. s \in D
  BY Zenon
<1> HIDE DEF D
<1>3. [coll[k] EXCEPT ![a] = s] \in [AcctId -> D]
  BY <1>1, <1>2, Zenon DEF D
<1> QED BY <1>1, <1>3, Zenon DEF D, Put

\* The row in hand, and what an insert adds.
LEMMA HandType ==
    ASSUME TypeOK, NEW p \in Proc, Stage(p), pc[p] \in Working
    PROVE  /\ loc[p].k \in Kind /\ Hand(p) \in loc[p].todo /\ Hand(p) \in RowId(loc[p].k)
           /\ [row |-> Hand(p), mbox |-> Legacy[loc[p].k][Hand(p)].mbox] \in Doc
<1>1. loc[p].k \in Kind /\ loc[p].todo \in SUBSET Nat
  BY LocalFields, Zenon DEF TypeOK
<1>2. loc[p].todo # {} /\ loc[p].todo \subseteq RowId(loc[p].k)
  BY Zenon DEF Stage
<1>3. Hand(p) \in loc[p].todo
  BY <1>1, <1>2, LeastIn, Zenon DEF Hand
<1>4. Legacy[loc[p].k][Hand(p)].mbox \in Nat /\ Hand(p) \in Nat
  BY <1>1, <1>2, <1>3, ConstantFacts, Zenon DEF Row
<1> QED BY <1>1, <1>2, <1>3, <1>4, Zenon DEF Doc

\* A step that inserts: the old documents stay, the new ones are made from the
\* row in hand, and there is one, or two with a retry.
Grows(k, a, d) ==
    /\ coll' \in [Kind -> [AcctId -> Seq(Doc \cup {Null})]]
    /\ \A j \in Kind, b \in AcctId : <<j, b>> # <<k, a>> => coll'[j][b] = coll[j][b]
    /\ \A i \in 1 .. Len(coll[k][a]) : coll'[k][a][i] = coll[k][a][i]
    /\ \/ /\ Len(coll'[k][a]) = Len(coll[k][a]) + 1 /\ coll'[k][a][Len(coll[k][a]) + 1] = d
          /\ retries' = retries
       \/ /\ Len(coll'[k][a]) = Len(coll[k][a]) + 2 /\ coll'[k][a][Len(coll[k][a]) + 1] = d
          /\ coll'[k][a][Len(coll[k][a]) + 2] = d /\ ~(k = "rules" /\ a \in Account)
          /\ retries' = retries + 1

HandDoc(p) == [row |-> Hand(p), mbox |-> Legacy[loc[p].k][Hand(p)].mbox]

\* What an insert does: it is refused, or the collection grows.
LEMMA InsertFacts ==
    ASSUME TypeOK, NEW p \in Proc, Stage(p), InsertRow(p)
    PROVE  /\ pc[p] \in {"insert", "row"} /\ loc[p].k \in Kind /\ Hand(p) \in RowId(loc[p].k)
           /\ pc[p] = "row" => ~Keyed(loc[p].k)
           /\ Dest(p, Hand(p)) \in AcctId
           /\ HandDoc(p) \in Doc
           /\ \/ /\ Refused(loc[p].k, Dest(p, Hand(p)))
                 /\ pc' = [pc EXCEPT ![p] = "down"] /\ UNCHANGED <<coll, retries>>
              \/ /\ ~Refused(loc[p].k, Dest(p, Hand(p)))
                 /\ pc' = [pc EXCEPT ![p] = "delete"] /\ Grows(loc[p].k, Dest(p, Hand(p)), HandDoc(p))
           /\ UNCHANGED <<legacy, dropped, loc, overlaps, torn>>
<1> DEFINE k == loc[p].k
           r == Hand(p)
           a == Dest(p, r)
           d == HandDoc(p)
<1>1. /\ pc[p] = "insert" \/ (pc[p] = "row" /\ a # 0 /\ ~Keyed(k))
      /\ UNCHANGED <<legacy, dropped, loc, overlaps, torn>>
      /\ \/ Refused(k, a) /\ pc' = [pc EXCEPT ![p] = "down"] /\ UNCHANGED <<coll, retries>>
         \/ /\ ~Refused(k, a)
            /\ coll' = [coll EXCEPT ![k][a] = Append(coll[k][a], d)]
            /\ pc' = [pc EXCEPT ![p] = "delete"] /\ UNCHANGED retries
         \/ /\ ~Refused(k, a) /\ ~(k = "rules" /\ a \in Account)
            /\ retries' = retries + 1
            /\ coll' = [coll EXCEPT ![k][a] = coll[k][a] \o <<d, d>>]
            /\ pc' = [pc EXCEPT ![p] = "delete"]
  BY Zenon DEF InsertRow, Hand, HandDoc, Goto
<1>2. pc[p] \in Working
  BY <1>1, Zenon DEF Working
<1>3. k \in Kind /\ r \in RowId(k) /\ d \in Doc
  BY <1>2, HandType, Zenon DEF HandDoc
<1>4. a \in AcctId
  BY <1>1, <1>3, DestType, Zenon DEF Stage
<1> HIDE DEF k, a, d
<1>5. coll[k][a] \in Seq(Doc \cup {Null})
  BY <1>3, <1>4, Zenon DEF TypeOK
<1>6. ASSUME coll' = [coll EXCEPT ![k][a] = Append(coll[k][a], d)], retries' = retries
      PROVE  Grows(k, a, d)
  <2> DEFINE s == Append(coll[k][a], d)
  <2>1. /\ s \in Seq(Doc \cup {Null}) /\ Len(s) = Len(coll[k][a]) + 1 /\ s[Len(coll[k][a]) + 1] = d
        /\ \A i \in 1 .. Len(coll[k][a]) : s[i] = coll[k][a][i]
    BY <1>3, <1>5
  <2> HIDE DEF s
  <2>2. coll' = Put(coll, k, a, s)
    BY <1>6, Zenon DEF s, Put
  <2>3. /\ coll' \in [Kind -> [AcctId -> Seq(Doc \cup {Null})]]
        /\ coll'[k][a] = s
        /\ \A j \in Kind, b \in AcctId : <<j, b>> # <<k, a>> => coll'[j][b] = coll[j][b]
    BY <1>3, <1>4, <2>1, <2>2, CollPut
  <2> QED BY <1>6, <2>1, <2>3, Zenon DEF Grows
<1>7. ASSUME coll' = [coll EXCEPT ![k][a] = coll[k][a] \o <<d, d>>], retries' = retries + 1,
             ~(k = "rules" /\ a \in Account)
      PROVE  Grows(k, a, d)
  <2> DEFINE s == coll[k][a] \o <<d, d>>
  <2>1. /\ s \in Seq(Doc \cup {Null}) /\ Len(s) = Len(coll[k][a]) + 2 /\ s[Len(coll[k][a]) + 1] = d
        /\ s[Len(coll[k][a]) + 2] = d
        /\ \A i \in 1 .. Len(coll[k][a]) : s[i] = coll[k][a][i]
    BY <1>3, <1>5
  <2> HIDE DEF s
  <2>2. coll' = Put(coll, k, a, s)
    BY <1>7, Zenon DEF s, Put
  <2>3. /\ coll' \in [Kind -> [AcctId -> Seq(Doc \cup {Null})]]
        /\ coll'[k][a] = s
        /\ \A j \in Kind, b \in AcctId : <<j, b>> # <<k, a>> => coll'[j][b] = coll[j][b]
    BY <1>3, <1>4, <2>1, <2>2, CollPut
  <2> QED BY <1>7, <2>1, <2>3, Zenon DEF Grows
<1> QED BY <1>1, <1>3, <1>4, <1>6, <1>7, Zenon DEF k, a, d

\* A step that rewrites documents of one collection.
Rewrites(k, a) ==
    /\ coll' \in [Kind -> [AcctId -> Seq(Doc \cup {Null})]]
    /\ \A j \in Kind, b \in AcctId : <<j, b>> # <<k, a>> => coll'[j][b] = coll[j][b]
    /\ DOMAIN coll'[k][a] = DOMAIN coll[k][a]

\* Only the tool deduplicates, and it works on an account.
LEMMA DedupeProc ==
    ASSUME TypeOK, Plan, NEW p \in Proc, pc[p] \in Deduping
    PROVE  p = "ctl" /\ loc["ctl"] \in Local /\ loc["ctl"].acct \in Account /\ loc["ctl"].acct \in AcctId
<1>1. p = "ctl"
  BY Zenon DEF Plan, Proc
<1>2. loc["ctl"] \in Local
  BY Zenon DEF TypeOK, Proc
<1> QED BY <1>1, <1>2, ConstantFacts, Zenon DEF Plan

Moves(a, i, b) ==
    /\ Rewrites("messages", a)
    /\ i \in Ids("messages", a)
    /\ coll'["messages"][a][i].row = coll["messages"][a][i].row /\ coll'["messages"][a][i].mbox = b
    /\ coll'["messages"][a][i] \in Doc
    /\ \A j \in DOMAIN coll["messages"][a] : j # i => coll'["messages"][a][j] = coll["messages"][a][j]

\* What moving a message to the mailbox kept does.
LEMMA MoveFacts ==
    ASSUME TypeOK, Plan, NEW p \in Proc, DedupeMove(p)
    PROVE  /\ p = "ctl" /\ pc["ctl"] = "d_move" /\ UNCHANGED <<legacy, dropped, retries, overlaps, torn>>
           /\ \/ pc' = [pc EXCEPT !["ctl"] = "down"] /\ UNCHANGED <<coll, loc>>
              \/ /\ Hand("ctl") \in loc["ctl"].todo
                 /\ Moves(loc["ctl"].acct, Hand("ctl"), loc["ctl"].pair[1])
                 /\ pc' = pc
                 /\ loc' = [loc EXCEPT !["ctl"].todo = loc["ctl"].todo \ {Hand("ctl")}]
<1>1. pc[p] = "d_move" /\ loc[p].todo # {}
  BY Zenon DEF DedupeMove
<1>2. p = "ctl" /\ loc["ctl"] \in Local /\ loc["ctl"].acct \in AcctId
  BY <1>1, DedupeProc, Zenon DEF Deduping
<1> DEFINE a == loc["ctl"].acct
           i == Hand("ctl")
           b == loc["ctl"].pair[1]
           m == coll["messages"][a]
           s == [m EXCEPT ![i].mbox = b]
<1>3. i \in loc["ctl"].todo /\ b \in Nat
  BY <1>1, <1>2, LeastIn, LocalFields, Zenon DEF Hand
<1>4. ASSUME i \in Ids("messages", a), coll' = Put(coll, "messages", a, s)
      PROVE  Moves(a, i, b)
  <2>1. "messages" \in Kind
    BY Zenon DEF Kind
  <2>2. m \in Seq(Doc \cup {Null}) /\ i \in 1 .. Len(m) /\ m[i] \in Doc
    BY <1>2, <1>4, <2>1, DocFacts, Zenon
  <2> DEFINE d == [m[i] EXCEPT !.mbox = b]
  <2>3. d \in Doc /\ d.row = m[i].row /\ d.mbox = b
    BY <1>3, <2>2, Zenon DEF Doc
  <2>4. s = [m EXCEPT ![i] = d]
    BY <2>2, Zenon
  <2> HIDE DEF d, m
  <2>5. s \in Seq(Doc \cup {Null}) /\ DOMAIN s = DOMAIN m /\ s[i] = d /\ \A j \in DOMAIN m : j # i => s[j] = m[j]
    <3> HIDE DEF s
    <3> QED BY <2>2, <2>3, <2>4
  <2> HIDE DEF s, a, i, b
  <2>6. /\ coll' \in [Kind -> [AcctId -> Seq(Doc \cup {Null})]]
        /\ coll'["messages"][a] = s
        /\ \A j \in Kind, c \in AcctId : <<j, c>> # <<"messages", a>> => coll'[j][c] = coll[j][c]
    BY <1>2, <1>4, <2>1, <2>5, CollPut DEF a
  <2> QED BY <1>4, <2>3, <2>5, <2>6, Zenon DEF Moves, Rewrites, m
<1>5. /\ UNCHANGED <<legacy, dropped, retries, overlaps, torn>>
      /\ \/ pc' = [pc EXCEPT !["ctl"] = "down"] /\ UNCHANGED <<coll, loc>>
         \/ /\ i \in Ids("messages", a) /\ coll' = Put(coll, "messages", a, s)
            /\ pc' = pc /\ loc' = [loc EXCEPT !["ctl"].todo = loc["ctl"].todo \ {i}]
  BY <1>2, Zenon DEF DedupeMove, Goto, Give, bounds, Put, Hand
<1> HIDE DEF a, i, b, s
<1> QED BY <1>1, <1>2, <1>3, <1>4, <1>5, Zenon DEF a, i, b

Empties(a, b) ==
    /\ Rewrites("messages", a)
    /\ \A j \in DOMAIN coll["messages"][a] :
          coll'["messages"][a][j] = IF j \in InBox(a, b) THEN Null ELSE coll["messages"][a][j]

\* What deleting the messages of a duplicate does.
LEMMA EmptyFacts ==
    ASSUME TypeOK, Plan, NEW p \in Proc, DedupeEmpty(p)
    PROVE  /\ p = "ctl" /\ pc["ctl"] = "d_move" /\ UNCHANGED <<legacy, dropped, loc, retries, overlaps, torn>>
           /\ loc["ctl"].todo = {}
           /\ Empties(loc["ctl"].acct, loc["ctl"].pair[2])
           /\ pc' = [pc EXCEPT !["ctl"] = "d_box"]
<1>1. pc[p] = "d_move" /\ loc[p].todo = {}
  BY Zenon DEF DedupeEmpty
<1>2. p = "ctl" /\ loc["ctl"] \in Local /\ loc["ctl"].acct \in AcctId
  BY <1>1, DedupeProc, Zenon DEF Deduping
<1> DEFINE a == loc["ctl"].acct
           b == loc["ctl"].pair[2]
           m == coll["messages"][a]
           s == [i \in DOMAIN m |-> IF i \in InBox(a, b) THEN Null ELSE m[i]]
<1>3. coll' = Put(coll, "messages", a, s)
  BY <1>2, Zenon DEF DedupeEmpty, Put
<1>4. "messages" \in Kind
  BY Zenon DEF Kind
<1>5. m \in Seq(Doc \cup {Null})
  BY <1>2, <1>4, DocFacts, Zenon
<1>6. s \in Seq(Doc \cup {Null}) /\ DOMAIN s = DOMAIN m
      /\ \A j \in DOMAIN m : s[j] = IF j \in InBox(a, b) THEN Null ELSE m[j]
  <2> HIDE DEF m
  <2> QED BY <1>5
<1> HIDE DEF s, a, b
<1>7. /\ coll' \in [Kind -> [AcctId -> Seq(Doc \cup {Null})]]
      /\ coll'["messages"][a] = s
      /\ \A j \in Kind, c \in AcctId : <<j, c>> # <<"messages", a>> => coll'[j][c] = coll[j][c]
  BY <1>2, <1>3, <1>4, <1>6, CollPut DEF a
<1>8. Empties(a, b)
  BY <1>6, <1>7, Zenon DEF Empties, Rewrites, m
<1>9. /\ UNCHANGED <<legacy, dropped, loc, retries, overlaps, torn>>
      /\ pc' = [pc EXCEPT !["ctl"] = "d_box"]
  BY <1>2, Zenon DEF DedupeEmpty, Goto, bounds
<1> QED BY <1>1, <1>2, <1>8, <1>9, Zenon DEF a, b

Drops(a, i) ==
    /\ Rewrites("mailboxes", a)
    /\ i \in DOMAIN coll["mailboxes"][a] => coll'["mailboxes"][a][i] = Null
    /\ \A j \in DOMAIN coll["mailboxes"][a] : j # i => coll'["mailboxes"][a][j] = coll["mailboxes"][a][j]

\* What deleting a duplicate does.
LEMMA DropFacts ==
    ASSUME TypeOK, Plan, NEW p \in Proc, DedupeDrop(p)
    PROVE  /\ p = "ctl" /\ pc["ctl"] = "d_box" /\ UNCHANGED <<legacy, dropped, retries, overlaps, torn>>
           /\ loc["ctl"].pair \in loc["ctl"].pairs
           /\ Drops(loc["ctl"].acct, loc["ctl"].pair[2])
           /\ loc' = [loc EXCEPT !["ctl"].pairs = loc["ctl"].pairs \ {loc["ctl"].pair}]
           /\ \/ pc' = [pc EXCEPT !["ctl"] = "up"]
              \/ pc' = [pc EXCEPT !["ctl"] = "d_next"]
<1>1. pc[p] = "d_box"
  BY Zenon DEF DedupeDrop
<1>2. p = "ctl" /\ loc["ctl"] \in Local /\ loc["ctl"].acct \in AcctId
  BY <1>1, DedupeProc, Zenon DEF Deduping
<1> DEFINE a == loc["ctl"].acct
           i == loc["ctl"].pair[2]
           m == coll["mailboxes"][a]
           s == [m EXCEPT ![i] = Null]
<1>3. coll' = Put(coll, "mailboxes", a, s)
  BY <1>2, Zenon DEF DedupeDrop, Put
<1>4. "mailboxes" \in Kind
  BY Zenon DEF Kind
<1>0. loc["ctl"].pair \in loc["ctl"].pairs /\ i \in Ids("mailboxes", a)
  BY <1>1, <1>2, Zenon DEF Plan, Deduping
<1>5. m \in Seq(Doc \cup {Null}) /\ i \in 1 .. Len(m)
  BY <1>0, <1>2, <1>4, DocFacts, Zenon
<1>6. s \in Seq(Doc \cup {Null}) /\ DOMAIN s = DOMAIN m /\ s[i] = Null
      /\ \A j \in DOMAIN m : j # i => s[j] = m[j]
  <2> HIDE DEF m, i
  <2> QED BY <1>5
<1> HIDE DEF s, a, i
<1>7. /\ coll' \in [Kind -> [AcctId -> Seq(Doc \cup {Null})]]
      /\ coll'["mailboxes"][a] = s
      /\ \A j \in Kind, c \in AcctId : <<j, c>> # <<"mailboxes", a>> => coll'[j][c] = coll[j][c]
  BY <1>2, <1>3, <1>4, <1>6, CollPut DEF a
<1>8. Drops(a, i)
  BY <1>6, <1>7, Zenon DEF Drops, Rewrites, m
<1>9. /\ UNCHANGED <<legacy, dropped, retries, overlaps, torn>>
      /\ loc' = [loc EXCEPT !["ctl"].pairs = loc["ctl"].pairs \ {loc["ctl"].pair}]
      /\ pc' = [pc EXCEPT !["ctl"] = "up"] \/ pc' = [pc EXCEPT !["ctl"] = "d_next"]
  BY <1>2, Zenon DEF DedupeDrop, Goto, Give, bounds
<1> QED BY <1>1, <1>2, <1>8, <1>9, <1>0, Zenon DEF a, i

\* The plan dedupOneAccount makes: each duplicate goes to a mailbox of its
\* name that is itself no duplicate.
LEMMA DuplicateFacts ==
    ASSUME TypeOK, NEW a \in AcctId
    PROVE  /\ Duplicates(a) \in SUBSET (Nat \X Nat)
           /\ \A x \in Duplicates(a) :
                /\ x[1] \in Ids("mailboxes", a) /\ x[2] \in Ids("mailboxes", a)
                /\ NameOf(coll["mailboxes"][a][x[1]]) = NameOf(coll["mailboxes"][a][x[2]])
                /\ \A y \in Duplicates(a) : x[1] # y[2] /\ (x[2] = y[2] => x = y)
<1> DEFINE S == Ids("mailboxes", a)
           name(i) == NameOf(coll["mailboxes"][a][i])
           named(i) == {j \in S : name(j) = name(i)}
<1>1. Duplicates(a) = {<<Least(named(i)), i>> : i \in {j \in S : j # Least(named(j))}}
  BY Zenon DEF Duplicates
<1>2. S \in SUBSET Nat
  BY DocFacts, Zenon DEF Kind
<1> HIDE DEF S, name
<1>3. \A i \in S : Least(named(i)) \in named(i)
  <2> TAKE i \in S
  <2>1. named(i) \in SUBSET Nat /\ named(i) # {}
    BY <1>2, Zenon
  <2> QED BY <2>1, LeastIn, Zenon
<1>4. ASSUME NEW i \in S
      PROVE  named(Least(named(i))) = named(i)
  <2>1. Least(named(i)) \in named(i)
    BY <1>3, Zenon
  <2> DEFINE l == Least(named(i))
  <2> HIDE DEF l
  <2>2. name(l) = name(i)
    BY <2>1, Zenon DEF l
  <2>3. named(l) = named(i)
    BY <2>2, Zenon
  <2> QED BY <2>3, Zenon DEF l
<1>5. ASSUME NEW x \in Duplicates(a)
      PROVE  /\ x[2] \in S /\ x = <<Least(named(x[2])), x[2]>> /\ x[2] # Least(named(x[2]))
             /\ x[1] \in S /\ name(x[1]) = name(x[2])
  <2>1. PICK i \in S : i # Least(named(i)) /\ x = <<Least(named(i)), i>>
    BY <1>1, Zenon
  <2> HIDE DEF named
  <2>2. x[1] = Least(named(i)) /\ x[2] = i
    BY <2>1, Zenon
  <2>3. x[1] \in named(i)
    BY <1>3, <2>2, Zenon
  <2> QED BY <2>1, <2>2, <2>3, Zenon DEF named
<1>6. ASSUME NEW x \in Duplicates(a), NEW y \in Duplicates(a)
      PROVE  x[1] # y[2] /\ (x[2] = y[2] => x = y)
  <2>1. x[1] = Least(named(x[2])) /\ x[2] \in S /\ y[2] # Least(named(y[2]))
        /\ x = <<Least(named(x[2])), x[2]>> /\ y = <<Least(named(y[2])), y[2]>>
    <3> HIDE DEF named
    <3> QED BY <1>5
  <2>2. Least(named(x[1])) = x[1]
    BY <1>4, <2>1, Zenon
  <2> HIDE DEF named
  <2> QED BY <2>1, <2>2, Zenon
<1>7. Duplicates(a) \in SUBSET (Nat \X Nat)
  <2> HIDE DEF named
  <2>1. \A x \in Duplicates(a) : \E i, j \in S : x = <<i, j>>
    BY <1>5, ZenonT(30)
  <2> QED BY <1>2, <2>1
<1> QED BY <1>5, <1>6, <1>7, Zenon DEF S, name

\* A step outside the dedupe command.
Plain(p) == Start(p) \/ Migrate(p) \/ Fail(p) \/ Stop(p)
Step(p) == Plain(p) \/ Dedupe(p)

\* Every step keeps the types.
LEMMA TypeStep ==
    ASSUME TypeOK, Plan, NEW p \in Proc, Stage(p), Step(p)
    PROVE  TypeOK'
<1>0. loc[p] \in Local /\ loc[p].k \in Kind /\ loc[p].todo \in SUBSET Nat /\ p \in DOMAIN pc /\ p \in DOMAIN loc
  BY LocalFields, Zenon DEF TypeOK
<1>1. CASE Start(p)
  BY <1>1, IdleType DEF Start, TypeOK, Goto, Label, Migrating
<1>2. CASE FindRows(p)
  <2> DEFINE k == loc[p].k
             found == IF k \in dropped THEN {} ELSE legacy[k]
  <2>1. found \in SUBSET Nat
    BY <1>0, Zenon DEF TypeOK
  <2>2. UNCHANGED <<legacy, dropped, coll, retries, overlaps, torn>>
    BY <1>2, Zenon DEF FindRows, bounds
  <2> HIDE DEF found
  <2>3. \/ pc' = [pc EXCEPT ![p] = "scan"] /\ loc' = [loc EXCEPT ![p] = [loc[p] EXCEPT !.todo = found, !.accts = Accounts]]
        \/ Continue(p, k, found)
    BY <1>0, <1>2, Zenon DEF FindRows, Goto, found
  <2>4. [loc[p] EXCEPT !.todo = found, !.accts = Accounts] \in Local
    BY <1>0, <2>1, ConstantFacts, LocalPuts, Zenon
  <2>5. pc' \in [Proc -> Label] /\ loc' \in [Proc -> Local]
    <3>1. CASE Continue(p, k, found)
      BY <1>0, <2>1, <3>1, ContinueType, Zenon
    <3>2. CASE pc' = [pc EXCEPT ![p] = "scan"] /\ loc' = [loc EXCEPT ![p] = [loc[p] EXCEPT !.todo = found, !.accts = Accounts]]
      BY <2>4, <3>2, Zenon DEF TypeOK, Label, Migrating
    <3> QED BY <2>3, <3>1, <3>2, Zenon
  <2> QED BY <2>2, <2>5, Zenon DEF TypeOK
<1>3. CASE ScanOwners(p)
  <2>1. UNCHANGED <<legacy, dropped, coll, retries, overlaps, torn>> /\ pc' \in [Proc -> Label]
    BY <1>3, Zenon DEF ScanOwners, bounds, TypeOK, Goto, Label, Migrating
  <2>2. CASE loc[p].accts = <<>>
    BY <1>3, <2>1, <2>2, Zenon DEF ScanOwners, TypeOK
  <2>3. CASE loc[p].accts # <<>>
    <3> DEFINE t == Tail(loc[p].accts)
               o == Owners(p, Head(loc[p].accts))
    <3>1. loc[p].accts \in Seq(AcctId) /\ loc[p].owners \in [BoxId -> AcctId \cup {0}]
      BY <1>0, LocalFields, Zenon
    <3>2. t \in Seq(AcctId) /\ Head(loc[p].accts) \in AcctId
      BY <2>3, <3>1
    <3>3. o \in [BoxId -> AcctId \cup {0}]
      BY <3>1, <3>2, Zenon DEF Owners
    <3>4. loc' = [loc EXCEPT ![p] = [loc[p] EXCEPT !.accts = t, !.owners = o]]
      BY <1>3, <2>3, Zenon DEF ScanOwners
    <3> HIDE DEF t, o
    <3>5. [loc[p] EXCEPT !.accts = t, !.owners = o] \in Local
      BY <1>0, <3>2, <3>3, LocalPuts, Zenon
    <3> QED BY <2>1, <3>4, <3>5, Zenon DEF TypeOK
  <2> QED BY <2>2, <2>3, Zenon
<1>4. CASE SkipRow(p)
  <2>1. Continue(p, loc[p].k, loc[p].todo \ {Hand(p)}) /\ UNCHANGED <<legacy, dropped, coll, retries, overlaps, torn>>
    BY <1>4, Zenon DEF SkipRow, Hand, bounds
  <2> QED BY <1>0, <2>1, ContinueType DEF TypeOK
<1>5. CASE LookUp(p)
  BY <1>5, Zenon DEF LookUp, TypeOK, Goto, bounds, Label, Migrating
<1>6. CASE InsertRow(p)
  <2>1. pc' \in [Proc -> Label] /\ UNCHANGED <<legacy, dropped, loc, overlaps, torn>>
    BY <1>6, InsertFacts, Zenon DEF TypeOK, Label, Migrating
  <2>2. coll' \in [Kind -> [AcctId -> Seq(Doc \cup {Null})]] /\ retries' \in Nat
    <3>1. CASE UNCHANGED <<coll, retries>>
      BY <3>1, Zenon DEF TypeOK
    <3>2. CASE Grows(loc[p].k, Dest(p, Hand(p)), HandDoc(p))
      <4>1. coll' \in [Kind -> [AcctId -> Seq(Doc \cup {Null})]] /\ (retries' = retries \/ retries' = retries + 1)
        BY <3>2, Zenon DEF Grows
      <4> QED BY <4>1 DEF TypeOK
    <3> QED BY <1>6, <3>1, <3>2, InsertFacts, Zenon
  <2> QED BY <2>1, <2>2, Zenon DEF TypeOK
<1>7. CASE DeleteRow(p)
  <2>1. /\ Continue(p, loc[p].k, loc[p].todo \ {Hand(p)}) \/ (pc' = [pc EXCEPT ![p] = "down"] /\ loc' = loc)
        /\ legacy' = [legacy EXCEPT ![loc[p].k] = legacy[loc[p].k] \ {Hand(p)}]
        /\ UNCHANGED <<dropped, coll, retries, overlaps, torn>>
    BY <1>7, Zenon DEF DeleteRow, Hand, bounds, Goto
  <2>2. pc' \in [Proc -> Label] /\ loc' \in [Proc -> Local]
    <3>1. CASE Continue(p, loc[p].k, loc[p].todo \ {Hand(p)})
      BY <1>0, <3>1, ContinueType, Zenon
    <3>2. CASE pc' = [pc EXCEPT ![p] = "down"] /\ loc' = loc
      BY <3>2, Zenon DEF TypeOK, Label
    <3> QED BY <2>1, <3>1, <3>2, Zenon
  <2>3. legacy' \in [Kind -> SUBSET Nat]
    BY <1>0, <2>1, Zenon DEF TypeOK
  <2> QED BY <2>1, <2>2, <2>3, Zenon DEF TypeOK
<1>8. CASE DropLegacy(p)
  <2> DEFINE k == loc[p].k
  <2>1. legacy' = legacy \/ legacy' = [legacy EXCEPT ![k] = {}]
    BY <1>8, Zenon DEF DropLegacy
  <2>2. dropped' = dropped \/ dropped' = dropped \cup {k}
    BY <1>8, Zenon DEF DropLegacy
  <2>3. UNCHANGED <<coll, retries, overlaps, torn>>
    BY <1>8, Zenon DEF DropLegacy, bounds
  <2>4. pc' \in [Proc -> Label] /\ loc' \in [Proc -> Local]
    <3>1. CASE k = "expunge_log"
      BY <1>8, <3>1, Zenon DEF DropLegacy, TypeOK, Goto, Label
    <3>2. CASE k # "expunge_log"
      <4>1. [loc[p] EXCEPT !.k = NextKind(k)] \in Local
        BY <1>0, <3>2, LocalPuts, NextKindType, Zenon
      <4> QED BY <1>8, <3>2, <4>1, Zenon DEF DropLegacy, TypeOK, Give
    <3> QED BY <3>1, <3>2, Zenon
  <2> QED BY <1>0, <2>1, <2>2, <2>3, <2>4, Zenon DEF TypeOK
<1>9. CASE Fail(p)
  BY <1>9 DEF Fail, TypeOK, Goto, Label
<1>10. CASE Stop(p)
  BY <1>10, Zenon DEF Stop, TypeOK, Goto, Label
<1>11. CASE DedupeAccount(p)
  <2>1. PICK a \in Account : loc' = [loc EXCEPT ![p] = [Idle EXCEPT !.acct = a, !.pairs = Duplicates(a)]]
    BY <1>11, Zenon DEF DedupeAccount
  <2>2. a \in AcctId /\ a \in Nat
    BY ConstantFacts, Zenon
  <2> DEFINE w == Duplicates(a)
  <2>3. w \in SUBSET (Nat \X Nat)
    BY <2>2, DuplicateFacts, Zenon
  <2> HIDE DEF w
  <2>4. [Idle EXCEPT !.acct = a, !.pairs = w] \in Local
    BY <2>2, <2>3, IdleType, LocalPuts, Zenon
  <2>5. loc' \in [Proc -> Local]
    BY <2>1, <2>4, Zenon DEF TypeOK, w
  <2> QED BY <1>11, <2>5, Zenon DEF DedupeAccount, TypeOK, Goto, bounds, Label, Deduping
<1>12. CASE DedupeBox(p)
  <2>0. p = "ctl" /\ loc[p].acct \in AcctId
    BY <1>12, DedupeProc, Zenon DEF DedupeBox, Deduping
  <2>1. PICK x \in loc[p].pairs : loc' = [loc EXCEPT ![p] = [loc[p] EXCEPT !.pair = x, !.todo = InBox(loc[p].acct, x[2])]]
    BY <1>12, Zenon DEF DedupeBox
  <2>2. x \in Nat \X Nat
    BY <1>0, LocalFields, Zenon
  <2> DEFINE w == InBox(loc[p].acct, x[2])
  <2>3. w \in SUBSET Nat
    BY <2>0, DocFacts, Zenon DEF InBox, Kind
  <2> HIDE DEF w
  <2>4. [loc[p] EXCEPT !.pair = x, !.todo = w] \in Local
    BY <1>0, <2>2, <2>3, LocalPuts, Zenon
  <2>5. loc' \in [Proc -> Local]
    BY <2>1, <2>4, Zenon DEF TypeOK, w
  <2> QED BY <1>12, <2>5, Zenon DEF DedupeBox, TypeOK, Goto, bounds, Label, Deduping
<1>13. CASE DedupeMove(p)
  <2>0. loc["ctl"] \in Local /\ loc["ctl"].todo \ {Hand("ctl")} \in SUBSET Nat
    BY LocalFields, Zenon DEF TypeOK, Proc
  <2>1. [loc["ctl"] EXCEPT !.todo = loc["ctl"].todo \ {Hand("ctl")}] \in Local
    BY <2>0, LocalPuts, Zenon
  <2>2. loc' \in [Proc -> Local] /\ pc' \in [Proc -> Label]
    BY <1>13, <2>1, MoveFacts, Zenon DEF TypeOK, Label
  <2>3. coll' \in [Kind -> [AcctId -> Seq(Doc \cup {Null})]]
    BY <1>13, MoveFacts, Zenon DEF Moves, Rewrites, TypeOK
  <2> QED BY <1>13, <2>2, <2>3, MoveFacts, Zenon DEF TypeOK
<1>14. CASE DedupeEmpty(p)
  <2>1. coll' \in [Kind -> [AcctId -> Seq(Doc \cup {Null})]] /\ pc' \in [Proc -> Label]
    BY <1>14, EmptyFacts, Zenon DEF Empties, Rewrites, TypeOK, Label, Deduping
  <2> QED BY <1>14, <2>1, EmptyFacts, Zenon DEF TypeOK
<1>15. CASE DedupeDrop(p)
  <2>0. loc["ctl"] \in Local /\ loc["ctl"].pairs \ {loc["ctl"].pair} \in SUBSET (Nat \X Nat)
    BY LocalFields, Zenon DEF TypeOK, Proc
  <2>1. [loc["ctl"] EXCEPT !.pairs = loc["ctl"].pairs \ {loc["ctl"].pair}] \in Local
    BY <2>0, LocalPuts, Zenon
  <2>2. loc' \in [Proc -> Local] /\ pc' \in [Proc -> Label]
    BY <1>15, <2>1, DropFacts, Zenon DEF TypeOK, Label, Deduping
  <2>3. coll' \in [Kind -> [AcctId -> Seq(Doc \cup {Null})]]
    BY <1>15, DropFacts, Zenon DEF Drops, Rewrites
  <2> QED BY <1>15, <2>2, <2>3, DropFacts, Zenon DEF TypeOK
<1> QED BY <1>1, <1>2, <1>3, <1>4, <1>5, <1>6, <1>7, <1>8, <1>9, <1>10, <1>11, <1>12, <1>13, <1>14, <1>15, Zenon
        DEF Step, Plain, Migrate, Dedupe

-----------------------------------------------------------------------------
(* What a step leaves alone.                                               *)

\* The documents that are there stay, and are made from the rows they were.
Keeps(k) ==
    \A a \in AcctId : \A i \in Ids(k, a) : i \in Ids(k, a)' /\ coll'[k][a][i].row = coll[k][a][i].row

\* An insert adds one document, or two if it was repeated, and keeps the others.
LEMMA GrowsFacts ==
    ASSUME TypeOK, NEW k \in Kind, NEW a \in AcctId, NEW d \in Doc, Grows(k, a, d)
    PROVE  /\ \A j \in Kind, b \in AcctId : \A i \in Ids(j, b) : i \in Ids(j, b)' /\ coll'[j][b][i] = coll[j][b][i]
           /\ \A j \in Kind, b \in AcctId : <<j, b>> # <<k, a>> => Ids(j, b)' = Ids(j, b) /\ coll'[j][b] = coll[j][b]
           /\ \E x, y \in Nat : /\ x \notin Ids(k, a) /\ y \notin Ids(k, a)
                               /\ Ids(k, a)' = Ids(k, a) \cup {x, y}
                               /\ coll'[k][a][x] = d /\ coll'[k][a][y] = d
                               /\ \/ x = y /\ retries' = retries
                                  \/ x # y /\ retries' = retries + 1 /\ ~(k = "rules" /\ a \in Account)
<1> DEFINE m == coll[k][a]
           n == coll'[k][a]
<1>1. m \in Seq(Doc \cup {Null}) /\ n \in Seq(Doc \cup {Null}) /\ d # Null
  BY ConstantFacts DEF TypeOK, Grows
<1>2. /\ \A i \in 1 .. Len(m) : n[i] = m[i]
      /\ \/ Len(n) = Len(m) + 1 /\ n[Len(m) + 1] = d /\ retries' = retries
         \/ /\ Len(n) = Len(m) + 2 /\ n[Len(m) + 1] = d /\ n[Len(m) + 2] = d
            /\ retries' = retries + 1 /\ ~(k = "rules" /\ a \in Account)
  BY Zenon DEF Grows
<1>3. Ids(k, a) = {i \in 1 .. Len(m) : m[i] # Null} /\ Ids(k, a)' = {i \in 1 .. Len(n) : n[i] # Null}
  BY <1>1 DEF Ids
<1>4. \A j \in Kind, b \in AcctId : <<j, b>> # <<k, a>> => Ids(j, b)' = Ids(j, b) /\ coll'[j][b] = coll[j][b]
  BY Zenon DEF Grows, Ids
<1> HIDE DEF m, n
<1>5. \A i \in Ids(k, a) : i \in Ids(k, a)' /\ n[i] = m[i]
  BY <1>1, <1>2, <1>3
<1>6. \E x, y \in Nat : /\ x \notin Ids(k, a) /\ y \notin Ids(k, a)
                       /\ Ids(k, a)' = Ids(k, a) \cup {x, y}
                       /\ n[x] = d /\ n[y] = d
                       /\ \/ x = y /\ retries' = retries
                          \/ x # y /\ retries' = retries + 1 /\ ~(k = "rules" /\ a \in Account)
  <2>1. CASE Len(n) = Len(m) + 1 /\ n[Len(m) + 1] = d /\ retries' = retries
    <3>1. Ids(k, a)' = Ids(k, a) \cup {Len(m) + 1}
      BY <1>1, <1>2, <1>3, <2>1
    <3>2. Len(m) + 1 \in Nat /\ Len(m) + 1 \notin Ids(k, a)
      BY <1>1, <1>3
    <3> QED BY <2>1, <3>1, <3>2, Zenon
  <2>2. CASE /\ Len(n) = Len(m) + 2 /\ n[Len(m) + 1] = d /\ n[Len(m) + 2] = d
             /\ retries' = retries + 1 /\ ~(k = "rules" /\ a \in Account)
    <3>1. Ids(k, a)' = Ids(k, a) \cup {Len(m) + 1, Len(m) + 2}
      BY <1>1, <1>2, <1>3, <2>2, SMTT(30)
    <3>2. /\ Len(m) + 1 \in Nat /\ Len(m) + 1 \notin Ids(k, a)
          /\ Len(m) + 2 \in Nat /\ Len(m) + 2 \notin Ids(k, a) /\ Len(m) + 1 # Len(m) + 2
      BY <1>1, <1>3
    <3> QED BY <2>2, <3>1, <3>2, Zenon
  <2> QED BY <1>2, <2>1, <2>2, Zenon
<1>7. \A j \in Kind, b \in AcctId : \A i \in Ids(j, b) : i \in Ids(j, b)' /\ coll'[j][b][i] = coll[j][b][i]
  <2> TAKE j \in Kind, b \in AcctId
  <2>1. CASE <<j, b>> = <<k, a>>
    BY <1>5, <2>1, Zenon DEF m, n
  <2>2. CASE <<j, b>> # <<k, a>>
    BY <1>4, <2>2, Zenon
  <2> QED BY <2>1, <2>2, Zenon
<1> QED BY <1>4, <1>6, <1>7, Zenon DEF m, n

\* A row is still stood for if no document goes.
LEMMA KeepsHas ==
    ASSUME NEW k \in Kind, Keeps(k), NEW r \in RowId(k), Has(k, r)
    PROVE  Has(k, r)'
<1>1. PICK a \in AcctId : \E i \in Ids(k, a) : Stands(k, r, a, i)
  BY Zenon DEF Has
<1>2. PICK i \in Ids(k, a) : Stands(k, r, a, i)
  BY <1>1, Zenon
<1>3. i \in Ids(k, a)' /\ coll'[k][a][i].row = coll[k][a][i].row
  BY Zenon DEF Keeps
<1>4. Stands(k, r, a, i)'
  BY <1>2, <1>3, Zenon DEF Stands, NameOf
<1> QED BY <1>3, <1>4, Zenon DEF Has

\* A step of one process leaves the other where it is.
LEMMA Frame ==
    ASSUME TypeOK, NEW p \in Proc, Step(p), NEW q \in Proc, q # p
    PROVE  pc'[q] = pc[q] /\ loc'[q] = loc[q]
<1>0. pc \in [Proc -> Label] /\ loc \in [Proc -> Local]
  BY Zenon DEF TypeOK
<1>1. ASSUME NEW k, Proceed(p, k)
      PROVE  pc'[q] = pc[q] /\ loc'[q] = loc[q]
  BY <1>0, <1>1, Zenon DEF Proceed, Goto
<1>2. ASSUME NEW k, NEW todo, Continue(p, k, todo)
      PROVE  pc'[q] = pc[q] /\ loc'[q] = loc[q]
  BY <1>0, <1>1, <1>2, Zenon DEF Continue, Goto, Give
<1>3. CASE Start(p) \/ Fail(p) \/ Stop(p)
  BY <1>0, <1>3, Zenon DEF Start, Fail, Stop, Goto
<1>4. CASE FindRows(p)
  BY <1>0, <1>2, <1>4, Zenon DEF FindRows, Goto
<1>5. CASE ScanOwners(p)
  BY <1>0, <1>5, Zenon DEF ScanOwners, Goto
<1>6. CASE SkipRow(p)
  BY <1>2, <1>6, Zenon DEF SkipRow
<1>7. CASE LookUp(p)
  BY <1>0, <1>7, Zenon DEF LookUp, Goto
<1>8. CASE InsertRow(p)
  <2>1. loc' = loc /\ \E l : pc' = [pc EXCEPT ![p] = l]
    BY <1>8, Zenon DEF InsertRow, Goto
  <2> QED BY <1>0, <2>1, Zenon
<1>9. CASE DeleteRow(p)
  <2>1. \/ Continue(p, loc[p].k, loc[p].todo \ {Least(loc[p].todo)})
        \/ pc' = [pc EXCEPT ![p] = "down"] /\ loc' = loc
    BY <1>9, Zenon DEF DeleteRow, Goto
  <2> QED BY <1>0, <1>2, <2>1, Zenon
<1>10. CASE DropLegacy(p)
  BY <1>0, <1>10, Zenon DEF DropLegacy, Goto, Give
<1>11. CASE DedupeAccount(p) \/ DedupeBox(p)
  BY <1>0, <1>11, Zenon DEF DedupeAccount, DedupeBox, Goto
<1>12. CASE DedupeMove(p)
  <2>1. (\E l : pc' = [pc EXCEPT ![p] = l]) \/ pc' = pc
    BY <1>12, Zenon DEF DedupeMove, Goto
  <2>2. (\E v : loc' = [loc EXCEPT ![p].todo = v]) \/ loc' = loc
    BY <1>12, Zenon DEF DedupeMove, Give
  <2> QED BY <1>0, <2>1, <2>2, Zenon
<1>13. CASE DedupeEmpty(p)
  BY <1>0, <1>13, Zenon DEF DedupeEmpty, Goto
<1>14. CASE DedupeDrop(p)
  BY <1>0, <1>14 DEF DedupeDrop, Goto, Give
<1> QED BY <1>3, <1>4, <1>5, <1>6, <1>7, <1>8, <1>9, <1>10, <1>11, <1>12, <1>13, <1>14, Zenon
        DEF Step, Plain, Migrate, Dedupe

\* Outside the dedupe command a process does not become one that merges, and
\* documents are only added.
LEMMA PlainFacts ==
    ASSUME TypeOK, NEW p \in Proc, Stage(p), Plain(p)
    PROVE  /\ pc'[p] \notin Deduping
           /\ \/ coll' = coll
              \/ /\ InsertRow(p) /\ pc'[p] = "delete"
                 /\ Grows(loc[p].k, Dest(p, Hand(p)), HandDoc(p))
<1>0. pc \in [Proc -> Label]
  BY Zenon DEF TypeOK
<1>1. ASSUME NEW k, Proceed(p, k)
      PROVE  pc'[p] \notin Deduping
  BY <1>0, <1>1, Zenon DEF Proceed, Goto, Deduping
<1>2. ASSUME NEW k, NEW todo, Continue(p, k, todo)
      PROVE  pc'[p] \notin Deduping
  BY <1>0, <1>1, <1>2, Zenon DEF Continue, Goto, Deduping
<1>3. CASE Start(p) \/ Fail(p) \/ Stop(p)
  BY <1>0, <1>3, Zenon DEF Start, Fail, Stop, Goto, Deduping
<1>4. CASE FindRows(p)
  BY <1>0, <1>2, <1>4 DEF FindRows, Goto, Deduping
<1>5. CASE ScanOwners(p)
  BY <1>0, <1>5, Zenon DEF ScanOwners, Goto, Deduping
<1>6. CASE SkipRow(p)
  BY <1>2, <1>6, Zenon DEF SkipRow
<1>7. CASE LookUp(p)
  BY <1>0, <1>7, Zenon DEF LookUp, Goto, Deduping
<1>8. CASE InsertRow(p)
  BY <1>0, <1>8, InsertFacts, Zenon DEF Deduping
<1>9. CASE DeleteRow(p)
  BY <1>0, <1>2, <1>9, Zenon DEF DeleteRow, Goto, Deduping
<1>10. CASE DropLegacy(p)
  BY <1>0, <1>10, Zenon DEF DropLegacy, Goto, Deduping
<1> QED BY <1>3, <1>4, <1>5, <1>6, <1>7, <1>8, <1>9, <1>10, Zenon DEF Plain, Migrate

\* A row leaves its shared collection only when it is deleted in hand.
LEMMA LegacyStep ==
    ASSUME TypeOK, Plan, NEW p \in Proc, Step(p)
    PROVE  /\ \A k \in Kind : legacy'[k] \subseteq legacy[k]
           /\ \A k \in Kind : \A r \in legacy[k] :
                 r \in legacy'[k] \/ (DeleteRow(p) /\ k = loc[p].k /\ r = Hand(p))
           /\ \A k \in dropped' : k \in dropped \/ legacy[k] = {}
<1>0. legacy \in [Kind -> SUBSET Nat] /\ loc[p].k \in Kind
  BY LocalFields, Zenon DEF TypeOK
<1>1. CASE DeleteRow(p)
  <2>1. legacy' = [legacy EXCEPT ![loc[p].k] = @ \ {Hand(p)}] /\ dropped' = dropped
    BY <1>1, Zenon DEF DeleteRow, Hand
  <2> QED BY <1>0, <1>1, <2>1, Zenon
<1>2. CASE DropLegacy(p)
  <2>1. \/ legacy' = legacy /\ dropped' = dropped
        \/ legacy[loc[p].k] = {} /\ legacy' = [legacy EXCEPT ![loc[p].k] = {}] /\ dropped' = dropped \cup {loc[p].k}
    BY <1>2, Zenon DEF DropLegacy, Droppable
  <2> QED BY <1>0, <2>1, Zenon
<1>3. CASE InsertRow(p)
  BY <1>3, Zenon DEF InsertRow
<1>4. CASE Start(p) \/ FindRows(p) \/ ScanOwners(p) \/ SkipRow(p) \/ LookUp(p) \/ Fail(p) \/ Stop(p)
  BY <1>4, Zenon DEF Start, FindRows, ScanOwners, SkipRow, LookUp, Fail, Stop
<1>5. CASE Dedupe(p)
  BY <1>5, Zenon DEF Dedupe, DedupeAccount, DedupeBox, DedupeMove, DedupeEmpty, DedupeDrop
<1> QED BY <1>1, <1>2, <1>3, <1>4, <1>5, Zenon DEF Step, Plain, Migrate

\* A document that stands for a row goes on doing so, or another takes over.
LEMMA HasStep ==
    ASSUME RowsInv, NEW p \in Proc, Step(p), NEW k \in Kind, NEW r \in RowId(k),
           Has(k, r), k = "messages" => Legacy[k][r].acct # 0
    PROVE  Has(k, r)'
<1>0. TypeOK /\ Plan /\ Safe /\ Stage(p) /\ TypeOK'
  BY TypeStep, Zenon DEF RowsInv
<1>1. CASE coll' = coll
  BY <1>1, Zenon DEF Has, Ids, Stands, NameOf
<1>2. CASE InsertRow(p) /\ Grows(loc[p].k, Dest(p, Hand(p)), HandDoc(p))
  <2>1. Keeps(k)
    BY <1>0, <1>2, InsertFacts, GrowsFacts DEF Keeps
  <2> QED BY <2>1, KeepsHas, Zenon
<1>3. CASE DedupeMove(p)
  <2> DEFINE c == loc["ctl"]
  <2>1. CASE Moves(c.acct, Hand("ctl"), c.pair[1])
    <3>1. c.acct \in AcctId
      BY <1>0, <1>3, MoveFacts, DedupeProc, Zenon DEF Deduping
    <3>2. Keeps(k)
      <4> SUFFICES ASSUME NEW a \in AcctId, NEW i \in Ids(k, a)
                   PROVE  i \in Ids(k, a)' /\ coll'[k][a][i].row = coll[k][a][i].row
        BY ZenonT(30) DEF Keeps
      <4>1. CASE k = "messages" /\ a = c.acct
        BY <1>0, <2>1, <4>1, ConstantFacts, ZenonT(30) DEF Moves, Rewrites, Ids
      <4>2. CASE ~(k = "messages" /\ a = c.acct)
        BY <2>1, <4>2, Zenon DEF Moves, Rewrites, Ids
      <4> QED BY <4>1, <4>2, Zenon
    <3> QED BY <3>2, KeepsHas, Zenon
  <2> QED BY <1>0, <1>1, <1>3, <2>1, MoveFacts, Zenon
<1>4. CASE DedupeEmpty(p)
  <2> DEFINE c == loc["ctl"]
  <2>1. /\ Empties(c.acct, c.pair[2]) /\ pc["ctl"] = "d_move" /\ c.todo = {}
    BY <1>0, <1>4, EmptyFacts, Zenon
  <2>2. CASE k # "messages"
    <3>1. Keeps(k)
      BY <2>1, <2>2, Zenon DEF Empties, Rewrites, Keeps, Ids
    <3> QED BY <3>1, KeepsHas, Zenon
  <2>3. CASE k = "messages"
    <3>1. PICK a \in AcctId : \E i \in Ids("messages", a) : coll["messages"][a][i].row = r /\ Spared(a, i)
      BY <1>0, <2>1, <2>3, Zenon DEF Safe, Deduping
    <3>2. PICK i \in Ids("messages", a) : coll["messages"][a][i].row = r /\ Spared(a, i)
      BY <3>1, Zenon
    <3>3. a = c.acct => i \notin InBox(a, c.pair[2])
      BY <2>1, <3>2, Zenon DEF Spared, InBox
    <3>4. i \in Ids("messages", a)' /\ coll'["messages"][a][i] = coll["messages"][a][i]
      <4>1. CASE a = c.acct
        <5>1. i \in DOMAIN coll["messages"][a] /\ coll["messages"][a][i] # Null
          BY Zenon DEF Ids
        <5>2. coll'["messages"][a][i] = coll["messages"][a][i] /\ i \in DOMAIN coll'["messages"][a]
          BY <2>1, <3>3, <4>1, <5>1, Zenon DEF Empties, Rewrites
        <5> QED BY <5>1, <5>2, Zenon DEF Ids
      <4>2. CASE a # c.acct
        <5>1. coll'["messages"][a] = coll["messages"][a]
          BY <2>1, <4>2, Zenon DEF Empties, Rewrites, Kind
        <5> QED BY <5>1, Zenon DEF Ids
      <4> QED BY <4>1, <4>2, Zenon
    <3> QED BY <2>3, <3>2, <3>4, Zenon DEF Has, Stands
  <2> QED BY <2>2, <2>3, Zenon
<1>5. CASE DedupeDrop(p)
  <2> DEFINE c == loc["ctl"]
  <2>1. Drops(c.acct, c.pair[2]) /\ c.pair \in c.pairs /\ c.acct \in AcctId /\ pc["ctl"] \in Deduping
    BY <1>0, <1>5, DropFacts, DedupeProc, Zenon DEF Deduping
  <2>2. CASE k # "mailboxes"
    <3>1. Keeps(k)
      BY <2>1, <2>2, Zenon DEF Drops, Rewrites, Keeps, Ids
    <3> QED BY <3>1, KeepsHas, Zenon
  <2>3. CASE k = "mailboxes"
    <3>1. /\ c.pair[1] \in Ids(k, c.acct) /\ c.pair[1] # c.pair[2]
          /\ NameOf(coll[k][c.acct][c.pair[1]]) = NameOf(coll[k][c.acct][c.pair[2]])
      BY <1>0, <2>1, <2>3, Zenon DEF Plan
    <3>2. PICK a \in AcctId : \E i \in Ids(k, a) : Stands(k, r, a, i)
      BY Zenon DEF Has
    <3>3. PICK i \in Ids(k, a) : Stands(k, r, a, i)
      BY <3>2, Zenon
    <3>4. ASSUME NEW j \in Ids(k, a), a = c.acct => j # c.pair[2], Stands(k, r, a, j)
          PROVE  Has(k, r)'
      <4>1. j \in Ids(k, a)' /\ coll'[k][a][j] = coll[k][a][j]
        BY <2>1, <2>3, <3>4 DEF Drops, Rewrites, Ids
      <4> QED BY <3>4, <4>1, Zenon DEF Has, Stands
    <3>5. CASE a = c.acct /\ i = c.pair[2]
      <4>1. Stands(k, r, a, c.pair[1])
        BY <2>3, <3>1, <3>3, <3>5, Zenon DEF Stands
      <4> QED BY <3>1, <3>4, <3>5, <4>1, Zenon
    <3> QED BY <3>3, <3>4, <3>5, Zenon
  <2> QED BY <2>2, <2>3, Zenon
<1>6. CASE DedupeAccount(p) \/ DedupeBox(p)
  BY <1>1, <1>6, Zenon DEF DedupeAccount, DedupeBox
<1> QED BY <1>0, <1>1, <1>2, <1>3, <1>4, <1>5, <1>6, PlainFacts, Zenon DEF Step, Dedupe

-----------------------------------------------------------------------------
(* The conjuncts of the invariant, one by one.                             *)

\* A row that is being deleted names an account, or is of the expunge log.
LEMMA HandNamed ==
    ASSUME NEW p \in Proc, Stage(p), pc[p] \in {"insert", "delete"}, loc[p].k # "expunge_log"
    PROVE  Legacy[loc[p].k][Hand(p)].acct # 0
BY Zenon DEF Stage, Dest

\* The shared collections only shrink, and a row of no account stays.
LEMMA SharedStep ==
    ASSUME RowsInv, NEW p \in Proc, Step(p)
    PROVE  Shared'
<1>1. TypeOK /\ Plan /\ Shared /\ Stage(p)
  BY Zenon DEF RowsInv
<1>2. /\ \A k \in Kind : legacy'[k] \subseteq legacy[k]
      /\ \A k \in Kind : \A r \in legacy[k] : r \in legacy'[k] \/ (DeleteRow(p) /\ k = loc[p].k /\ r = Hand(p))
      /\ \A k \in dropped' : k \in dropped \/ legacy[k] = {}
  BY <1>1, LegacyStep, Zenon
<1>3. DeleteRow(p) => pc[p] = "delete"
  BY Zenon DEF DeleteRow
<1>4. \A k \in Kind \ {"expunge_log"} : \A r \in RowId(k) : Legacy[k][r].acct = 0 => r \in legacy'[k]
  BY <1>1, <1>2, <1>3, HandNamed DEF Shared
<1>5. \A k \in dropped' : k \in Kind /\ legacy'[k] = {}
  <2>1. \A k \in dropped' : k \in Kind
    BY <1>1, TypeStep, Zenon DEF TypeOK
  <2> QED BY <1>1, <1>2, <2>1, Zenon DEF Shared
<1> QED BY <1>1, <1>2, <1>4, <1>5, Zenon DEF Shared

\* No step loses a row.
LEMMA NoRowLostStep ==
    ASSUME RowsInv, NEW p \in Proc, Step(p)
    PROVE  NoRowLost'
<1> SUFFICES ASSUME NEW k \in Kind, NEW r \in RowId(k), r \notin legacy'[k]
             PROVE  Has(k, r)'
  BY Zenon DEF NoRowLost
<1>1. TypeOK /\ Plan /\ Shared /\ Stage(p) /\ NoRowLost /\ Shared'
  BY SharedStep, Zenon DEF RowsInv
<1>2. Has(k, r)
  <2>1. CASE r \notin legacy[k]
    BY <1>1, <2>1, Zenon DEF NoRowLost
  <2>2. CASE r \in legacy[k]
    <3>1. DeleteRow(p) /\ k = loc[p].k /\ r = Hand(p)
      BY <1>1, <2>2, LegacyStep, Zenon
    <3>2. pc[p] = "delete"
      BY <3>1, Zenon DEF DeleteRow
    <3> QED BY <1>1, <3>1, <3>2, Zenon DEF Stage
  <2> QED BY <2>1, <2>2, Zenon
<1>3. k = "messages" => Legacy[k][r].acct # 0
  BY <1>1, Zenon DEF Shared, Kind
<1> QED BY <1>2, <1>3, HasStep, Zenon

\* Where Continue takes a process.
LEMMA ContinueFacts ==
    ASSUME TypeOK, NEW p \in Proc, NEW todo, Continue(p, loc[p].k, todo)
    PROVE  \/ todo = {} /\ loc[p].k = "expunge_log" /\ pc'[p] = "drop" /\ loc'[p] = Idle
           \/ /\ todo = {} /\ loc[p].k # "expunge_log" /\ pc'[p] = "find"
              /\ loc'[p] = [Idle EXCEPT !.k = NextKind(loc[p].k)]
           \/ todo # {} /\ pc'[p] = "row" /\ loc'[p] = [loc[p] EXCEPT !.todo = todo]
<1>0. pc \in [Proc -> Label] /\ loc \in [Proc -> Local]
  BY Zenon DEF TypeOK
<1>1. CASE todo = {} /\ loc[p].k = "expunge_log"
  BY <1>0, <1>1, Zenon DEF Continue, Proceed, Goto
<1>2. CASE todo = {} /\ loc[p].k # "expunge_log"
  BY <1>0, <1>2, Zenon DEF Continue, Proceed, Goto
<1>3. CASE todo # {}
  BY <1>0, <1>3, Zenon DEF Continue, Give, Goto
<1> QED BY <1>1, <1>2, <1>3, Zenon

\* What an assignment to a local variable leaves of the others.
LEMMA PutFacts ==
    ASSUME NEW l \in Local
    PROVE  /\ \A v : [l EXCEPT !.todo = v].todo = v /\ [l EXCEPT !.todo = v].k = l.k
                  /\ [l EXCEPT !.todo = v].owners = l.owners
           /\ \A v, w : /\ [l EXCEPT !.todo = v, !.accts = w].todo = v /\ [l EXCEPT !.todo = v, !.accts = w].k = l.k
                        /\ [l EXCEPT !.accts = v, !.owners = w].todo = l.todo
                        /\ [l EXCEPT !.accts = v, !.owners = w].k = l.k
           /\ \A v : [Idle EXCEPT !.k = v].k = v
BY Zenon DEF Local, Idle

\* The rows of the collection in hand that are left are rows of it.
LEMMA ContinueStage ==
    ASSUME TypeOK, NEW p \in Proc, NEW todo, todo \subseteq RowId(loc[p].k), Continue(p, loc[p].k, todo)
    PROVE  Stage(p)'
<1>1. CASE pc'[p] = "drop" \/ pc'[p] = "find"
  BY <1>1, Zenon DEF Stage, Working
<1>2. CASE todo # {} /\ pc'[p] = "row" /\ loc'[p] = [loc[p] EXCEPT !.todo = todo]
  <2>1. loc'[p].todo = todo /\ loc'[p].k = loc[p].k
    BY <1>2, PutFacts DEF TypeOK
  <2> QED BY <1>2, <2>1, Zenon DEF Stage
<1> QED BY <1>1, <1>2, ContinueFacts, Zenon

\* A process knows at its next label what it has to know there.
LEMMA StageOwn ==
    ASSUME RowsInv, NEW p \in Proc, Step(p)
    PROVE  Stage(p)'
<1> DEFINE k == loc[p].k
           r == Hand(p)
<1>0. /\ TypeOK /\ Shared /\ Stage(p) /\ Plan
      /\ loc[p] \in Local /\ k \in Kind /\ pc \in [Proc -> Label] /\ loc \in [Proc -> Local]
  BY LocalFields, Zenon DEF RowsInv, TypeOK
<1>1. pc'[p] \notin Working => Stage(p)'
  BY Zenon DEF Stage, Working
<1>2. CASE Start(p) \/ Fail(p) \/ Stop(p)
  <2>1. pc'[p] \in {"find", "down"}
    BY <1>0, <1>2, Zenon DEF Start, Fail, Stop, Goto
  <2> QED BY <1>1, <2>1, Zenon DEF Working
<1>3. CASE Dedupe(p)
  <2>1. pc'[p] \in {"down", "up", "d_next", "d_move", "d_box"}
    <3>1. CASE DedupeAccount(p) \/ DedupeBox(p)
      BY <1>0, <3>1, Zenon DEF DedupeAccount, DedupeBox, Goto
    <3>2. CASE DedupeMove(p)
      BY <1>0, <3>2, MoveFacts, Zenon
    <3>3. CASE DedupeEmpty(p)
      BY <1>0, <3>3, EmptyFacts, Zenon
    <3>4. CASE DedupeDrop(p)
      BY <1>0, <3>4, DropFacts, Zenon
    <3> QED BY <1>3, <3>1, <3>2, <3>3, <3>4, Zenon DEF Dedupe
  <2> QED BY <1>1, <2>1, Zenon DEF Working
<1>4. CASE DropLegacy(p)
  <2>1. pc'[p] \in {"drop", "up"}
    BY <1>0, <1>4, Zenon DEF DropLegacy, Goto
  <2> QED BY <1>1, <2>1, Zenon DEF Working
<1>5. CASE FindRows(p)
  <2> DEFINE found == IF k \in dropped THEN {} ELSE legacy[k]
  <2>1. found \subseteq RowId(k)
    BY <1>0, Zenon DEF Shared
  <2> HIDE DEF found
  <2>2. \/ /\ k = "expunge_log" /\ found # {} /\ pc'[p] = "scan"
           /\ loc'[p] = [loc[p] EXCEPT !.todo = found, !.accts = Accounts]
        \/ Continue(p, k, found)
    BY <1>0, <1>5, Zenon DEF FindRows, Goto, found
  <2>3. CASE Continue(p, k, found)
    BY <1>0, <2>1, <2>3, ContinueStage, Zenon
  <2>4. CASE /\ k = "expunge_log" /\ found # {} /\ pc'[p] = "scan"
             /\ loc'[p] = [loc[p] EXCEPT !.todo = found, !.accts = Accounts]
    <3>1. loc'[p].todo = found /\ loc'[p].k = k
      BY <1>0, <2>4, PutFacts
    <3> QED BY <2>1, <2>4, <3>1, Zenon DEF Stage
  <2> QED BY <2>2, <2>3, <2>4, Zenon
<1>6. CASE ScanOwners(p)
  <2>1. pc[p] = "scan" /\ pc'[p] \in {"scan", "row"}
    BY <1>0, <1>6, Zenon DEF ScanOwners, Goto
  <2> DEFINE v == Tail(loc[p].accts)
             w == Owners(p, Head(loc[p].accts))
  <2>2. loc'[p] = loc[p] \/ loc'[p] = [loc[p] EXCEPT !.accts = v, !.owners = w]
    BY <1>0, <1>6, Zenon DEF ScanOwners
  <2> HIDE DEF v, w
  <2>3. loc'[p].todo = loc[p].todo /\ loc'[p].k = loc[p].k
    BY <1>0, <2>2, Zenon DEF Local
  <2> QED BY <1>0, <2>1, <2>3, Zenon DEF Stage, Working
<1>7. CASE SkipRow(p)
  <2>1. pc[p] = "row" /\ Continue(p, k, loc[p].todo \ {r})
    BY <1>7, Zenon DEF SkipRow, Hand
  <2>2. loc[p].todo \ {r} \subseteq RowId(k)
    BY <1>0, <2>1, Zenon DEF Stage, Working
  <2> QED BY <1>0, <2>1, <2>2, ContinueStage, Zenon
<1>8. CASE LookUp(p)
  <2>1. /\ pc[p] = "row" /\ Dest(p, r) # 0 /\ Keyed(k) /\ loc' = loc /\ coll' = coll
        /\ pc'[p] = IF Present(k, Dest(p, r), r) THEN "delete" ELSE "insert"
    BY <1>0, <1>8, Zenon DEF LookUp, Goto, Hand
  <2>2. Hand(p)' = Hand(p) /\ Dest(p, Hand(p))' = Dest(p, Hand(p))
    BY <2>1, Zenon DEF Hand, Dest
  <2>3. Present(k, Dest(p, r), r) => Has(k, r)
    <3>1. r \in RowId(k)
      BY <1>0, <2>1, HandType, Zenon DEF Working
    <3>2. Dest(p, r) = Legacy[k][r].acct /\ Dest(p, r) \in AcctId
      BY <1>0, <2>1, <3>1, ConstantFacts, Zenon DEF Dest, Keyed
    <3> QED BY <2>1, <3>2, Zenon DEF Present, Has, Stands, Keyed
  <2>4. Has(k, r)' = Has(k, r)
    BY <2>1 DEF Has, Stands, Ids, NameOf, Hand
  <2>5. loc[p].todo # {} /\ loc[p].todo \subseteq RowId(k)
    BY <1>0, <2>1, Zenon DEF Stage, Working
  <2> QED BY <2>1, <2>2, <2>3, <2>4, <2>5, Zenon DEF Stage
<1>9. CASE InsertRow(p)
  <2> DEFINE a == Dest(p, r)
             d == HandDoc(p)
  <2>1. /\ pc[p] \in {"insert", "row"} /\ r \in RowId(k) /\ a \in AcctId /\ d \in Doc
        /\ pc[p] = "row" => ~Keyed(k)
        /\ loc' = loc
        /\ pc'[p] = "down" \/ (pc'[p] = "delete" /\ Grows(k, a, d))
    BY <1>0, <1>9, InsertFacts, Zenon
  <2> HIDE DEF d
  <2>2. CASE pc'[p] = "down"
    BY <1>1, <2>2, Zenon DEF Working
  <2>3. CASE pc'[p] = "delete" /\ Grows(k, a, d)
    <3> HIDE DEF a
    <3>1. \A K \in Kind, A \in AcctId, D \in Doc : Grows(K, A, D) => \E x \in Ids(K, A)' : coll'[K][A][x] = D
      BY <1>0, GrowsFacts
    <3>2. d.row = r
      BY Zenon DEF d, HandDoc
    <3>3. k # "expunge_log" => a = Legacy[k][r].acct
      BY Zenon DEF Dest, a
    <3>4. Has(k, r)'
      <4>1. PICK K \in Kind : K = k
        BY <1>0, Zenon
      <4>2. PICK R \in RowId(K) : R = r
        BY <2>1, <4>1, Zenon
      <4>3. PICK A \in AcctId : A = a
        BY <2>1, Zenon
      <4>4. PICK x \in Ids(K, A)' : coll'[K][A][x] = d
        BY <2>1, <2>3, <3>1, <4>1, <4>3
      <4>5. Stands(K, R, A, x)'
        BY <3>2, <3>3, <4>1, <4>2, <4>3, <4>4, Zenon DEF Stands, NameOf
      <4>6. Has(K, R)'
        BY <4>5, Zenon DEF Has
      <4>7. K = loc'[p].k /\ R = Hand(p)'
        BY <2>1, <4>1, <4>2, Zenon DEF Hand
      <4> QED BY <4>6, <4>7, Zenon DEF Has, Stands, Ids, NameOf
    <3>5. Hand(p)' = Hand(p) /\ Dest(p, Hand(p))' = Dest(p, Hand(p))
      BY <2>1, Zenon DEF Hand, Dest
    <3>6. loc[p].todo # {} /\ loc[p].todo \subseteq RowId(k) /\ Dest(p, Hand(p)) # 0
      BY <1>0, <2>1, ConstantFacts, Zenon DEF Stage, Working, a
    <3> QED BY <2>1, <2>3, <3>4, <3>5, <3>6, Zenon DEF Stage
  <2> QED BY <2>1, <2>2, <2>3, Zenon
<1>10. CASE DeleteRow(p)
  <2>1. pc[p] = "delete" /\ (pc'[p] = "down" \/ Continue(p, k, loc[p].todo \ {r}))
    BY <1>0, <1>10, Zenon DEF DeleteRow, Hand, Goto
  <2>2. loc[p].todo \ {r} \subseteq RowId(k)
    BY <1>0, <2>1, Zenon DEF Stage, Working
  <2>3. CASE pc'[p] = "down"
    BY <1>1, <2>3, Zenon DEF Working
  <2> QED BY <1>0, <2>1, <2>2, <2>3, ContinueStage, Zenon
<1> QED BY <1>2, <1>3, <1>4, <1>5, <1>6, <1>7, <1>8, <1>9, <1>10, Zenon DEF Step, Plain, Migrate

\* So do both processes, whichever of them steps.
LEMMA StageStep ==
    ASSUME RowsInv, NEW p \in Proc, Step(p), NEW q \in Proc
    PROVE  Stage(q)'
<1>1. CASE q = p
  BY <1>1, StageOwn, Zenon
<1>2. CASE q # p
  <2>1. TypeOK /\ Stage(q)
    BY Zenon DEF RowsInv
  <2>2. pc'[q] = pc[q] /\ loc'[q] = loc[q]
    BY <1>2, <2>1, Frame, Zenon
  <2>3. Hand(q)' = Hand(q) /\ Dest(q, Hand(q))' = Dest(q, Hand(q))
    BY <2>2, ZenonT(30) DEF Hand, Dest
  <2>4. ASSUME pc[q] = "delete"
        PROVE  Has(loc[q].k, Hand(q))'
    <3>1. loc[q].k \in Kind /\ Hand(q) \in RowId(loc[q].k) /\ Has(loc[q].k, Hand(q))
      BY <2>1, <2>4, HandType, Zenon DEF Stage, Working
    <3>2. loc[q].k = "messages" => Legacy[loc[q].k][Hand(q)].acct # 0
      BY <2>1, <2>4, HandNamed, Zenon
    <3>3. \A k \in Kind : \A r \in RowId(k) : k = loc[q].k /\ r = Hand(q) => Has(k, r)'
      BY <3>1, <3>2, HasStep, Zenon
    <3> QED BY <2>2, <2>3, <3>1, <3>3 DEF Has, Stands, Ids
  <2> QED BY <2>1, <2>2, <2>3, <2>4, Zenon DEF Stage
<1> QED BY <1>1, <1>2, Zenon

\* Row r of the messages is still before process p.
Before(p, r) == ~PastMessages(p) /\ (pc[p] \in Working /\ loc[p].k = "messages" => r \in loc[p].todo)

\* A process that goes on before the messages, or among them, has not passed what is left.
LEMMA ContinueBefore ==
    ASSUME TypeOK, NEW p \in Proc, NEW todo, Continue(p, loc[p].k, todo), NEW r,
           loc[p].k = "mailboxes" \/ (loc[p].k = "messages" /\ r \in todo)
    PROVE  Before(p, r)'
<1>0. loc[p] \in Local
  BY Zenon DEF TypeOK
<1>1. CASE todo = {}
  <2>1. loc[p].k = "mailboxes" /\ pc'[p] = "find" /\ loc'[p] = [Idle EXCEPT !.k = NextKind(loc[p].k)]
    BY <1>1, ContinueFacts, Zenon
  <2>2. loc'[p].k = "messages"
    BY <2>1, Zenon DEF Idle, NextKind
  <2> QED BY <2>1, <2>2, Zenon DEF Before, PastMessages, Deduping, Working
<1>2. CASE todo # {}
  <2>1. pc'[p] = "row" /\ loc'[p] = [loc[p] EXCEPT !.todo = todo]
    BY <1>2, ContinueFacts, Zenon
  <2>2. loc'[p].k = loc[p].k /\ loc'[p].todo = todo
    BY <1>0, <2>1, Zenon DEF Local
  <2> QED BY <2>1, <2>2, Zenon DEF Before, PastMessages, Deduping, Working
<1> QED BY <1>1, <1>2, Zenon

\* A message that a process had ahead of it and that stays is still ahead of it.
LEMMA BeforeOwn ==
    ASSUME RowsInv, NEW p \in Proc, Step(p), NEW r \in legacy["messages"], r \in legacy'["messages"],
           Legacy["messages"][r].acct # 0, Before(p, r)
    PROVE  Before(p, r)'
<1> DEFINE k == loc[p].k
           h == Hand(p)
<1>0. /\ TypeOK /\ Shared /\ Stage(p) /\ Plan
      /\ loc[p] \in Local /\ k \in Kind /\ pc \in [Proc -> Label] /\ loc \in [Proc -> Local]
      /\ legacy \in [Kind -> SUBSET Nat]
  BY LocalFields, Zenon DEF RowsInv, TypeOK
<1>1. /\ pc[p] \notin Deduping \cup {"drop", "up"}
      /\ pc[p] \in {"find", "scan", "row", "insert", "delete"} => k \in {"mailboxes", "messages"}
      /\ pc[p] \in Working /\ k = "messages" => r \in loc[p].todo
  BY <1>0, Zenon DEF Before, PastMessages, Kind
<1>2. pc'[p] = "down" => Before(p, r)'
  BY Zenon DEF Before, PastMessages, Deduping, Working
<1>3. CASE Start(p)
  <2>1. pc'[p] = "find" /\ loc'[p] = Idle
    BY <1>0, <1>3, Zenon DEF Start, Goto
  <2> QED BY <2>1 DEF Before, PastMessages, Deduping, Working, Idle
<1>4. CASE Fail(p)
  BY <1>0, <1>2, <1>4, Zenon DEF Fail, Goto
<1>5. CASE Stop(p) \/ DropLegacy(p) \/ Dedupe(p) \/ ScanOwners(p)
  <2>1. pc[p] \in Deduping \cup {"drop", "up", "scan"}
    <3>1. CASE Stop(p) \/ DropLegacy(p) \/ ScanOwners(p)
      BY <3>1, Zenon DEF Stop, DropLegacy, ScanOwners
    <3>2. CASE Dedupe(p)
      BY <3>2, Zenon DEF Dedupe, DedupeAccount, DedupeBox, DedupeMove, DedupeEmpty, DedupeDrop, Deduping
    <3> QED BY <1>5, <3>1, <3>2, Zenon
  <2> QED BY <1>0, <1>1, <2>1, Zenon DEF Stage
<1>6. CASE FindRows(p)
  <2> DEFINE found == IF k \in dropped THEN {} ELSE legacy[k]
  <2>1. pc[p] = "find" /\ (k # "expunge_log" => Continue(p, k, found))
    BY <1>6, Zenon DEF FindRows
  <2>2. k = "messages" => r \in found
    BY <1>0, Zenon DEF Shared
  <2> HIDE DEF found
  <2>3. k = "mailboxes" \/ (k = "messages" /\ r \in found)
    BY <1>1, <2>1, <2>2, Zenon
  <2>4. Continue(p, loc[p].k, found)
    BY <2>1, <2>3, Zenon
  <2> QED BY <1>0, <2>3, <2>4, ContinueBefore, Zenon
<1>7. CASE SkipRow(p)
  <2>1. pc[p] = "row" /\ Dest(p, h) = 0 /\ Continue(p, k, loc[p].todo \ {h})
    BY <1>7, Zenon DEF SkipRow, Hand
  <2>2. k = "messages" => r # h
    BY <2>1, Zenon DEF Dest
  <2>3. k = "mailboxes" \/ (k = "messages" /\ r \in loc[p].todo \ {h})
    BY <1>1, <2>1, <2>2, Zenon DEF Working
  <2> QED BY <1>0, <2>1, <2>3, ContinueBefore, Zenon
<1>8. CASE LookUp(p) \/ InsertRow(p)
  <2>1. loc' = loc /\ pc[p] \in Working /\ pc'[p] \in {"insert", "delete", "down"}
    <3>1. CASE LookUp(p)
      BY <1>0, <3>1, Zenon DEF LookUp, Goto, Working
    <3>2. CASE InsertRow(p)
      BY <1>0, <3>2, InsertFacts, Zenon DEF Working
    <3> QED BY <1>8, <3>1, <3>2, Zenon
  <2> QED BY <1>1, <2>1, Zenon DEF Before, PastMessages, Deduping, Working
<1>9. CASE DeleteRow(p)
  <2>1. /\ pc[p] = "delete" /\ (pc'[p] = "down" \/ Continue(p, k, loc[p].todo \ {h}))
        /\ legacy' = [legacy EXCEPT ![k] = @ \ {h}]
    BY <1>0, <1>9, Zenon DEF DeleteRow, Hand, Goto
  <2>2. k = "messages" => r # h
    BY <1>0, <2>1, Zenon
  <2>3. k = "mailboxes" \/ (k = "messages" /\ r \in loc[p].todo \ {h})
    BY <1>1, <2>1, <2>2, Zenon DEF Working
  <2> QED BY <1>0, <1>2, <2>1, <2>3, ContinueBefore, Zenon
<1> QED BY <1>3, <1>4, <1>5, <1>6, <1>7, <1>8, <1>9, Zenon DEF Step, Plain, Migrate

\* A process past the messages has left none that names an account.
LEMMA PassedStep ==
    ASSUME RowsInv, NEW p \in Proc, Step(p), NEW q \in Proc
    PROVE  Passed(q)'
<1> SUFFICES ASSUME NEW r \in legacy'["messages"], Legacy["messages"][r].acct # 0
             PROVE  Before(q, r)'
  BY Zenon DEF Passed, Before
<1>1. TypeOK /\ Plan /\ Passed(q)
  BY Zenon DEF RowsInv
<1>2. r \in legacy["messages"]
  BY <1>1, LegacyStep DEF Kind
<1>3. Before(q, r)
  BY <1>1, <1>2, Zenon DEF Passed, Before
<1>4. CASE q = p
  BY <1>2, <1>3, <1>4, BeforeOwn, Zenon
<1>5. CASE q # p
  BY <1>1, <1>3, <1>5, Frame, Zenon DEF Before, PastMessages
<1> QED BY <1>4, <1>5, Zenon

\* The pairs P are a plan for account a.
Goes(a, P) ==
    \A x \in P :
        /\ x[1] \in Ids("mailboxes", a) /\ x[2] \in Ids("mailboxes", a)
        /\ NameOf(coll["mailboxes"][a][x[1]]) = NameOf(coll["mailboxes"][a][x[2]])
        /\ \A y \in P : x[1] # y[2] /\ (x[2] = y[2] => x = y)

PlanOf(l, label) ==
    /\ label \in Deduping => l.acct \in Account /\ Goes(l.acct, l.pairs)
    /\ label \in {"d_move", "d_box"} => l.pair \in l.pairs

\* The plan speaks of the tool's variables only.
LEMMA PlanIs == Plan <=> pc["daemon"] \notin Deduping /\ PlanOf(loc["ctl"], pc["ctl"])
BY Zenon DEF Plan, PlanOf, Goes

\* A plan stays one while its mailboxes do.
LEMMA GoesKept ==
    ASSUME NEW a, NEW P, Goes(a, P),
           \A x \in P : /\ {x[1], x[2]} \subseteq Ids("mailboxes", a)'
                        /\ coll'["mailboxes"][a][x[1]] = coll["mailboxes"][a][x[1]]
                        /\ coll'["mailboxes"][a][x[2]] = coll["mailboxes"][a][x[2]]
    PROVE  Goes(a, P)'
<1> SUFFICES ASSUME NEW x \in P
             PROVE  /\ x[1] \in Ids("mailboxes", a)' /\ x[2] \in Ids("mailboxes", a)'
                    /\ NameOf(coll'["mailboxes"][a][x[1]]) = NameOf(coll'["mailboxes"][a][x[2]])
                    /\ \A y \in P : x[1] # y[2] /\ (x[2] = y[2] => x = y)
  BY Zenon DEF Goes, NameOf
<1>1. /\ {x[1], x[2]} \subseteq Ids("mailboxes", a)'
      /\ coll'["mailboxes"][a][x[1]] = coll["mailboxes"][a][x[1]]
      /\ coll'["mailboxes"][a][x[2]] = coll["mailboxes"][a][x[2]]
  BY Zenon
<1>2. /\ NameOf(coll["mailboxes"][a][x[1]]) = NameOf(coll["mailboxes"][a][x[2]])
      /\ \A y \in P : x[1] # y[2] /\ (x[2] = y[2] => x = y)
  BY Zenon DEF Goes
<1> QED BY <1>1, <1>2, Zenon

\* A plan holds as long as the mailboxes of its account stay.
LEMMA GoesSame ==
    ASSUME NEW a, NEW P, Goes(a, P), coll'["mailboxes"][a] = coll["mailboxes"][a]
    PROVE  Goes(a, P)'
<1>1. Ids("mailboxes", a)' = Ids("mailboxes", a)
  BY Zenon DEF Ids
<1>2. \A x \in P : x[1] \in Ids("mailboxes", a) /\ x[2] \in Ids("mailboxes", a)
  BY Zenon DEF Goes
<1> QED BY <1>1, <1>2, GoesKept, Zenon

\* Steps outside the dedupe command keep the plan.
LEMMA PlanPlain ==
    ASSUME RowsInv, NEW p \in Proc, Plain(p)
    PROVE  Plan'
<1> DEFINE c == loc["ctl"]
<1>0. TypeOK /\ Plan /\ Stage(p) /\ Step(p) /\ loc["ctl"] \in Local
  BY Zenon DEF RowsInv, Step, TypeOK, Proc
<1>1. pc["daemon"] \notin Deduping /\ PlanOf(c, pc["ctl"])
  BY <1>0, PlanIs, Zenon
<1>2. pc'[p] \notin Deduping
  BY <1>0, PlainFacts
<1>3. CASE p = "ctl"
  <2>1. pc'["daemon"] = pc["daemon"]
    BY <1>0, <1>3, Frame, Zenon DEF Proc
  <2> QED BY <1>1, <1>2, <1>3, <2>1, Zenon DEF Plan, Deduping
<1>4. CASE p = "daemon"
  <2>1. pc'["ctl"] = pc["ctl"] /\ loc'["ctl"] = loc["ctl"]
    BY <1>0, <1>4, Frame, Zenon DEF Proc
  <2>2. CASE pc["ctl"] \notin Deduping
    BY <1>2, <1>4, <2>1, <2>2, Zenon DEF Plan, Deduping
  <2>3. CASE pc["ctl"] \in Deduping
    <3>1. c.acct \in Account /\ c.acct \in AcctId /\ Goes(c.acct, c.pairs)
      BY <1>1, <2>3, ConstantFacts, Zenon DEF PlanOf
    <3>2. \A i \in Ids("mailboxes", c.acct) :
             i \in Ids("mailboxes", loc["ctl"].acct)' /\ coll'["mailboxes"][c.acct][i] = coll["mailboxes"][c.acct][i]
      <4>1. PICK a \in AcctId : a = c.acct
        BY <3>1
      <4>2. \A i \in Ids("mailboxes", a) : i \in Ids("mailboxes", a)' /\ coll'["mailboxes"][a][i] = coll["mailboxes"][a][i]
        <5>1. CASE coll' = coll
          BY <5>1, Zenon DEF Ids
        <5>2. CASE InsertRow(p) /\ Grows(loc[p].k, Dest(p, Hand(p)), HandDoc(p))
          <6>1. loc[p].k \in Kind /\ Dest(p, Hand(p)) \in AcctId /\ HandDoc(p) \in Doc
            BY <1>0, <5>2, InsertFacts, Zenon
          <6>2. \A K \in Kind, A \in AcctId, D \in Doc : Grows(K, A, D) =>
                  \A i \in Ids("mailboxes", a) :
                      i \in Ids("mailboxes", a)' /\ coll'["mailboxes"][a][i] = coll["mailboxes"][a][i]
            BY <1>0, GrowsFacts DEF Kind
          <6> QED BY <5>2, <6>1, <6>2
        <5> QED BY <1>0, <5>1, <5>2, PlainFacts, Zenon
      <4> QED BY <2>1, <4>1, <4>2, Zenon
    <3>3. Goes(loc["ctl"].acct, loc["ctl"].pairs)'
      <4>1. PICK a : a = c.acct
        BY Zenon
      <4>2. PICK P : P = c.pairs
        BY Zenon
      <4>3. \A x \in P : x[1] \in Ids("mailboxes", a) /\ x[2] \in Ids("mailboxes", a)
        BY <3>1, <4>1, <4>2, Zenon DEF Goes
      <4>4. \A i \in Ids("mailboxes", a) : i \in Ids("mailboxes", a)' /\ coll'["mailboxes"][a][i] = coll["mailboxes"][a][i]
        BY <2>1, <3>2, <4>1
      <4>5. Goes(a, P)'
        BY <3>1, <4>1, <4>2, <4>3, <4>4, GoesKept
      <4> QED BY <2>1, <4>1, <4>2, <4>5, Zenon
    <3>4. PlanOf(loc["ctl"], pc["ctl"])'
      BY <1>1, <2>1, <2>3, <3>1, <3>3, Zenon DEF PlanOf
    <3> QED BY <1>2, <1>4, <3>4 DEF Plan, PlanOf, Goes, Deduping
  <2> QED BY <2>2, <2>3, Zenon
<1> QED BY <1>3, <1>4, Zenon DEF Proc

\* What listing the messages of a duplicate does.
LEMMA DedupeBoxFacts ==
    ASSUME TypeOK, Plan, NEW p \in Proc, DedupeBox(p)
    PROVE  /\ p = "ctl" /\ pc["ctl"] = "d_next" /\ pc'["ctl"] = "d_move" /\ UNCHANGED <<legacy, coll>>
           /\ loc'["ctl"].acct = loc["ctl"].acct /\ loc'["ctl"].pairs = loc["ctl"].pairs
           /\ loc'["ctl"].pair \in loc["ctl"].pairs
           /\ loc'["ctl"].todo = InBox(loc["ctl"].acct, loc'["ctl"].pair[2])
<1>1. pc[p] = "d_next"
  BY Zenon DEF DedupeBox
<1>2. p = "ctl" /\ loc["ctl"] \in Local /\ loc \in [Proc -> Local] /\ pc \in [Proc -> Label]
  BY <1>1, DedupeProc, Zenon DEF Deduping, TypeOK
<1>3. PICK x \in loc["ctl"].pairs :
         loc' = [loc EXCEPT !["ctl"] = [@ EXCEPT !.pair = x, !.todo = InBox(loc["ctl"].acct, x[2])]]
  BY <1>2, Zenon DEF DedupeBox
<1> DEFINE t == InBox(loc["ctl"].acct, x[2])
<1> HIDE DEF t
<1>4. loc'["ctl"] = [loc["ctl"] EXCEPT !.pair = x, !.todo = t]
  BY <1>2, <1>3, Zenon DEF t
<1>5. /\ loc'["ctl"].acct = loc["ctl"].acct /\ loc'["ctl"].pairs = loc["ctl"].pairs
      /\ loc'["ctl"].pair = x /\ loc'["ctl"].todo = t
  BY <1>2, <1>4, Zenon DEF Local
<1>6. pc'["ctl"] = "d_move" /\ UNCHANGED <<legacy, coll>>
  BY <1>2, Zenon DEF DedupeBox, Goto
<1> QED BY <1>1, <1>2, <1>5, <1>6, Zenon DEF t

\* What grouping an account's mailboxes by name does.
LEMMA DedupeAccountFacts ==
    ASSUME TypeOK, NEW p \in Proc, DedupeAccount(p)
    PROVE  /\ p = "ctl" /\ pc["ctl"] = "up" /\ pc'["ctl"] = "d_next" /\ UNCHANGED <<legacy, coll>>
           /\ loc'["ctl"].acct \in Account /\ loc'["ctl"].pairs = Duplicates(loc'["ctl"].acct)
<1>1. p = "ctl" /\ loc \in [Proc -> Local] /\ pc \in [Proc -> Label]
  BY Zenon DEF DedupeAccount, TypeOK
<1>2. PICK a \in Account : loc' = [loc EXCEPT !["ctl"] = [Idle EXCEPT !.acct = a, !.pairs = Duplicates(a)]]
  BY <1>1, Zenon DEF DedupeAccount
<1> DEFINE d == Duplicates(a)
<1> HIDE DEF d
<1>3. loc'["ctl"] = [Idle EXCEPT !.acct = a, !.pairs = d]
  BY <1>1, <1>2, Zenon DEF d, Proc
<1>4. loc'["ctl"].acct = a /\ loc'["ctl"].pairs = d
  BY <1>3, Zenon DEF Idle
<1>5. pc["ctl"] = "up" /\ pc'["ctl"] = "d_next" /\ UNCHANGED <<legacy, coll>>
  BY <1>1, Zenon DEF DedupeAccount, Goto
<1> QED BY <1>1, <1>4, <1>5, Zenon DEF d

\* The steps of the dedupe command keep the plan.
LEMMA PlanDedupe ==
    ASSUME RowsInv, NEW p \in Proc, Dedupe(p)
    PROVE  Plan'
<1> DEFINE c == loc["ctl"]
<1>0. TypeOK /\ Plan /\ Step(p) /\ loc["ctl"] \in Local /\ loc \in [Proc -> Local] /\ pc \in [Proc -> Label]
  BY Zenon DEF RowsInv, Step, TypeOK, Proc
<1>1. pc["daemon"] \notin Deduping /\ PlanOf(c, pc["ctl"])
  BY <1>0, PlanIs, Zenon
<1>2. p = "ctl" => pc'["daemon"] \notin Deduping
  BY <1>0, <1>1, Frame, Zenon DEF Proc
<1>3. \A a : \A P : a = loc'["ctl"].acct /\ P = loc'["ctl"].pairs /\ Goes(a, P)' => Goes(loc["ctl"].acct, loc["ctl"].pairs)'
  BY Zenon
<1>4. ASSUME p = "ctl", NEW a \in Account, NEW P, a = loc'["ctl"].acct, P = loc'["ctl"].pairs, Goes(a, P)',
             pc'["ctl"] \in {"d_move", "d_box"} => loc'["ctl"].pair \in P
      PROVE  Plan'
  <2>1. PlanOf(loc["ctl"], pc["ctl"])'
    BY <1>3, <1>4, Zenon DEF PlanOf
  <2> QED BY <1>2, <1>4, <2>1, Zenon DEF Plan, PlanOf, Goes, Deduping
<1>5. CASE DedupeAccount(p)
  <2>1. /\ p = "ctl" /\ pc'["ctl"] = "d_next" /\ coll' = coll
        /\ loc'["ctl"].acct \in Account /\ loc'["ctl"].pairs = Duplicates(loc'["ctl"].acct)
    BY <1>0, <1>5, DedupeAccountFacts, Zenon
  <2>2. PICK a \in Account : a = loc'["ctl"].acct
    BY <2>1, Zenon
  <2>3. Goes(a, Duplicates(a))
    BY <1>0, <2>2, DuplicateFacts, ConstantFacts DEF Goes
  <2>4. PICK P : P = Duplicates(a)
    BY Zenon
  <2>5. Goes(a, P)'
    BY <2>1, <2>3, <2>4, GoesSame, Zenon
  <2> QED BY <1>4, <2>1, <2>2, <2>4, <2>5
<1>6. CASE DedupeBox(p)
  <2>1. /\ p = "ctl" /\ pc["ctl"] = "d_next" /\ coll' = coll
        /\ loc'["ctl"].acct = c.acct /\ loc'["ctl"].pairs = c.pairs /\ loc'["ctl"].pair \in c.pairs
    BY <1>0, <1>6, DedupeBoxFacts, Zenon
  <2>2. c.acct \in Account /\ Goes(c.acct, c.pairs)
    BY <1>1, <2>1, Zenon DEF PlanOf, Deduping
  <2>3. PICK a \in Account : a = c.acct
    BY <2>2, Zenon
  <2>4. PICK P : P = c.pairs
    BY Zenon
  <2>5. Goes(a, P)'
    BY <2>1, <2>2, <2>3, <2>4, GoesSame, Zenon
  <2> QED BY <1>4, <2>1, <2>3, <2>4, <2>5, Zenon
<1>7. CASE DedupeMove(p)
  <2>1. /\ p = "ctl" /\ pc["ctl"] = "d_move"
        /\ \/ pc' = [pc EXCEPT !["ctl"] = "down"]
           \/ /\ Moves(c.acct, Hand("ctl"), c.pair[1]) /\ pc' = pc
              /\ loc' = [loc EXCEPT !["ctl"].todo = c.todo \ {Hand("ctl")}]
    BY <1>0, <1>7, MoveFacts, Zenon
  <2>2. c.acct \in Account /\ c.acct \in AcctId /\ Goes(c.acct, c.pairs) /\ c.pair \in c.pairs
    BY <1>1, <2>1, ConstantFacts DEF PlanOf, Deduping
  <2>3. CASE pc' = [pc EXCEPT !["ctl"] = "down"]
    BY <1>0, <1>2, <2>1, <2>3, Zenon DEF Plan, Deduping
  <2>4. CASE /\ Moves(c.acct, Hand("ctl"), c.pair[1])
             /\ loc' = [loc EXCEPT !["ctl"].todo = c.todo \ {Hand("ctl")}]
    <3>1. loc'["ctl"].acct = c.acct /\ loc'["ctl"].pairs = c.pairs /\ loc'["ctl"].pair = c.pair
      BY <1>0, <2>4 DEF Local
    <3>2. coll'["mailboxes"][c.acct] = coll["mailboxes"][c.acct]
      BY <2>2, <2>4, Zenon DEF Moves, Rewrites, Kind
    <3>3. PICK a \in Account : a = c.acct
      BY <2>2, Zenon
    <3>4. PICK P : P = c.pairs
      BY Zenon
    <3>5. Goes(a, P)'
      BY <2>2, <3>2, <3>3, <3>4, GoesSame
    <3> QED BY <1>4, <2>1, <2>2, <3>1, <3>3, <3>4, <3>5, Zenon
  <2> QED BY <2>1, <2>3, <2>4, Zenon
<1>8. CASE DedupeEmpty(p)
  <2>1. p = "ctl" /\ pc["ctl"] = "d_move" /\ loc' = loc /\ Empties(c.acct, c.pair[2])
    BY <1>0, <1>8, EmptyFacts, Zenon
  <2>2. c.acct \in Account /\ c.acct \in AcctId /\ Goes(c.acct, c.pairs) /\ c.pair \in c.pairs
    BY <1>1, <2>1, ConstantFacts, ZenonT(30) DEF PlanOf, Deduping
  <2>3. coll'["mailboxes"][c.acct] = coll["mailboxes"][c.acct]
    BY <2>1, <2>2 DEF Empties, Rewrites, Kind
  <2>4. PICK a \in Account : a = c.acct
    BY <2>2, Zenon
  <2>5. PICK P : P = c.pairs
    BY Zenon
  <2>6. Goes(a, P)'
    BY <2>2, <2>3, <2>4, <2>5, GoesSame, Zenon
  <2> QED BY <1>4, <2>1, <2>2, <2>4, <2>5, <2>6
<1>9. CASE DedupeDrop(p)
  <2>1. /\ p = "ctl" /\ pc["ctl"] = "d_box" /\ Drops(c.acct, c.pair[2])
        /\ loc' = [loc EXCEPT !["ctl"].pairs = c.pairs \ {c.pair}]
        /\ pc' = [pc EXCEPT !["ctl"] = "up"] \/ pc' = [pc EXCEPT !["ctl"] = "d_next"]
    BY <1>0, <1>9, DropFacts
  <2>2. c.acct \in Account /\ c.acct \in AcctId /\ Goes(c.acct, c.pairs) /\ c.pair \in c.pairs
    BY <1>1, <2>1, ConstantFacts, Zenon DEF PlanOf, Deduping
  <2>3. pc'["ctl"] \in {"up", "d_next"} /\ loc'["ctl"].acct = c.acct /\ loc'["ctl"].pairs = c.pairs \ {c.pair}
    BY <1>0, <2>1, Zenon DEF Local, Proc
  <2>4. PICK a \in AcctId : a = c.acct
    BY <2>2, Zenon
  <2>5. PICK P : P = c.pairs \ {c.pair}
    BY Zenon
  <2>6. \A x \in P : /\ x[1] # c.pair[2] /\ x[2] # c.pair[2]
                     /\ x[1] \in Ids("mailboxes", a) /\ x[2] \in Ids("mailboxes", a)
    BY <2>2, <2>4, <2>5, Zenon DEF Goes
  <2>7. \A i \in Ids("mailboxes", a) : i # c.pair[2] =>
            i \in Ids("mailboxes", a)' /\ coll'["mailboxes"][a][i] = coll["mailboxes"][a][i]
    BY <2>1, <2>4, ZenonT(30) DEF Drops, Rewrites, Ids
  <2>8. Goes(a, P)
    BY <2>2, <2>4, <2>5 DEF Goes
  <2>9. Goes(a, P)'
    BY <2>6, <2>7, <2>8, GoesKept
  <2> QED BY <1>4, <2>1, <2>2, <2>3, <2>4, <2>5, <2>9, Zenon
<1> QED BY <1>5, <1>6, <1>7, <1>8, <1>9, Zenon DEF Dedupe

\* Every step keeps the plan.
LEMMA PlanStep ==
    ASSUME RowsInv, NEW p \in Proc, Step(p)
    PROVE  Plan'
BY PlanPlain, PlanDedupe, Zenon DEF Step

\* Message row r has a document that the merge spares.
Held(r) == \E a \in AcctId : \E i \in Ids("messages", a) : coll["messages"][a][i].row = r /\ Spared(a, i)

\* The daemon takes no spared document away.
LEMMA HeldOther ==
    ASSUME RowsInv, NEW p \in Proc, Plain(p), p = "daemon", NEW r, Held(r)
    PROVE  Held(r)'
<1>0. TypeOK /\ Stage(p) /\ Step(p)
  BY Zenon DEF RowsInv, Step
<1>1. pc'["ctl"] = pc["ctl"] /\ loc'["ctl"] = loc["ctl"]
  BY <1>0, Frame, Zenon DEF Proc
<1>2. PICK a \in AcctId : \E i \in Ids("messages", a) : coll["messages"][a][i].row = r /\ Spared(a, i)
  BY Zenon DEF Held
<1>3. PICK i \in Ids("messages", a) : coll["messages"][a][i].row = r /\ Spared(a, i)
  BY <1>2, Zenon
<1>4. i \in Ids("messages", a)' /\ coll'["messages"][a][i] = coll["messages"][a][i]
  <2>1. CASE coll' = coll
    BY <2>1, Zenon DEF Ids
  <2>2. CASE InsertRow(p) /\ Grows(loc[p].k, Dest(p, Hand(p)), HandDoc(p))
    <3>1. loc[p].k \in Kind /\ Dest(p, Hand(p)) \in AcctId /\ HandDoc(p) \in Doc
      BY <1>0, <2>2, InsertFacts, SMTT(30)
    <3>2. \A K \in Kind, A \in AcctId, D \in Doc : Grows(K, A, D) =>
            i \in Ids("messages", a)' /\ coll'["messages"][a][i] = coll["messages"][a][i]
      BY <1>0, GrowsFacts DEF Kind
    <3> QED BY <2>2, <3>1, <3>2, Zenon
  <2> QED BY <1>0, <2>1, <2>2, PlainFacts, Zenon
<1>5. Spared(a, i)'
  BY <1>1, <1>3, <1>4, Zenon DEF Spared
<1> QED BY <1>3, <1>4, <1>5, Zenon DEF Held

\* The dedupe command leaves every message a spared document.
LEMMA HeldDedupe ==
    ASSUME RowsInv, NEW p \in Proc, Dedupe(p), pc["ctl"] \in Deduping, NEW r, Held(r)
    PROVE  pc'["ctl"] \in Deduping => Held(r)'
<1> DEFINE c == loc["ctl"]
           b == loc["ctl"].acct
<1>0. /\ TypeOK /\ Plan /\ loc["ctl"] \in Local /\ loc \in [Proc -> Local] /\ pc \in [Proc -> Label]
      /\ c.acct \in AcctId
  BY DedupeProc, Zenon DEF RowsInv, TypeOK, Proc
<1>1. PICK a \in AcctId : \E i \in Ids("messages", a) : coll["messages"][a][i].row = r /\ Spared(a, i)
  BY Zenon DEF Held
<1>2. PICK i \in Ids("messages", a) : coll["messages"][a][i].row = r /\ Spared(a, i)
  BY <1>1, Zenon
<1>3. ASSUME i \in Ids("messages", a)', coll'["messages"][a][i].row = r, Spared(a, i)'
      PROVE  Held(r)'
  BY <1>3, Zenon DEF Held
<1>4. CASE DedupeAccount(p)
  BY <1>4, DedupeAccountFacts, <1>0 DEF Deduping
<1>5. CASE DedupeBox(p)
  <2>1. /\ coll' = coll /\ loc'["ctl"].acct = c.acct
        /\ loc'["ctl"].todo = InBox(c.acct, loc'["ctl"].pair[2])
    BY <1>0, <1>5, DedupeBoxFacts, Zenon
  <2>2. Ids("messages", a)' = Ids("messages", a)
    BY <2>1, Zenon DEF Ids
  <2>3. Spared(a, i)'
    BY <1>2, <2>1, Zenon DEF Spared, InBox
  <2> QED BY <1>2, <1>3, <2>1, <2>2, <2>3, Zenon
<1>6. CASE DedupeMove(p)
  <2>1. /\ pc["ctl"] = "d_move"
        /\ \/ pc' = [pc EXCEPT !["ctl"] = "down"]
           \/ /\ Moves(b, Hand("ctl"), c.pair[1]) /\ pc' = pc
              /\ loc' = [loc EXCEPT !["ctl"].todo = c.todo \ {Hand("ctl")}]
    BY <1>0, <1>6, MoveFacts, Zenon
  <2>2. CASE pc' = [pc EXCEPT !["ctl"] = "down"]
    BY <1>0, <2>2, Zenon DEF Deduping, Proc
  <2>3. CASE /\ Moves(b, Hand("ctl"), c.pair[1]) /\ pc' = pc
             /\ loc' = [loc EXCEPT !["ctl"].todo = c.todo \ {Hand("ctl")}]
    <3>1. loc'["ctl"].acct = b /\ loc'["ctl"].pair = c.pair /\ loc'["ctl"].todo = c.todo \ {Hand("ctl")}
      <4> DEFINE t == c.todo \ {Hand("ctl")}
      <4> HIDE DEF t
      <4>1. loc' = [loc EXCEPT !["ctl"].todo = t]
        BY <2>3, Zenon DEF t
      <4>2. loc'["ctl"].acct = b /\ loc'["ctl"].pair = c.pair /\ loc'["ctl"].todo = t
        BY <1>0, <4>1, Zenon DEF Local, Proc
      <4> QED BY <4>2, Zenon DEF t
    <3>2. c.pair[1] # c.pair[2]
      <4>1. PlanOf(c, "d_move")
        BY <1>0, <2>1, PlanIs, Zenon
      <4>2. c.pair \in c.pairs /\ Goes(c.acct, c.pairs)
        BY <4>1, Zenon DEF PlanOf, Deduping
      <4> QED BY <4>2 DEF Goes
    <3>3. CASE a = b /\ i = Hand("ctl")
      <4>1. coll'["messages"][a][i].row = r /\ coll'["messages"][a][i].mbox = c.pair[1] /\ coll'["messages"][a][i] \in Doc
        BY <1>2, <2>3, <3>3 DEF Moves
      <4>2. i \in Ids("messages", a)'
        BY <1>2, <2>3, <3>3, <4>1, ConstantFacts, ZenonT(30) DEF Moves, Rewrites, Ids
      <4>3. Spared(a, i)'
        BY <3>1, <3>2, <4>1 DEF Spared
      <4> QED BY <1>3, <4>1, <4>2, <4>3, SMTT(30)
    <3>4. CASE ~(a = b /\ i = Hand("ctl"))
      <4>1. i \in Ids("messages", a)' /\ coll'["messages"][a][i] = coll["messages"][a][i]
        <5>1. CASE a # b
          BY <1>2, <2>3, <5>1, SMTT(30) DEF Moves, Rewrites, Ids, Kind
        <5>2. CASE a = b
          BY <1>2, <2>3, <3>4, <5>2 DEF Moves, Rewrites, Ids
        <5> QED BY <5>1, <5>2, ZenonT(30)
      <4>2. Spared(a, i)'
        BY <1>2, <2>1, <3>1, <3>4, <4>1, ZenonT(30) DEF Spared
      <4> QED BY <1>2, <1>3, <4>1, <4>2, Zenon
    <3> QED BY <3>3, <3>4, Zenon
  <2> QED BY <2>1, <2>2, <2>3, Zenon
<1>7. CASE DedupeEmpty(p)
  <2>1. /\ pc["ctl"] = "d_move" /\ c.todo = {} /\ pc'["ctl"] = "d_box"
        /\ Empties(b, c.pair[2])
    BY <1>0, <1>7, EmptyFacts DEF Proc
  <2>2. i \in Ids("messages", a)' /\ coll'["messages"][a][i] = coll["messages"][a][i]
    <3>1. CASE a # b
      BY <1>2, <2>1, <3>1, ZenonT(30) DEF Empties, Rewrites, Ids, Kind
    <3>2. CASE a = b
      <4>1. i \notin InBox(b, c.pair[2])
        BY <1>2, <2>1, <3>2 DEF Spared, InBox
      <4> QED BY <1>2, <2>1, <3>2, <4>1, SMTT(30) DEF Empties, Rewrites, Ids
    <3> QED BY <3>1, <3>2, ZenonT(30)
  <2> QED BY <1>2, <1>3, <2>1, <2>2 DEF Spared
<1>8. CASE DedupeDrop(p)
  <2>1. Drops(b, c.pair[2]) /\ pc'["ctl"] \in {"up", "d_next"}
    BY <1>0, <1>8, DropFacts DEF Proc
  <2>2. coll'["messages"][a] = coll["messages"][a]
    BY <2>1, <1>0, Zenon DEF Drops, Rewrites, Kind
  <2>3. Ids("messages", a)' = Ids("messages", a)
    BY <2>2, Zenon DEF Ids
  <2> QED BY <1>2, <1>3, <2>1, <2>2, <2>3, Zenon DEF Spared
<1> QED BY <1>4, <1>5, <1>6, <1>7, <1>8, Zenon DEF Dedupe

\* While the tool merges, no step leaves a message without a spared document.
LEMMA SafeStep ==
    ASSUME RowsInv, NEW p \in Proc, Step(p)
    PROVE  Safe'
<1> SUFFICES ASSUME pc'["ctl"] \in Deduping, NEW r \in RowId("messages"), Legacy["messages"][r].acct # 0
             PROVE  Held(r)'
  BY Zenon DEF Safe, Held
<1>0. TypeOK /\ Plan /\ Safe /\ Stage(p) /\ Passed("ctl") /\ NoRowLost
  BY Zenon DEF RowsInv, Proc
<1>1. pc["ctl"] \in Deduping => Held(r)
  BY <1>0 DEF Safe, Held
<1>2. CASE Plain(p)
  <2>1. p = "daemon"
    BY <1>0, <1>2, PlainFacts, Zenon DEF Proc
  <2>2. pc["ctl"] \in Deduping
    BY <1>0, <2>1, Frame DEF Proc
  <2> QED BY <1>1, <1>2, <2>1, <2>2, HeldOther
<1>3. CASE Dedupe(p) /\ pc["ctl"] \in Deduping
  BY <1>1, <1>3, HeldDedupe, Zenon
<1>4. CASE Dedupe(p) /\ pc["ctl"] \notin Deduping
  <2>1. DedupeAccount(p)
    <3>1. CASE DedupeBox(p) \/ DedupeMove(p) \/ DedupeEmpty(p) \/ DedupeDrop(p)
      BY <1>0, <1>4, <3>1, DedupeBoxFacts, MoveFacts, EmptyFacts, DropFacts DEF Deduping
    <3> QED BY <1>4, <3>1 DEF Dedupe
  <2>2. pc["ctl"] = "up" /\ pc'["ctl"] = "d_next" /\ coll' = coll
    BY <1>0, <2>1, DedupeAccountFacts, Zenon
  <2>3. r \notin legacy["messages"]
    BY <1>0, <2>2 DEF Passed, PastMessages
  <2>4. PICK a \in AcctId : \E i \in Ids("messages", a) : coll["messages"][a][i].row = r
    BY <1>0, <2>3 DEF NoRowLost, Has, Stands, Kind
  <2>5. PICK i \in Ids("messages", a) : coll["messages"][a][i].row = r
    BY <2>4, Zenon
  <2>6. Ids("messages", a)' = Ids("messages", a)
    BY <2>2, Zenon DEF Ids
  <2> QED BY <2>2, <2>5, <2>6, Zenon DEF Held, Spared
<1> QED BY <1>2, <1>3, <1>4, Zenon DEF Step

-----------------------------------------------------------------------------
\* The invariant holds on a server in the old layout.
LEMMA RowsInit == ASSUME Init PROVE RowsInv
<1>1. TypeOK
  <2>1. <<>> \in Seq(Doc \cup {Null})
    OBVIOUS
  <2>2. \A k \in Kind : RowId(k) \subseteq Nat
    BY ConstantFacts, Zenon
  <2>3. "down" \in Label
    BY Zenon DEF Label
  <2> QED BY <2>1, <2>2, <2>3, IdleType, Zenon DEF Init, TypeOK
<1>2. \A k \in Kind : legacy[k] = RowId(k)
  BY Zenon DEF Init
<1>3. pc = [p \in Proc |-> "down"] /\ dropped = {}
  BY Zenon DEF Init
<1>4. \A p \in Proc : Stage(p) /\ Passed(p)
  BY <1>3, Zenon DEF Stage, Passed, PastMessages, Working, Deduping
<1>5. Shared /\ NoRowLost
  BY <1>2, <1>3, Zenon DEF Shared, NoRowLost
<1>6. Plan /\ Safe
  BY <1>3, Zenon DEF Plan, Safe, Deduping, Proc
<1> QED BY <1>1, <1>4, <1>5, <1>6, Zenon DEF RowsInv

\* Every step keeps the invariant.
LEMMA RowsNext == ASSUME RowsInv, [Next]_vars PROVE RowsInv'
<1>1. CASE Next
  <2>1. PICK p \in Proc : Step(p)
    BY <1>1, Zenon DEF Next, Step, Plain
  <2>2. TypeOK'
    BY <2>1, TypeStep, Zenon DEF RowsInv
  <2>3. \A q \in Proc : Stage(q)' /\ Passed(q)'
    BY <2>1, StageStep, PassedStep, Zenon
  <2> QED BY <2>1, <2>2, <2>3, SharedStep, NoRowLostStep, PlanStep, SafeStep DEF RowsInv
<1>2. CASE UNCHANGED vars
  <2>1. /\ legacy' = legacy /\ dropped' = dropped /\ coll' = coll /\ pc' = pc /\ loc' = loc
        /\ retries' = retries /\ overlaps' = overlaps /\ torn' = torn
    BY <1>2, Zenon DEF vars
  <2>2. TypeOK' = TypeOK
    BY <2>1, Zenon DEF TypeOK
  <2>3. Shared' = Shared
    BY <2>1, Zenon DEF Shared
  <2>4. NoRowLost' = NoRowLost
    BY <2>1 DEF NoRowLost, Has, Stands, Ids
  <2>5. Plan' = Plan
    BY <2>1 DEF Plan, Ids, NameOf
  <2>6. Safe' = Safe
    BY <2>1, SMTT(30) DEF Safe, Spared, Ids
  <2>7. \A p \in Proc : Stage(p)' = Stage(p)
    BY <2>1 DEF Stage, Dest, Hand, Has, Stands, Ids
  <2>8. \A p \in Proc : Passed(p)' = Passed(p)
    BY <2>1, Zenon DEF Passed, PastMessages
  <2> QED BY <2>2, <2>3, <2>4, <2>5, <2>6, <2>7, <2>8, Zenon DEF RowsInv
<1> QED BY <1>1, <1>2, Zenon

\* The invariant holds throughout.
LEMMA RowsInvariant == Spec => []RowsInv
BY RowsInit, RowsNext, PTL DEF Spec

\* Whatever fails, however often it is repeated and whoever runs beside it, no
\* row of the shared collections is lost, by the migration or by the repair of
\* its duplicates (migrateLegacyCollection, dedupOneAccount).
THEOREM RowsKept == Spec => []NoRowLost
BY RowsInvariant, PTL DEF RowsInv

=============================================================================
