--------------------------- MODULE MailStore_proofs ---------------------------
(***************************************************************************)
(* Theorems about MailStore, for any number of processes, mailboxes, flags *)
(* and operations, any assignment of roles, with or without failures.      *)
(***************************************************************************)
EXTENDS MailStore, TLAPS

\* What the labels say about an operation's local record.
LocOK ==
    \A p \in Proc :
        /\ pc[p] \in {"a_uid", "a_seq", "a_put", "a_ref", "a_ins", "a_undo",
                      "c_bump", "c_uid", "c_seq", "c_ins", "m_uid", "m_seq", "m_set",
                      "x_obj", "x_msgs", "x_mbox"}
               => loc[p].dest \in MboxId
        /\ pc[p] \in {"c_bump", "c_uid", "c_seq", "c_ins", "d_seq", "d_doc",
                      "r_dec", "r_row", "r_obj", "d_log", "f_seq"}
               => loc[p].src \in Doc
        /\ pc[p] \in {"m_set", "m_uid", "m_seq", "d_seq", "d_doc", "f_get", "f_seq", "f_set"}
               => loc[p].msg \in OpId
        /\ pc[p] \in {"f_get", "f_seq", "f_set"}
               => loc[p].op \in {"addflags", "removeflags", "setflags"}

TypeInv == TypeOK /\ LocOK

\* The initial state is well typed.
LEMMA TypeInit == Init => TypeInv
<1> SUFFICES ASSUME Init PROVE TypeInv
  BY Zenon
<1>1. LocOK
  BY Zenon DEF Init, LocOK
<1>2. ops \in 0 .. MaxOps /\ uidnext \in [MboxId -> Nat \ {0}]
  BY ConstantsAssumption DEF Init, FirstUid
<1>3. /\ msgs \in [OpId -> Doc \cup {Null}] /\ refs \in [OpId -> Int \cup {Null}]
      /\ loc \in [Proc -> Local \cup {Null}] /\ acked \in [OpId -> SUBSET Flag]
  BY Zenon DEF Init
<1>4. mbox \in [MboxId -> {"none", "live", "gone"}] /\ highest \in [MboxId -> Nat]
  BY Zenon DEF Init
<1>5. /\ blobs \subseteq OpId /\ explog \subseteq [mbox : MboxId, uid : Nat, seq : Nat]
      /\ used \in Int /\ placed \subseteq MboxId \X Nat /\ dangling \subseteq OpId
      /\ vacated \subseteq MboxId \X Nat
  BY DEF Init
<1>8. faulted \in BOOLEAN
  BY Zenon DEF Init
<1>6. pc \in [Proc -> Label] /\ \A p \in Proc : (pc[p] = "idle") <=> (loc[p] = Null)
  BY Zenon DEF Init, Label
<1>7. TypeOK
  BY <1>2, <1>3, <1>4, <1>5, <1>6, <1>8, Zenon DEF TypeOK
<1> QED BY <1>1, <1>7, Zenon DEF TypeInv

\* Starting an operation with a well-formed local record keeps the types.
LEMMA BeginType ==
    ASSUME TypeInv, NEW p \in Proc, NEW op \in OpName, NEW label \in Label \ {"idle"},
           NEW l \in Local, Begin(p, op, label, l),
           label \in {"a_uid", "c_bump", "m_uid", "x_obj", "x_msgs"} => l.dest \in MboxId,
           label \in {"c_bump", "d_seq"} => l.src \in Doc,
           label \in {"m_uid", "d_seq", "f_get"} => l.msg \in OpId,
           label = "f_get" => l.op \in {"addflags", "removeflags", "setflags"},
           label \in {"a_uid", "c_bump", "m_uid", "d_seq", "f_get", "x_obj", "x_msgs"}
    PROVE  TypeInv'
<1>1. TypeOK'
  <2>1. ops' \in 0 .. MaxOps
    BY ConstantsAssumption DEF TypeInv, TypeOK, Begin
  <2>2. pc' \in [Proc -> Label] /\ loc' \in [Proc -> Local \cup {Null}]
    BY Zenon DEF TypeInv, TypeOK, Begin
  <2>3. l # Null
    BY ConstantsAssumption, Zenon
  <2>4. \A q \in Proc : (pc'[q] = "idle") <=> (loc'[q] = Null)
    BY <2>3, Zenon DEF TypeInv, TypeOK, Begin
  <2> QED BY <2>1, <2>2, <2>4, Zenon DEF TypeInv, TypeOK, Begin
<1>2. LocOK'
  BY DEF TypeInv, TypeOK, LocOK, Begin
<1> QED BY <1>1, <1>2, Zenon DEF TypeInv

\* Every start action keeps the types.
LEMMA StartType ==
    ASSUME TypeInv, NEW p \in Proc,
           \/ StartAppend(p) \/ StartCopy(p) \/ StartMove(p) \/ StartDelete(p)
           \/ StartFlags(p) \/ StartDeleteMailbox(p)
    PROVE  TypeInv'
<1>1. ASSUME ops < MaxOps, NEW op \in OpName PROVE Blank(op) \in Local
  BY <1>1, ConstantsAssumption DEF TypeInv, TypeOK, Blank, Local, OpId
<1>2. CASE StartAppend(p)
  <2>1. PICK b \in MboxId : Begin(p, "append", "a_uid", [Blank("append") EXCEPT !.dest = b])
    BY <1>2, Zenon DEF StartAppend
  <2>2. Blank("append") \in Local
    BY <1>1, <2>1, Zenon DEF Begin, OpName
  <2> DEFINE l == [Blank("append") EXCEPT !.dest = b]
  <2>3. l \in Local /\ l.dest \in MboxId
    BY <2>2, Zenon DEF Local
  <2> QED BY <2>1, <2>3, BeginType, Zenon DEF OpName, Label
<1>3. CASE StartCopy(p)
  <2>1. PICK i \in OpId, b \in MboxId :
            /\ Live(i)
            /\ Begin(p, "copy", "c_bump",
                 [Blank("copy") EXCEPT !.msg = i, !.src = msgs[i], !.dest = b])
    BY <1>3, Zenon DEF StartCopy
  <2>2. Blank("copy") \in Local
    BY <1>1, <2>1, Zenon DEF Begin, OpName
  <2> DEFINE l == [Blank("copy") EXCEPT !.msg = i, !.src = msgs[i], !.dest = b]
  <2>4. msgs[i] \in Doc
    BY <2>1, Zenon DEF TypeInv, TypeOK, Live
  <2>3. l \in Local /\ l.dest \in MboxId /\ l.src \in Doc /\ l.msg \in OpId
    BY <2>2, <2>4, Zenon DEF Local
  <2> QED BY <2>1, <2>3, BeginType, Zenon DEF OpName, Label
<1>4. CASE StartMove(p)
  <2>1. PICK i \in OpId, b \in MboxId :
            /\ Live(i)
            /\ Begin(p, "move", "m_uid",
                 [Blank("move") EXCEPT !.msg = i, !.src = msgs[i], !.dest = b])
    BY <1>4, Zenon DEF StartMove
  <2>2. Blank("move") \in Local
    BY <1>1, <2>1, Zenon DEF Begin, OpName
  <2> DEFINE l == [Blank("move") EXCEPT !.msg = i, !.src = msgs[i], !.dest = b]
  <2>4. msgs[i] \in Doc
    BY <2>1, Zenon DEF TypeInv, TypeOK, Live
  <2>3. l \in Local /\ l.dest \in MboxId /\ l.src \in Doc /\ l.msg \in OpId
    BY <2>2, <2>4, Zenon DEF Local
  <2> QED BY <2>1, <2>3, BeginType, Zenon DEF OpName, Label
<1>5. CASE StartDelete(p)
  <2>1. PICK i \in OpId :
            /\ Live(i)
            /\ Begin(p, "delete", "d_seq", [Blank("delete") EXCEPT !.msg = i, !.src = msgs[i]])
    BY <1>5, Zenon DEF StartDelete
  <2>2. Blank("delete") \in Local
    BY <1>1, <2>1, Zenon DEF Begin, OpName
  <2> DEFINE l == [Blank("delete") EXCEPT !.msg = i, !.src = msgs[i]]
  <2>4. msgs[i] \in Doc
    BY <2>1, Zenon DEF TypeInv, TypeOK, Live
  <2>3. l \in Local /\ l.src \in Doc /\ l.msg \in OpId
    BY <2>2, <2>4, Zenon DEF Local
  <2> QED BY <2>1, <2>3, BeginType, Zenon DEF OpName, Label
<1>6. CASE StartFlags(p)
  <2>1. PICK op \in {"addflags", "removeflags", "setflags"}, i \in OpId, F \in SUBSET Flag :
            /\ Live(i)
            /\ Begin(p, op, "f_get",
                     [Blank(op) EXCEPT !.msg = i, !.arg = F,
                                       !.flags = NewFlags(op, msgs[i].flags, F)])
    BY <1>6, Zenon DEF StartFlags
  <2>2. Blank(op) \in Local /\ Blank(op).op = op
    BY <1>1, <2>1, Zenon DEF Begin, OpName, Blank
  <2> DEFINE l == [Blank(op) EXCEPT !.msg = i, !.arg = F,
                                    !.flags = NewFlags(op, msgs[i].flags, F)]
  <2>4. msgs[i] \in Doc
    BY <2>1, Zenon DEF TypeInv, TypeOK, Live
  <2>5. NewFlags(op, msgs[i].flags, F) \in SUBSET Flag
    BY <2>4, Zenon DEF NewFlags, Doc
  <2>3. l \in Local /\ l.msg \in OpId /\ l.op = op
    BY <2>2, <2>5, Zenon DEF Local
  <2> QED BY <2>1, <2>3, BeginType, Zenon DEF OpName, Label
<1>7. CASE StartDeleteMailbox(p)
  <2>1. PICK b \in MboxId :
            LET todo == {msgs[i].blob : i \in InMbox(b)} IN
            Begin(p, "rmbox", IF todo = {} THEN "x_msgs" ELSE "x_obj",
                  [Blank("rmbox") EXCEPT !.dest = b, !.todo = todo])
    BY <1>7, Zenon DEF StartDeleteMailbox
  <2> DEFINE todo == {msgs[i].blob : i \in InMbox(b)}
             l == [Blank("rmbox") EXCEPT !.dest = b, !.todo = todo]
  <2>2. Blank("rmbox") \in Local
    BY <1>1, <2>1, Zenon DEF Begin, OpName
  <2>4. todo \subseteq OpId
    BY DEF InMbox, Live, TypeInv, TypeOK, Doc
  <2>3. l \in Local /\ l.dest \in MboxId
    BY <2>2, <2>4, Zenon DEF Local
  <2>5. CASE todo = {}
    <3>1. Begin(p, "rmbox", "x_msgs", l)
      BY <2>1, <2>5, Zenon
    <3> QED BY <3>1, <2>3, BeginType, Zenon DEF OpName, Label
  <2>6. CASE todo # {}
    <3>1. Begin(p, "rmbox", "x_obj", l)
      BY <2>1, <2>6, Zenon
    <3> QED BY <3>1, <2>3, BeginType, Zenon DEF OpName, Label
  <2> QED BY <2>5, <2>6, Zenon
<1> QED BY <1>2, <1>3, <1>4, <1>5, <1>6, <1>7, Zenon

\* An allocation that stays within the labels keeps the variables' types.
LEMMA AllocateType ==
    ASSUME TypeOK, NEW p \in Proc, NEW from, NEW to \in Label \ {"idle"}, NEW missing \in Label,
           loc[p] \in Local, Target(p) \in MboxId,
           NextUID(p, from, to, missing) \/ NextModSeq(p, from, to, missing)
    PROVE  TypeOK'
<1>1. /\ uidnext' \in [MboxId -> Nat \ {0}] /\ highest' \in [MboxId -> Nat]
  BY DEF TypeOK, NextUID, NextModSeq, BumpedUidNext, BumpedModSeq
<1>2. ASSUME NEW n \in Nat
      PROVE  [loc[p] EXCEPT !.uid = n] \in Local /\ [loc[p] EXCEPT !.seq = n] \in Local
  BY <1>2, Zenon DEF Local
<1>3. CASE mbox[Target(p)] = "live"
  <2> DEFINE u == uidnext[Target(p)]
             h == highest[Target(p)] + 1
  <2>1. u \in Nat /\ h \in Nat
    BY DEF TypeOK
  <2>2. \/ loc' = [loc EXCEPT ![p] = [loc[p] EXCEPT !.uid = u]]
        \/ loc' = [loc EXCEPT ![p] = [loc[p] EXCEPT !.seq = h]]
    BY <1>3, Zenon DEF NextUID, NextModSeq, AllocatedUid, TypeOK
  <2>3. loc' \in [Proc -> Local \cup {Null}] /\ loc'[p] \in Local
    BY <2>1, <2>2, <1>2, Zenon DEF TypeOK
  <2>4. pc' = [pc EXCEPT ![p] = to]
    BY <1>3, Zenon DEF NextUID, NextModSeq
  <2>5. \A q \in Proc : (pc'[q] = "idle") <=> (loc'[q] = Null)
    BY <2>2, <2>3, <2>4, ConstantsAssumption DEF TypeOK
  <2>6. UNCHANGED <<mbox, msgs, blobs, refs, explog, used, ops, placed, acked, dangling, vacated, faulted>>
    BY Zenon DEF NextUID, NextModSeq
  <2> QED BY <1>1, <2>3, <2>4, <2>5, <2>6, Zenon DEF TypeOK
<1>4. CASE mbox[Target(p)] # "live"
  BY <1>1, <1>4, ConstantsAssumption DEF TypeOK, NextUID, NextModSeq, Goto
<1> QED BY <1>3, <1>4, Zenon

\* Every step of a process keeps the types.
LEMMA StepType ==
    ASSUME TypeInv, NEW p \in Proc, Step(p) \/ DbError(p)
    PROVE  TypeInv'
<1> USE ConstantsAssumption DEF TypeInv
<1>1. CASE \/ StartAppend(p) \/ StartCopy(p) \/ StartMove(p) \/ StartDelete(p)
           \/ StartFlags(p) \/ StartDeleteMailbox(p)
  BY <1>1, StartType, Zenon
<1>2. CASE NextUID(p, "a_uid", "a_seq", "idle")
  <2>1. loc[p] \in Local /\ Target(p) \in MboxId
    BY <1>2 DEF TypeOK, LocOK, NextUID, Target, Doc, Local
  <2>2. TypeOK'
    BY <1>2, <2>1, AllocateType, Zenon DEF Label
  <2>3. LocOK'
    BY <1>2 DEF TypeOK, LocOK, Local, NextUID, Goto
  <2> QED BY <2>2, <2>3, Zenon
<1>3. CASE NextUID(p, "c_uid", "c_seq", "r_dec")
  <2>1. loc[p] \in Local /\ Target(p) \in MboxId
    BY <1>3, Zenon DEF TypeOK, LocOK, NextUID, Target, Doc, Local
  <2>2. TypeOK'
    BY <1>3, <2>1, AllocateType, Zenon DEF Label
  <2>3. LocOK'
    BY <1>3 DEF TypeOK, LocOK, Local, NextUID, Goto
  <2> QED BY <2>2, <2>3, Zenon
<1>4. CASE NextUID(p, "m_uid", "m_seq", "idle")
  <2>1. loc[p] \in Local /\ Target(p) \in MboxId
    BY <1>4 DEF TypeOK, LocOK, NextUID, Target, Doc, Local
  <2>2. TypeOK'
    BY <1>4, <2>1, AllocateType, Zenon DEF Label
  <2>3. LocOK'
    BY <1>4 DEF TypeOK, LocOK, Local, NextUID, Goto
  <2> QED BY <2>2, <2>3, Zenon
<1>5. CASE NextModSeq(p, "a_seq", "a_put", "idle")
  <2>1. loc[p] \in Local /\ Target(p) \in MboxId
    BY <1>5 DEF TypeOK, LocOK, NextModSeq, Target, Doc, Local
  <2>2. TypeOK'
    BY <1>5, <2>1, AllocateType, Zenon DEF Label
  <2>3. LocOK'
    BY <1>5 DEF TypeOK, LocOK, Local, NextModSeq, Goto
  <2> QED BY <2>2, <2>3, Zenon
<1>6. CASE NextModSeq(p, "c_seq", "c_ins", "r_dec")
  <2>1. loc[p] \in Local /\ Target(p) \in MboxId
    BY <1>6, Zenon DEF TypeOK, LocOK, NextModSeq, Target, Doc, Local
  <2>2. TypeOK'
    BY <1>6, <2>1, AllocateType, Zenon DEF Label
  <2>3. LocOK'
    BY <1>6 DEF TypeOK, LocOK, Local, NextModSeq, Goto
  <2> QED BY <2>2, <2>3, Zenon
<1>7. CASE NextModSeq(p, "m_seq", "m_set", "idle")
  <2>1. loc[p] \in Local /\ Target(p) \in MboxId
    BY <1>7 DEF TypeOK, LocOK, NextModSeq, Target, Doc, Local
  <2>2. TypeOK'
    BY <1>7, <2>1, AllocateType, Zenon DEF Label
  <2>3. LocOK'
    BY <1>7 DEF TypeOK, LocOK, Local, NextModSeq, Goto
  <2> QED BY <2>2, <2>3, Zenon
<1>8. CASE NextModSeq(p, "d_seq", "d_doc", "idle")
  <2>1. loc[p] \in Local /\ Target(p) \in MboxId
    BY <1>8 DEF TypeOK, LocOK, NextModSeq, Target, Doc, Local
  <2>2. TypeOK'
    BY <1>8, <2>1, AllocateType, Zenon DEF Label
  <2>3. LocOK'
    BY <1>8 DEF TypeOK, LocOK, Local, NextModSeq, Goto
  <2> QED BY <2>2, <2>3, Zenon
<1>9. CASE NextModSeq(p, "f_seq", "f_set", "idle")
  <2>1. loc[p] \in Local /\ Target(p) \in MboxId
    BY <1>9 DEF TypeOK, LocOK, NextModSeq, Target, Doc, Local
  <2>2. TypeOK'
    BY <1>9, <2>1, AllocateType, Zenon DEF Label
  <2>3. LocOK'
    BY <1>9 DEF TypeOK, LocOK, Local, NextModSeq, Goto
  <2> QED BY <2>2, <2>3, Zenon
<1>10. CASE PutBody(p)
  <2>1. TypeOK'
    BY <1>10 DEF TypeOK, LocOK, Label, Local, PutBody, Goto
  <2>2. LocOK'
    BY <1>10 DEF TypeOK, LocOK, Label, Local, PutBody, Goto
  <2> QED BY <2>1, <2>2, Zenon
<1>11. CASE BlobAddRef(p)
  <2>1. TypeOK'
    BY <1>11 DEF TypeOK, LocOK, Label, Local, BlobAddRef, Goto
  <2>2. LocOK'
    BY <1>11 DEF TypeOK, LocOK, Label, Local, BlobAddRef, Goto
  <2> QED BY <2>1, <2>2, Zenon
<1>12. CASE InsertAppended(p)
  <2>1. TypeOK'
    BY <1>12 DEF TypeOK, LocOK, Label, Local, InsertAppended, InsertDoc, Goto, Doc
  <2>2. LocOK'
    BY <1>12 DEF TypeOK, LocOK, Label, Local, InsertAppended, InsertDoc, Goto, Doc
  <2> QED BY <2>1, <2>2, Zenon
<1>13. CASE UndoBody(p)
  <2>1. TypeOK'
    BY <1>13, Zenon DEF TypeOK, LocOK, Label, Local, UndoBody, Goto
  <2>2. LocOK'
    BY <1>13 DEF TypeOK, LocOK, Label, Local, UndoBody, Goto
  <2> QED BY <2>1, <2>2, Zenon
<1>14. CASE AddUsage(p)
  <2>1. TypeOK'
    BY <1>14 DEF TypeOK, LocOK, Label, Local, AddUsage, AddedUsage, Goto
  <2>2. LocOK'
    BY <1>14 DEF TypeOK, LocOK, Label, Local, AddUsage, AddedUsage, Goto
  <2> QED BY <2>1, <2>2, Zenon
<1>15. CASE BlobBumpRef(p)
  <2>1. TypeOK'
    BY <1>15, SMTT(30) DEF TypeOK, LocOK, Label, Local, BlobBumpRef, BumpedRef, Goto, Doc
  <2>2. LocOK'
    BY <1>15 DEF TypeOK, LocOK, Label, Local, BlobBumpRef, BumpedRef, Goto, Doc
  <2> QED BY <2>1, <2>2, Zenon
<1>16. CASE InsertCopy(p)
  <2>1. TypeOK'
    BY <1>16 DEF TypeOK, LocOK, Label, Local, InsertCopy, InsertDoc, Goto, Doc
  <2>2. LocOK'
    BY <1>16 DEF TypeOK, LocOK, Label, Local, InsertCopy, InsertDoc, Goto, Doc
  <2> QED BY <2>1, <2>2, Zenon
<1>17. CASE SetMailbox(p)
  <2>3. vacated' \subseteq MboxId \X Nat
    <3>1. CASE Live(loc[p].msg)
      <4>1. loc[p].msg \in OpId /\ msgs[loc[p].msg] \in Doc
        BY <1>17, <3>1, ZenonT(30) DEF TypeOK, LocOK, SetMailbox, Live
      <4>2. Place(loc[p].msg) \in MboxId \X Nat
        BY <4>1, Zenon DEF Place, Doc
      <4> QED BY <1>17, <3>1, <4>2 DEF TypeOK, SetMailbox
    <3>2. CASE ~Live(loc[p].msg)
      BY <1>17, <3>2, Zenon DEF TypeOK, SetMailbox
    <3> QED BY <3>1, <3>2, Zenon
  <2>4. msgs' \in [OpId -> Doc \cup {Null}] /\ placed' \subseteq MboxId \X Nat
    <3>1. CASE Live(loc[p].msg)
      <4>1. /\ loc[p].msg \in OpId /\ msgs[loc[p].msg] \in Doc
            /\ loc[p].dest \in MboxId /\ loc[p].uid \in Nat /\ loc[p].seq \in Nat
        BY <1>17, <3>1 DEF TypeOK, LocOK, Local, SetMailbox, Live
      <4> DEFINE i == loc[p].msg
                 m == [msgs EXCEPT ![i].mbox = loc[p].dest, ![i].uid = loc[p].uid,
                                   ![i].seq = loc[p].seq]
      <4>2. msgs' = m /\ placed' = placed \cup {<<loc[p].dest, loc[p].uid>>}
        BY <1>17, <3>1, Zenon DEF SetMailbox, MovedUid
      <4>3. msgs \in [OpId -> Doc \cup {Null}] /\ placed \subseteq MboxId \X Nat
        BY Zenon DEF TypeOK
      <4>4. m \in [OpId -> Doc \cup {Null}]
        <5>1. DOMAIN m = OpId /\ \A j \in OpId \ {i} : m[j] = msgs[j]
          BY <4>1, <4>3, Zenon
        <5>2. m[i] = [msgs[i] EXCEPT !.mbox = loc[p].dest, !.uid = loc[p].uid,
                                     !.seq = loc[p].seq]
          BY <4>1, <4>3, Zenon
        <5>3. m = [j \in OpId |-> m[j]]
          BY <4>3, Zenon
        <5> HIDE DEF m
        <5>4. m[i] \in Doc
          BY <4>1, <5>2, Zenon DEF Doc
        <5> QED BY <4>3, <5>1, <5>3, <5>4, Zenon
      <4> QED BY <4>1, <4>2, <4>3, <4>4
    <3>2. CASE ~Live(loc[p].msg)
      BY <1>17, <3>2, Zenon DEF TypeOK, SetMailbox
    <3> QED BY <3>1, <3>2, Zenon
  <2>5. pc' \in [Proc -> Label] /\ loc' \in [Proc -> Local \cup {Null}]
        /\ \A q \in Proc : (pc'[q] = "idle") <=> (loc'[q] = Null)
    BY <1>17, Zenon DEF TypeOK, Label, SetMailbox, Goto
  <2>1. TypeOK'
    BY <1>17, <2>3, <2>4, <2>5, Zenon DEF TypeOK, SetMailbox
  <2>2. LocOK'
    BY <1>17 DEF TypeOK, LocOK, Label, Local, SetMailbox, MovedUid, Live, Goto, Doc
  <2> QED BY <2>1, <2>2, Zenon
<1>18. CASE DeleteDoc(p)
  <2>3. vacated' \subseteq MboxId \X Nat
    <3>1. CASE Live(loc[p].msg)
      <4>1. loc[p].msg \in OpId /\ msgs[loc[p].msg] \in Doc
        BY <1>18, <3>1, Zenon DEF TypeOK, LocOK, DeleteDoc, Live
      <4>2. Place(loc[p].msg) \in MboxId \X Nat
        BY <4>1, Zenon DEF Place, Doc
      <4> QED BY <1>18, <4>2, Zenon DEF TypeOK, DeleteDoc
    <3>2. CASE ~Live(loc[p].msg)
      BY <1>18, <3>2, Zenon DEF TypeOK, DeleteDoc
    <3> QED BY <3>1, <3>2, Zenon
  <2>4. dangling' \subseteq OpId
    <3>1. loc[p].src \in Doc
      BY <1>18, Zenon DEF TypeOK, LocOK, DeleteDoc
    <3>2. loc[p].src.blob \in OpId
      BY <3>1, Zenon DEF Doc
    <3> QED BY <1>18, <3>2, Zenon DEF TypeOK, DeleteDoc
  <2>1. TypeOK'
    BY <1>18, <2>3, <2>4, Zenon DEF TypeOK, LocOK, Label, Local, DeleteDoc, Goto
  <2>2. LocOK'
    BY <1>18 DEF TypeOK, LocOK, Label, Local, DeleteDoc, Goto
  <2> QED BY <2>1, <2>2, Zenon
<1>19. CASE DecRef(p)
  <2>3. refs' \in [OpId -> Int \cup {Null}]
    BY <1>19 DEF TypeOK, DecRef
  <2>4. PICK l \in {"r_obj", "r_row", "d_log", "idle"} : Goto(p, l)
    BY <1>19, Zenon DEF DecRef, AfterDrop
  <2>1. TypeOK'
    BY <1>19, <2>3, <2>4 DEF TypeOK, Label, DecRef, Goto
  <2>2. LocOK'
    BY <1>19 DEF TypeOK, LocOK, Label, Local, DecRef, LastReferrer, AfterDrop, Goto, Doc
  <2> QED BY <2>1, <2>2, Zenon
<1>20. CASE DeleteRefRow(p)
  <2>1. TypeOK'
    BY <1>20 DEF TypeOK, LocOK, Label, Local, DeleteRefRow, Goto, Doc
  <2>2. LocOK'
    BY <1>20 DEF TypeOK, LocOK, Label, Local, DeleteRefRow, Goto, Doc
  <2> QED BY <2>1, <2>2, Zenon
<1>21. CASE DeleteBody(p)
  <2>1. TypeOK'
    BY <1>21 DEF TypeOK, LocOK, Label, Local, DeleteBody, AfterDrop, Goto, Doc
  <2>2. LocOK'
    BY <1>21 DEF TypeOK, LocOK, Label, Local, DeleteBody, AfterDrop, Goto, Doc
  <2> QED BY <2>1, <2>2, Zenon
<1>22. CASE RecordExpunge(p)
  <2>1. TypeOK'
    BY <1>22 DEF TypeOK, LocOK, Label, Local, RecordExpunge, Goto, Doc
  <2>2. LocOK'
    BY <1>22 DEF TypeOK, LocOK, Label, Local, RecordExpunge, Goto, Doc
  <2> QED BY <2>1, <2>2, Zenon
<1>23. CASE SubUsage(p)
  <2>1. TypeOK'
    BY <1>23 DEF TypeOK, LocOK, Label, Local, SubUsage, Goto
  <2>2. LocOK'
    BY <1>23 DEF TypeOK, LocOK, Label, Local, SubUsage, Goto
  <2> QED BY <2>1, <2>2, Zenon
<1>24. CASE ReadForFlags(p)
  <2>1. CASE Live(loc[p].msg)
    <3>1. msgs[loc[p].msg] \in Doc /\ loc[p] \in Local
      BY <1>24, <2>1, Zenon DEF TypeOK, LocOK, ReadForFlags, Live
    <3>2. [loc[p] EXCEPT !.src = msgs[loc[p].msg]] \in Local
      BY <3>1, Zenon DEF Local
    <3>3. loc' = [loc EXCEPT ![p] = [loc[p] EXCEPT !.src = msgs[loc[p].msg]]]
      BY <1>24, <2>1, Zenon DEF ReadForFlags, TypeOK
    <3>4. TypeOK'
      BY <1>24, <2>1, <3>2, <3>3 DEF TypeOK, ReadForFlags, Label
    <3>5. LocOK'
      BY <1>24, <2>1, <3>1 DEF TypeOK, LocOK, Local, ReadForFlags
    <3> QED BY <3>4, <3>5, Zenon
  <2>2. CASE ~Live(loc[p].msg)
    BY <1>24, <2>2 DEF TypeOK, LocOK, ReadForFlags, Goto, Label
  <2> QED BY <2>1, <2>2, Zenon
<1>25. CASE WriteFlags(p)
  <2> DEFINE i == loc[p].msg
  <2>1. i \in OpId /\ loc[p] \in Local /\ loc[p].op \in {"addflags", "removeflags", "setflags"}
    BY <1>25, Zenon DEF TypeOK, LocOK, WriteFlags
  <2>2. /\ pc' = [pc EXCEPT ![p] = "idle"] /\ loc' = [loc EXCEPT ![p] = Null]
        /\ UNCHANGED <<mbox, uidnext, highest, blobs, refs, explog, used, ops, placed, dangling, vacated, faulted>>
    BY <1>25, Zenon DEF WriteFlags, Goto
  <2>3. LocOK'
    BY <2>2 DEF TypeOK, LocOK
  <2>4. CASE Live(i)
    <3>1. msgs[i] \in Doc
      BY <2>1, <2>4 DEF TypeOK, Live
    <3>2. [msgs[i] EXCEPT !.flags = loc[p].flags, !.seq = loc[p].seq] \in Doc
      BY <2>1, <3>1, Zenon DEF Doc, Local
    <3>3. msgs' = [msgs EXCEPT ![i] = [msgs[i] EXCEPT !.flags = loc[p].flags, !.seq = loc[p].seq]]
      BY <1>25, <2>1, <2>4, Zenon DEF WriteFlags, WrittenFlags, TypeOK
    <3>4. msgs' \in [OpId -> Doc \cup {Null}]
      BY <3>2, <3>3, Zenon DEF TypeOK
    <3>5. NewFlags(loc[p].op, acked[i], loc[p].arg) \in SUBSET Flag
      BY <2>1, Zenon DEF NewFlags, TypeOK, Local
    <3>6. acked' \in [OpId -> SUBSET Flag]
      BY <1>25, <2>1, <2>4, <3>5 DEF WriteFlags, TypeOK
    <3> QED BY <2>2, <2>3, <3>4, <3>6, Zenon DEF TypeOK, Label
  <2>5. CASE ~Live(i)
    <3>1. UNCHANGED <<msgs, acked>>
      BY <1>25, <2>5, Zenon DEF WriteFlags
    <3> QED BY <2>2, <2>3, <3>1, Zenon DEF TypeOK, Label
  <2> QED BY <2>4, <2>5, Zenon
<1>26. CASE CreateMailbox(p)
  <2>1. TypeOK'
    BY <1>26 DEF TypeOK, LocOK, Label, Local, CreateMailbox, OpId
  <2>2. LocOK'
    BY <1>26, Zenon DEF TypeOK, LocOK, Label, Local, CreateMailbox, OpId
  <2> QED BY <2>1, <2>2, Zenon
<1>27. CASE RemoveListedBody(p)
  <2>1. TypeOK'
    BY <1>27 DEF TypeOK, LocOK, Label, Local, RemoveListedBody
  <2>2. LocOK'
    BY <1>27 DEF TypeOK, LocOK, Label, Local, RemoveListedBody
  <2> QED BY <2>1, <2>2, Zenon
<1>28. CASE RemoveMessages(p)
  <2>1. TypeOK'
    BY <1>28, Zenon DEF TypeOK, LocOK, Label, Local, RemoveMessages, Goto
  <2>2. LocOK'
    BY <1>28 DEF TypeOK, LocOK, Label, Local, RemoveMessages, Goto
  <2> QED BY <2>1, <2>2, Zenon
<1>29. CASE RemoveMailbox(p)
  <2>1. TypeOK'
    BY <1>29, Zenon DEF TypeOK, LocOK, Label, Local, RemoveMailbox, Goto
  <2>2. LocOK'
    BY <1>29 DEF TypeOK, LocOK, Label, Local, RemoveMailbox, Goto
  <2> QED BY <2>1, <2>2, Zenon
<1>30. CASE DbError(p)
  <2>1. TypeOK'
    BY <1>30, Zenon DEF TypeOK, LocOK, Label, Local, DbError, OnError, Goto
  <2>2. LocOK'
    BY <1>30 DEF TypeOK, LocOK, Label, Local, DbError, OnError, Goto
  <2> QED BY <2>1, <2>2, Zenon
<1> QED
  BY <1>1, <1>2, <1>3, <1>4, <1>5, <1>6, <1>7, <1>8, <1>9, <1>10, <1>11, <1>12, <1>13, <1>14,
     <1>15, <1>16, <1>17, <1>18, <1>19, <1>20, <1>21, <1>22, <1>23, <1>24, <1>25, <1>26, <1>27,
     <1>28, <1>29, <1>30, Zenon
  DEF Step, AppendMessage, CopyMessage, MoveMessage, DeleteMessage, BlobDropRef, ModifyFlags,
      DeleteMailbox

\* Type correctness is inductive.
LEMMA TypeStep == TypeInv /\ [Next]_vars => TypeInv'
<1> SUFFICES ASSUME TypeInv, [Next]_vars PROVE TypeInv'
  BY Zenon
<1>1. CASE Crash
  <2>1. TypeOK'
    BY <1>1, Zenon DEF TypeInv, TypeOK, Crash, Label
  <2>2. LocOK'
    BY <1>1, Zenon DEF LocOK, Crash
  <2> QED BY <2>1, <2>2, Zenon DEF TypeInv
<1>2. ASSUME NEW p \in Proc, Step(p) \/ DbError(p) PROVE TypeInv'
  BY <1>2, StepType, Zenon
<1>3. CASE UNCHANGED vars
  BY <1>3, Zenon DEF vars, TypeInv, TypeOK, LocOK
<1> QED BY <1>1, <1>2, <1>3, Zenon DEF Next

\* The store's variables keep their types in every behaviour: counters never
\* leave the naturals, rows and documents stay well formed, and an operation
\* holds local state exactly while it is in flight.
THEOREM TypeCorrect == Spec => []TypeOK
<1>1. Spec => []TypeInv
  BY TypeInit, TypeStep, PTL DEF Spec
<1> QED BY <1>1, PTL DEF TypeInv

-----------------------------------------------------------------------------
(* UIDs.  UidsUnique is not inductive by itself: between NextUID and the   *)
(* write of the document a UID is known only to the process that holds it. *)

\* p has allocated a UID in its destination that no document has yet.
Holds(p) == pc[p] \in {"a_seq", "a_put", "a_ref", "a_ins", "c_seq", "c_ins", "m_seq", "m_set"}
Held(p) == <<loc[p].dest, loc[p].uid>>

\* p is deleting the message it read at Read(p): before and after DeleteDoc.
Deleting(p) == pc[p] \in {"d_seq", "d_doc"}
Deleted(p) == pc[p] \in {"r_dec", "r_row", "r_obj", "d_log"} /\ loc[p].op = "delete"
Read(p) == <<loc[p].src.mbox, loc[p].src.uid>>

PlacedBelow == \A b \in MboxId, u \in Nat : <<b, u>> \in placed => u < uidnext[b]
HeldFresh ==
    \A p \in Proc : Holds(p) => Held(p) \notin placed /\ loc[p].uid < uidnext[loc[p].dest]
HeldDistinct == \A p, q \in Proc : p # q /\ Holds(p) /\ Holds(q) => Held(p) # Held(q)
LivePlaced == \A i \in OpId : Live(i) => Place(i) \in placed
ReadPlaced ==
    \A p \in Proc : Deleting(p) \/ Deleted(p) =>
        /\ Read(p) \in placed
        /\ \A i \in OpId : Live(i) /\ Place(i) = Read(p) => Deleting(p) /\ i = loc[p].msg
OpAtLabel ==
    \A p \in Proc : /\ pc[p] = "d_log" => loc[p].op = "delete"
                    /\ pc[p] \in {"c_bump", "c_uid", "c_seq", "c_ins"} => loc[p].op = "copy"
LoggedPlaced == \A e \in explog : <<e.mbox, e.uid>> \in placed

UidInv ==
    /\ PlacedBelow /\ HeldFresh /\ HeldDistinct /\ LivePlaced /\ UidsUnique
    /\ ReadPlaced /\ OpAtLabel /\ LoggedPlaced /\ ExpungedIsGone

\* No document, no UID and no operation exists at the start.
LEMMA UidInit == Init => UidInv
  BY ConstantsAssumption, Zenon
  DEF Init, UidInv, PlacedBelow, HeldFresh, HeldDistinct, LivePlaced, UidsUnique, ReadPlaced,
      OpAtLabel, LoggedPlaced, ExpungedIsGone, Holds, Deleting, Deleted, Live

\* A step that puts no document at a new place and allocates no UID.  It may
\* remove documents, begin or carry on a deletion, and log a deletion made.
LEMMA QuietStep ==
    ASSUME TypeInv, UidInv, UNCHANGED <<uidnext, placed>>, OpAtLabel',
           \A i \in OpId : Live(i)' => Live(i) /\ Place(i)' = Place(i),
           \A q \in Proc : Holds(q)' =>
               Holds(q) /\ loc'[q].dest = loc[q].dest /\ loc'[q].uid = loc[q].uid,
           \A q \in Proc : Deleting(q)' =>
               \/ Deleting(q) /\ Read(q)' = Read(q) /\ loc'[q].msg = loc[q].msg
               \/ \E i \in OpId : loc'[q].msg = i /\ Live(i) /\ Read(q)' = Place(i),
           \A q \in Proc : Deleted(q)' =>
               /\ Read(q)' = Read(q)
               /\ \/ Deleted(q)
                  \/ Deleting(q) /\ \E i \in OpId : loc[q].msg = i /\ ~Live(i)',
           \A e \in explog' : \/ e \in explog
                              \/ \E q \in Proc : Deleted(q) /\ <<e.mbox, e.uid>> = Read(q)
    PROVE  UidInv'
<1>1. PlacedBelow' /\ HeldFresh' /\ HeldDistinct'
  BY DEF UidInv, PlacedBelow, HeldFresh, HeldDistinct, Held
<1>2. LivePlaced'
  BY Zenon DEF UidInv, LivePlaced
<1>3. UidsUnique'
  BY DEF UidInv, UidsUnique, Place
<1>4. \A q \in Proc : Deleted(q) => ~Deleting(q)
  BY Zenon DEF Deleted, Deleting
<1>5. LoggedPlaced'
  BY Zenon DEF UidInv, LoggedPlaced, ReadPlaced
<1>6. ExpungedIsGone'
  <2> SUFFICES ASSUME NEW e \in explog', NEW i \in OpId, Live(i)', Place(i)' = <<e.mbox, e.uid>>
               PROVE  FALSE
    BY Zenon DEF ExpungedIsGone, Place
  <2>1. Live(i) /\ Place(i) = <<e.mbox, e.uid>>
    BY Zenon
  <2>2. CASE e \in explog
    BY <2>1, <2>2, Zenon DEF UidInv, ExpungedIsGone, Place
  <2>3. CASE \E q \in Proc : Deleted(q) /\ <<e.mbox, e.uid>> = Read(q)
    BY <2>1, <2>3, <1>4, Zenon DEF UidInv, ReadPlaced
  <2> QED BY <2>2, <2>3, Zenon
<1>7. ReadPlaced'
  <2> SUFFICES ASSUME NEW q \in Proc, Deleting(q)' \/ Deleted(q)'
               PROVE  /\ Read(q)' \in placed'
                      /\ \A i \in OpId : Live(i)' /\ Place(i)' = Read(q)'
                                             => Deleting(q)' /\ i = loc'[q].msg
    BY Zenon DEF ReadPlaced
  <2>1. CASE Deleting(q)' /\ Deleting(q) /\ Read(q)' = Read(q) /\ loc'[q].msg = loc[q].msg
    BY <2>1 DEF UidInv, ReadPlaced
  <2>2. ASSUME Deleting(q)', NEW i \in OpId, loc'[q].msg = i, Live(i), Read(q)' = Place(i)
        PROVE  /\ Read(q)' \in placed'
               /\ \A j \in OpId : Live(j)' /\ Place(j)' = Read(q)' => j = loc'[q].msg
    <3>1. Read(q)' \in placed'
      BY <2>2, Zenon DEF UidInv, LivePlaced
    <3>2. ASSUME NEW j \in OpId, Live(j)', Place(j)' = Read(q)'
          PROVE  j = i
      <4>1. Live(j) /\ Place(j) = Place(i)
        BY <2>2, <3>2, Zenon
      <4>2. msgs[j].mbox = msgs[i].mbox /\ msgs[j].uid = msgs[i].uid
        BY <4>1, Zenon DEF Place
      <4> QED BY <2>2, <4>1, <4>2, Zenon DEF UidInv, UidsUnique
    <3> QED BY <2>2, <3>1, <3>2, Zenon
  <2>3. CASE Deleted(q)' /\ Deleted(q)
    <3>1. Read(q)' = Read(q) /\ ~Deleting(q)
      BY <2>3, <1>4, Zenon
    <3>2. Read(q) \in placed /\ \A i \in OpId : Live(i) => Place(i) # Read(q)
      BY <2>3, <3>1, Zenon DEF UidInv, ReadPlaced
    <3> QED BY <3>1, <3>2, Zenon
  <2>4. ASSUME Deleted(q)', Deleting(q), NEW i \in OpId, loc[q].msg = i, ~Live(i)'
        PROVE  /\ Read(q)' \in placed'
               /\ \A j \in OpId : Live(j)' => Place(j)' # Read(q)'
    BY <2>4, Zenon DEF UidInv, ReadPlaced
  <2> QED BY <2>1, <2>2, <2>3, <2>4, Zenon
<1> QED BY <1>1, <1>2, <1>3, <1>5, <1>6, <1>7, Zenon DEF UidInv

\* One process inserts a document, or moves one, at the UID it holds.
LEMMA PlaceStep ==
    ASSUME TypeInv, UidInv, NEW p \in Proc, NEW i \in OpId, NEW d \in Doc, Holds(p),
           <<d.mbox, d.uid>> = Held(p),
           msgs' = [msgs EXCEPT ![i] = d], placed' = placed \cup {Held(p)},
           UNCHANGED <<uidnext, explog>>, ~Holds(p)', ~Deleting(p)', ~Deleted(p)',
           \A q \in Proc \ {p} : pc'[q] = pc[q] /\ loc'[q] = loc[q],
           loc[p].dest \in MboxId, loc[p].uid \in Nat, OpAtLabel'
    PROVE  UidInv'
<1>0. Held(p) \notin placed /\ loc[p].uid < uidnext[loc[p].dest]
  BY Zenon DEF UidInv, HeldFresh
<1>1. PlacedBelow'
  BY <1>0, Zenon DEF UidInv, PlacedBelow, Held
<1>2. HeldFresh' /\ HeldDistinct'
  BY <1>0 DEF UidInv, HeldFresh, HeldDistinct, Holds, Held
<1>3. \A j \in OpId : Live(j)' => IF j = i THEN Place(j)' = Held(p)
                                  ELSE Live(j) /\ Place(j)' = Place(j)
  BY ConstantsAssumption, Zenon DEF TypeInv, TypeOK, Live, Place
<1>4. LivePlaced'
  BY <1>3, Zenon DEF UidInv, LivePlaced
<1>5. UidsUnique'
  <2> SUFFICES ASSUME NEW j \in OpId, NEW k \in OpId, Live(j)', Live(k)', j # k,
                      msgs'[j].mbox = msgs'[k].mbox, msgs'[j].uid = msgs'[k].uid
               PROVE  FALSE
    BY Zenon DEF UidsUnique
  <2>1. Place(j)' = Place(k)'
    BY Zenon DEF Place
  <2>2. CASE j # i /\ k # i
    BY <1>3, <2>1, <2>2 DEF UidInv, UidsUnique, Place
  <2>3. CASE j = i \/ k = i
    BY <1>0, <1>3, <2>1, <2>3, Zenon DEF UidInv, LivePlaced
  <2> QED BY <2>2, <2>3, Zenon
<1>6. LoggedPlaced' /\ ExpungedIsGone'
  <2>1. LoggedPlaced'
    BY Zenon DEF UidInv, LoggedPlaced
  <2>2. ASSUME NEW e \in explog, NEW j \in OpId, Live(j)' PROVE Place(j)' # <<e.mbox, e.uid>>
    BY <1>0, <1>3, <2>2 DEF UidInv, LoggedPlaced, ExpungedIsGone, Place
  <2> QED BY <2>1, <2>2, Zenon DEF ExpungedIsGone, Place
<1>7. ReadPlaced'
  <2> SUFFICES ASSUME NEW q \in Proc, Deleting(q)' \/ Deleted(q)'
               PROVE  /\ Read(q)' \in placed'
                      /\ \A j \in OpId : Live(j)' /\ Place(j)' = Read(q)'
                                             => Deleting(q)' /\ j = loc'[q].msg
    BY Zenon DEF ReadPlaced
  <2>1. q # p /\ Read(q)' = Read(q) /\ (Deleting(q)' <=> Deleting(q)) /\ loc'[q] = loc[q]
        /\ (Deleted(q)' <=> Deleted(q))
    BY Zenon DEF Deleting, Deleted, Read
  <2>2. Read(q) \in placed
    BY <2>1, Zenon DEF UidInv, ReadPlaced
  <2>3. ASSUME NEW j \in OpId, Live(j)', Place(j)' = Read(q)
        PROVE  Deleting(q)' /\ j = loc'[q].msg
    BY <1>0, <1>3, <2>1, <2>2, <2>3, Zenon DEF UidInv, ReadPlaced
  <2> QED BY <2>1, <2>2, <2>3, Zenon
<1> QED BY <1>1, <1>2, <1>4, <1>5, <1>6, <1>7, Zenon DEF UidInv

\* NextUID hands its caller a UID that no document has and no other holds.
LEMMA NextUidStep ==
    ASSUME TypeInv, UidInv, NEW p \in Proc, NEW from \in {"a_uid", "c_uid", "m_uid"},
           NEW to \in {"a_seq", "c_seq", "m_seq"}, NEW missing \in {"idle", "r_dec"}, NextUID(p, from, to, missing), OpAtLabel',
           from = "c_uid" \/ missing = "idle"
    PROVE  UidInv'
<1> DEFINE b == loc[p].dest
<1>0. loc[p] \in Local /\ b \in MboxId /\ Target(p) = b /\ ~Holds(p) /\ ~Deleting(p) /\ ~Deleted(p)
  BY ConstantsAssumption, Zenon
  DEF TypeInv, TypeOK, LocOK, NextUID, Target, Holds, Deleting, Deleted
<1>1. CASE mbox[b] = "live"
  <2>1. /\ uidnext' = [uidnext EXCEPT ![b] = uidnext[b] + 1]
        /\ loc' = [loc EXCEPT ![p] = [loc[p] EXCEPT !.uid = uidnext[b]]]
        /\ pc' = [pc EXCEPT ![p] = to] /\ UNCHANGED <<msgs, placed, explog>>
    BY <1>0, <1>1, Zenon DEF NextUID, BumpedUidNext, AllocatedUid, TypeInv, TypeOK
  <2>2. loc'[p].dest = b /\ loc'[p].uid = uidnext[b] /\ uidnext[b] \in Nat
    BY <1>0, <2>1, Zenon DEF TypeInv, TypeOK, Local
  <2>3. \A q \in Proc \ {p} : pc'[q] = pc[q] /\ loc'[q] = loc[q]
    BY <2>1, Zenon DEF TypeInv, TypeOK
  <2>4. PlacedBelow'
    BY <2>1 DEF UidInv, PlacedBelow, TypeInv, TypeOK
  <2>5. Held(p)' \notin placed'
    BY <1>0, <2>1, <2>2 DEF UidInv, PlacedBelow, Held
  <2>6. \A q \in Proc \ {p} : Holds(q)' =>
            Holds(q) /\ Held(q)' = Held(q) /\ loc[q].dest \in MboxId /\ loc[q].uid \in Nat
    BY <2>3 DEF Holds, Held, TypeInv, TypeOK, LocOK, Local
  <2>7. HeldFresh'
    <3>1. loc'[p].uid < uidnext'[loc'[p].dest]
      BY <1>0, <2>1, <2>2 DEF TypeInv, TypeOK
    <3>2. ASSUME NEW q \in Proc \ {p}, Holds(q)'
          PROVE  Held(q)' \notin placed' /\ loc'[q].uid < uidnext'[loc'[q].dest]
      BY <3>2, <2>1, <2>3, <2>6 DEF UidInv, HeldFresh, TypeInv, TypeOK
    <3> QED BY <2>5, <3>1, <3>2, Zenon DEF HeldFresh
  <2>8. HeldDistinct'
    <3>1. ASSUME NEW q \in Proc \ {p}, Holds(q)' PROVE Held(q)' # Held(p)'
      <4>1. loc[q].uid < uidnext[loc[q].dest] /\ loc[q].uid \in Nat
        BY <3>1, <2>6, Zenon DEF UidInv, HeldFresh
      <4>2. Held(q)' = <<loc[q].dest, loc[q].uid>> /\ Held(p)' = <<b, uidnext[b]>>
        BY <3>1, <2>2, <2>3, Zenon DEF Held
      <4> QED BY <4>1, <4>2, <2>2
    <3> QED BY <3>1, <2>6, Zenon DEF UidInv, HeldDistinct
  <2>9. LivePlaced' /\ UidsUnique' /\ LoggedPlaced' /\ ExpungedIsGone'
    BY <2>1, Zenon DEF UidInv, LivePlaced, UidsUnique, LoggedPlaced, ExpungedIsGone, Place, Live
  <2>10. ReadPlaced'
    <3>1. \A q \in Proc : /\ Deleting(q)' => q # p /\ Deleting(q)
                          /\ Deleted(q)' => q # p /\ Deleted(q)
      BY <1>0, <2>1, <2>3, Zenon DEF Deleting, Deleted, NextUID, TypeInv, TypeOK
    <3>2. \A q \in Proc : /\ Deleting(q)' => Read(q)' = Read(q) /\ loc'[q] = loc[q]
                          /\ Deleted(q)' => Read(q)' = Read(q) /\ ~Deleting(q)
      BY <3>1, <2>3, Zenon DEF Read, Deleting, Deleted
    <3>3. \A i \in OpId : (Live(i)' <=> Live(i)) /\ Place(i)' = Place(i)
      BY <2>1, Zenon DEF Live, Place
    <3> QED BY <3>1, <3>2, <3>3, <2>1, Zenon DEF UidInv, ReadPlaced
  <2> QED BY <2>4, <2>7, <2>8, <2>9, <2>10, Zenon DEF UidInv
<1>2. CASE mbox[b] # "live"
  <2>1. /\ pc' = [pc EXCEPT ![p] = missing] /\ UNCHANGED <<uidnext, msgs, placed, explog>>
        /\ \A q \in Proc : pc'[q] # "idle" => loc'[q] = loc[q]
    BY <1>0, <1>2, Zenon DEF NextUID, Goto, TypeInv, TypeOK
  <2>2. \A q \in Proc : Holds(q)' => Holds(q) /\ loc'[q] = loc[q]
    BY <2>1, Zenon DEF Holds, TypeInv, TypeOK
  <2>3. \A q \in Proc : /\ Deleting(q)' => Deleting(q) /\ loc'[q] = loc[q]
                        /\ Deleted(q)' => Deleted(q) /\ loc'[q] = loc[q]
    BY <2>1 DEF Deleting, Deleted, TypeInv, TypeOK, UidInv, OpAtLabel, NextUID
  <2> QED BY <2>1, <2>2, <2>3, QuietStep, Zenon DEF Live, Place, Read
<1> QED BY <1>1, <1>2, Zenon

\* The operation a process runs is the one its label belongs to.
LEMMA OpAtLabelStep ==
    ASSUME TypeInv, OpAtLabel, NEW p \in Proc, Step(p) \/ DbError(p)
    PROVE  OpAtLabel'
<1> USE DEF TypeInv, TypeOK, OpAtLabel
<1>1. CASE StartAppend(p)
  BY <1>1 DEF StartAppend, Begin, Blank
<1>2. CASE StartCopy(p)
  BY <1>2 DEF StartCopy, Begin, Blank
<1>3. CASE StartMove(p)
  BY <1>3 DEF StartMove, Begin, Blank
<1>4. CASE StartDelete(p)
  BY <1>4 DEF StartDelete, Begin, Blank
<1>5. CASE StartFlags(p)
  BY <1>5 DEF StartFlags, Begin, Blank
<1>6. CASE StartDeleteMailbox(p)
  BY <1>6 DEF StartDeleteMailbox, Begin, Blank
<1>7. CASE NextUID(p, "a_uid", "a_seq", "idle")
  BY <1>7 DEF NextUID, Goto, Local
<1>8. CASE NextUID(p, "c_uid", "c_seq", "r_dec")
  BY <1>8 DEF NextUID, Goto, Local
<1>9. CASE NextUID(p, "m_uid", "m_seq", "idle")
  BY <1>9 DEF NextUID, Goto, Local
<1>10. CASE NextModSeq(p, "a_seq", "a_put", "idle")
  BY <1>10 DEF NextModSeq, Goto, Local
<1>11. CASE NextModSeq(p, "c_seq", "c_ins", "r_dec")
  BY <1>11 DEF NextModSeq, Goto, Local
<1>12. CASE NextModSeq(p, "m_seq", "m_set", "idle")
  BY <1>12 DEF NextModSeq, Goto, Local
<1>13. CASE NextModSeq(p, "d_seq", "d_doc", "idle")
  BY <1>13 DEF NextModSeq, Goto, Local
<1>14. CASE NextModSeq(p, "f_seq", "f_set", "idle")
  BY <1>14 DEF NextModSeq, Goto, Local
<1>15. CASE PutBody(p)
  BY <1>15, Zenon DEF PutBody, Goto, Local
<1>16. CASE BlobAddRef(p)
  BY <1>16, Zenon DEF BlobAddRef, Goto, Local
<1>17. CASE UndoBody(p)
  BY <1>17, Zenon DEF UndoBody, Goto, Local
<1>18. CASE AddUsage(p)
  BY <1>18, Zenon DEF AddUsage, Goto, Local
<1>19. CASE BlobBumpRef(p)
  BY <1>19 DEF BlobBumpRef, Goto, Local
<1>20. CASE DeleteDoc(p)
  BY <1>20, Zenon DEF DeleteDoc, Goto, Live, Local
<1>21. CASE DecRef(p)
  <2>1. \/ Goto(p, "r_obj") \/ Goto(p, "r_row") \/ Goto(p, "idle")
        \/ Goto(p, "d_log") /\ loc[p].op = "delete"
    BY <1>21, Zenon DEF DecRef, AfterDrop
  <2> QED BY <2>1 DEF Goto, Local
<1>22. CASE DeleteRefRow(p)
  BY <1>22, Zenon DEF DeleteRefRow, Goto, Local
<1>23. CASE DeleteBody(p)
  BY <1>23, Zenon DEF DeleteBody, AfterDrop, Goto, Local
<1>24. CASE RecordExpunge(p)
  BY <1>24, Zenon DEF RecordExpunge, Goto, Local
<1>25. CASE SubUsage(p)
  BY <1>25, Zenon DEF SubUsage, Goto, Local
<1>26. CASE ReadForFlags(p)
  BY <1>26 DEF ReadForFlags, Goto, Local
<1>27. CASE WriteFlags(p)
  BY <1>27, Zenon DEF WriteFlags, Goto, Live, Local
<1>28. CASE CreateMailbox(p)
  BY <1>28, Zenon DEF CreateMailbox, Local
<1>29. CASE RemoveListedBody(p)
  BY <1>29 DEF RemoveListedBody, Local
<1>30. CASE RemoveMessages(p)
  BY <1>30, Zenon DEF RemoveMessages, Goto, Local
<1>31. CASE RemoveMailbox(p)
  BY <1>31, Zenon DEF RemoveMailbox, Goto, Local
<1>32. CASE DbError(p)
  BY <1>32, Zenon DEF DbError, OnError, Goto, Local
<1>33. CASE InsertAppended(p)
  BY <1>33, Zenon DEF InsertAppended, InsertDoc, Goto, Local
<1>34. CASE InsertCopy(p)
  BY <1>34, Zenon DEF InsertCopy, InsertDoc, Goto, Local
<1>35. CASE SetMailbox(p)
  BY <1>35, Zenon DEF SetMailbox, Goto, Local
<1> QED
  BY <1>1, <1>2, <1>3, <1>4, <1>5, <1>6, <1>7, <1>8, <1>9, <1>10, <1>11, <1>12, <1>13, <1>14,
     <1>15,
     <1>16, <1>17, <1>18, <1>19, <1>20, <1>21, <1>22, <1>23, <1>24, <1>25, <1>26, <1>27, <1>28,
     <1>29, <1>30, <1>31, <1>32, <1>33, <1>34, <1>35, Zenon
  DEF Step, AppendMessage, CopyMessage, MoveMessage, DeleteMessage, BlobDropRef, ModifyFlags,
      DeleteMailbox

\* The hypotheses of QuietStep, for the steps of p that satisfy them simply:
\* no document moves, and no process but p changes what it holds or deletes.
LEMMA PlainStep ==
    ASSUME TypeInv, UidInv, NEW p \in Proc, UNCHANGED <<uidnext, placed, explog>>, OpAtLabel',
           \A i \in OpId : Live(i)' => Live(i) /\ Place(i)' = Place(i),
           \A q \in Proc \ {p} : pc'[q] = pc[q] /\ loc'[q] = loc[q],
           Holds(p)' => Holds(p) /\ loc'[p].dest = loc[p].dest /\ loc'[p].uid = loc[p].uid,
           Deleting(p)' => Deleting(p) /\ loc'[p].src = loc[p].src /\ loc'[p].msg = loc[p].msg,
           Deleted(p)' => Deleted(p) /\ loc'[p].src = loc[p].src
    PROVE  UidInv'
<1>1. \A q \in Proc : Holds(q)' =>
          Holds(q) /\ loc'[q].dest = loc[q].dest /\ loc'[q].uid = loc[q].uid
  BY Zenon DEF Holds
<1>2. \A q \in Proc :
          Deleting(q)' => Deleting(q) /\ Read(q)' = Read(q) /\ loc'[q].msg = loc[q].msg
  BY Zenon DEF Deleting, Read
<1>3. \A q \in Proc : Deleted(q)' => Deleted(q) /\ Read(q)' = Read(q)
  BY DEF Deleted, Read
<1> QED BY <1>1, <1>2, <1>3, QuietStep, Zenon

\* The UID invariant is preserved by every step of a process.
LEMMA UidStep ==
    ASSUME TypeInv, UidInv, NEW p \in Proc, Step(p) \/ DbError(p)
    PROVE  UidInv'
<1>0. OpAtLabel' /\ OpAtLabel
  BY OpAtLabelStep, Zenon DEF UidInv
<1> USE DEF TypeInv, TypeOK
<1>1. CASE StartAppend(p)
  <2>1. /\ UNCHANGED <<uidnext, placed, explog>>
        /\ \A i \in OpId : Live(i)' => Live(i) /\ Place(i)' = Place(i)
        /\ \A q \in Proc \ {p} : pc'[q] = pc[q] /\ loc'[q] = loc[q]
    BY <1>1, Zenon DEF StartAppend, Begin, Live, Place
  <2>2. /\ Holds(p)' => Holds(p) /\ loc'[p].dest = loc[p].dest /\ loc'[p].uid = loc[p].uid
        /\ Deleting(p)' => Deleting(p) /\ loc'[p].src = loc[p].src /\ loc'[p].msg = loc[p].msg
        /\ Deleted(p)' => Deleted(p) /\ loc'[p].src = loc[p].src
    BY <1>1, <1>0 DEF StartAppend, Begin, Holds, Deleting, Deleted, Local, OpAtLabel
  <2> QED BY <2>1, <2>2, <1>0, PlainStep, Zenon
<1>2. CASE StartCopy(p)
  <2>1. /\ UNCHANGED <<uidnext, placed, explog>>
        /\ \A i \in OpId : Live(i)' => Live(i) /\ Place(i)' = Place(i)
        /\ \A q \in Proc \ {p} : pc'[q] = pc[q] /\ loc'[q] = loc[q]
    BY <1>2, Zenon DEF StartCopy, Begin, Live, Place
  <2>2. /\ Holds(p)' => Holds(p) /\ loc'[p].dest = loc[p].dest /\ loc'[p].uid = loc[p].uid
        /\ Deleting(p)' => Deleting(p) /\ loc'[p].src = loc[p].src /\ loc'[p].msg = loc[p].msg
        /\ Deleted(p)' => Deleted(p) /\ loc'[p].src = loc[p].src
    BY <1>2, <1>0 DEF StartCopy, Begin, Holds, Deleting, Deleted, Local, OpAtLabel
  <2> QED BY <2>1, <2>2, <1>0, PlainStep, Zenon
<1>3. CASE StartMove(p)
  <2>1. /\ UNCHANGED <<uidnext, placed, explog>>
        /\ \A i \in OpId : Live(i)' => Live(i) /\ Place(i)' = Place(i)
        /\ \A q \in Proc \ {p} : pc'[q] = pc[q] /\ loc'[q] = loc[q]
    BY <1>3, Zenon DEF StartMove, Begin, Live, Place
  <2>2. /\ Holds(p)' => Holds(p) /\ loc'[p].dest = loc[p].dest /\ loc'[p].uid = loc[p].uid
        /\ Deleting(p)' => Deleting(p) /\ loc'[p].src = loc[p].src /\ loc'[p].msg = loc[p].msg
        /\ Deleted(p)' => Deleted(p) /\ loc'[p].src = loc[p].src
    BY <1>3, <1>0 DEF StartMove, Begin, Holds, Deleting, Deleted, Local, OpAtLabel
  <2> QED BY <2>1, <2>2, <1>0, PlainStep, Zenon
<1>4. CASE StartDelete(p)
  <2>1. PICK i \in OpId :
            /\ Live(i)
            /\ Begin(p, "delete", "d_seq", [Blank("delete") EXCEPT !.msg = i, !.src = msgs[i]])
    BY <1>4, Zenon DEF StartDelete
  <2>2. /\ UNCHANGED <<uidnext, placed, explog, msgs>>
        /\ \A q \in Proc \ {p} : pc'[q] = pc[q] /\ loc'[q] = loc[q]
        /\ pc'[p] = "d_seq" /\ loc'[p].msg = i /\ loc'[p].src = msgs[i]
    BY <2>1, Zenon DEF Begin, Blank
  <2>3. \A j \in OpId : Live(j)' => Live(j) /\ Place(j)' = Place(j)
    BY <2>2, Zenon DEF Live, Place
  <2>4. \A q \in Proc : Holds(q)' => Holds(q) /\ loc'[q] = loc[q]
    BY <2>2, Zenon DEF Holds
  <2>5. \A q \in Proc : Deleted(q)' => Deleted(q) /\ Read(q)' = Read(q)
    BY <2>2, Zenon DEF Deleted, Read
  <2>6. ASSUME NEW q \in Proc, Deleting(q)'
        PROVE  \/ Deleting(q) /\ Read(q)' = Read(q) /\ loc'[q].msg = loc[q].msg
               \/ \E j \in OpId : loc'[q].msg = j /\ Live(j) /\ Read(q)' = Place(j)
    BY <2>1, <2>2, <2>6, Zenon DEF Deleting, Read, Place
  <2> QED BY <1>0, <2>2, <2>3, <2>4, <2>5, <2>6, QuietStep, Zenon
<1>5. CASE StartFlags(p)
  <2>1. /\ UNCHANGED <<uidnext, placed, explog>>
        /\ \A i \in OpId : Live(i)' => Live(i) /\ Place(i)' = Place(i)
        /\ \A q \in Proc \ {p} : pc'[q] = pc[q] /\ loc'[q] = loc[q]
    BY <1>5 DEF StartFlags, Begin, Live, Place
  <2>2. /\ Holds(p)' => Holds(p) /\ loc'[p].dest = loc[p].dest /\ loc'[p].uid = loc[p].uid
        /\ Deleting(p)' => Deleting(p) /\ loc'[p].src = loc[p].src /\ loc'[p].msg = loc[p].msg
        /\ Deleted(p)' => Deleted(p) /\ loc'[p].src = loc[p].src
    BY <1>5, <1>0 DEF StartFlags, Begin, Holds, Deleting, Deleted, Local, OpAtLabel
  <2> QED BY <2>1, <2>2, <1>0, PlainStep, Zenon
<1>6. CASE StartDeleteMailbox(p)
  <2>1. /\ UNCHANGED <<uidnext, placed, explog>>
        /\ \A i \in OpId : Live(i)' => Live(i) /\ Place(i)' = Place(i)
        /\ \A q \in Proc \ {p} : pc'[q] = pc[q] /\ loc'[q] = loc[q]
    BY <1>6, Zenon DEF StartDeleteMailbox, Begin, Live, Place
  <2>2. /\ Holds(p)' => Holds(p) /\ loc'[p].dest = loc[p].dest /\ loc'[p].uid = loc[p].uid
        /\ Deleting(p)' => Deleting(p) /\ loc'[p].src = loc[p].src /\ loc'[p].msg = loc[p].msg
        /\ Deleted(p)' => Deleted(p) /\ loc'[p].src = loc[p].src
    BY <1>6, <1>0 DEF StartDeleteMailbox, Begin, Holds, Deleting, Deleted, Local, OpAtLabel
  <2> QED BY <2>1, <2>2, <1>0, PlainStep, Zenon
<1>7. CASE NextUID(p, "a_uid", "a_seq", "idle")
  BY <1>7, <1>0, NextUidStep, Zenon
<1>8. CASE NextUID(p, "c_uid", "c_seq", "r_dec")
  BY <1>8, <1>0, NextUidStep, Zenon
<1>9. CASE NextUID(p, "m_uid", "m_seq", "idle")
  BY <1>9, <1>0, NextUidStep, Zenon
<1>10. CASE NextModSeq(p, "a_seq", "a_put", "idle")
  <2>1. /\ UNCHANGED <<uidnext, placed, explog>>
        /\ \A i \in OpId : Live(i)' => Live(i) /\ Place(i)' = Place(i)
        /\ \A q \in Proc \ {p} : pc'[q] = pc[q] /\ loc'[q] = loc[q]
    BY <1>10, Zenon DEF NextModSeq, Goto, Live, Place
  <2>2. /\ Holds(p)' => Holds(p) /\ loc'[p].dest = loc[p].dest /\ loc'[p].uid = loc[p].uid
        /\ Deleting(p)' => Deleting(p) /\ loc'[p].src = loc[p].src /\ loc'[p].msg = loc[p].msg
        /\ Deleted(p)' => Deleted(p) /\ loc'[p].src = loc[p].src
    BY <1>10, <1>0 DEF NextModSeq, Goto, Holds, Deleting, Deleted, Local, OpAtLabel
  <2> QED BY <2>1, <2>2, <1>0, PlainStep, Zenon
<1>11. CASE NextModSeq(p, "c_seq", "c_ins", "r_dec")
  <2>1. /\ UNCHANGED <<uidnext, placed, explog>>
        /\ \A i \in OpId : Live(i)' => Live(i) /\ Place(i)' = Place(i)
        /\ \A q \in Proc \ {p} : pc'[q] = pc[q] /\ loc'[q] = loc[q]
    BY <1>11, Zenon DEF NextModSeq, Goto, Live, Place
  <2>2. /\ Holds(p)' => Holds(p) /\ loc'[p].dest = loc[p].dest /\ loc'[p].uid = loc[p].uid
        /\ Deleting(p)' => Deleting(p) /\ loc'[p].src = loc[p].src /\ loc'[p].msg = loc[p].msg
        /\ Deleted(p)' => Deleted(p) /\ loc'[p].src = loc[p].src
    BY <1>11, <1>0 DEF NextModSeq, Goto, Holds, Deleting, Deleted, Local, OpAtLabel
  <2> QED BY <2>1, <2>2, <1>0, PlainStep, Zenon
<1>12. CASE NextModSeq(p, "m_seq", "m_set", "idle")
  <2>1. /\ UNCHANGED <<uidnext, placed, explog>>
        /\ \A i \in OpId : Live(i)' => Live(i) /\ Place(i)' = Place(i)
        /\ \A q \in Proc \ {p} : pc'[q] = pc[q] /\ loc'[q] = loc[q]
    BY <1>12, Zenon DEF NextModSeq, Goto, Live, Place
  <2>2. /\ Holds(p)' => Holds(p) /\ loc'[p].dest = loc[p].dest /\ loc'[p].uid = loc[p].uid
        /\ Deleting(p)' => Deleting(p) /\ loc'[p].src = loc[p].src /\ loc'[p].msg = loc[p].msg
        /\ Deleted(p)' => Deleted(p) /\ loc'[p].src = loc[p].src
    BY <1>12, <1>0 DEF NextModSeq, Goto, Holds, Deleting, Deleted, Local, OpAtLabel
  <2> QED BY <2>1, <2>2, <1>0, PlainStep, Zenon
<1>13. CASE NextModSeq(p, "d_seq", "d_doc", "idle")
  <2>1. /\ UNCHANGED <<uidnext, placed, explog>>
        /\ \A i \in OpId : Live(i)' => Live(i) /\ Place(i)' = Place(i)
        /\ \A q \in Proc \ {p} : pc'[q] = pc[q] /\ loc'[q] = loc[q]
    BY <1>13, Zenon DEF NextModSeq, Goto, Live, Place
  <2>2. /\ Holds(p)' => Holds(p) /\ loc'[p].dest = loc[p].dest /\ loc'[p].uid = loc[p].uid
        /\ Deleting(p)' => Deleting(p) /\ loc'[p].src = loc[p].src /\ loc'[p].msg = loc[p].msg
        /\ Deleted(p)' => Deleted(p) /\ loc'[p].src = loc[p].src
    BY <1>13, <1>0 DEF NextModSeq, Goto, Holds, Deleting, Deleted, Local, OpAtLabel
  <2> QED BY <2>1, <2>2, <1>0, PlainStep, Zenon
<1>14. CASE NextModSeq(p, "f_seq", "f_set", "idle")
  <2>1. /\ UNCHANGED <<uidnext, placed, explog>>
        /\ \A i \in OpId : Live(i)' => Live(i) /\ Place(i)' = Place(i)
        /\ \A q \in Proc \ {p} : pc'[q] = pc[q] /\ loc'[q] = loc[q]
    BY <1>14, Zenon DEF NextModSeq, Goto, Live, Place
  <2>2. /\ Holds(p)' => Holds(p) /\ loc'[p].dest = loc[p].dest /\ loc'[p].uid = loc[p].uid
        /\ Deleting(p)' => Deleting(p) /\ loc'[p].src = loc[p].src /\ loc'[p].msg = loc[p].msg
        /\ Deleted(p)' => Deleted(p) /\ loc'[p].src = loc[p].src
    BY <1>14, <1>0 DEF NextModSeq, Goto, Holds, Deleting, Deleted, Local, OpAtLabel
  <2> QED BY <2>1, <2>2, <1>0, PlainStep, Zenon
<1>15. CASE PutBody(p)
  <2>1. /\ UNCHANGED <<uidnext, placed, explog>>
        /\ \A i \in OpId : Live(i)' => Live(i) /\ Place(i)' = Place(i)
        /\ \A q \in Proc \ {p} : pc'[q] = pc[q] /\ loc'[q] = loc[q]
    BY <1>15, Zenon DEF PutBody, Goto, Live, Place
  <2>2. /\ Holds(p)' => Holds(p) /\ loc'[p].dest = loc[p].dest /\ loc'[p].uid = loc[p].uid
        /\ Deleting(p)' => Deleting(p) /\ loc'[p].src = loc[p].src /\ loc'[p].msg = loc[p].msg
        /\ Deleted(p)' => Deleted(p) /\ loc'[p].src = loc[p].src
    BY <1>15, <1>0, Zenon DEF PutBody, Goto, Holds, Deleting, Deleted, Local, OpAtLabel
  <2> QED BY <2>1, <2>2, <1>0, PlainStep, Zenon
<1>16. CASE BlobAddRef(p)
  <2>1. /\ UNCHANGED <<uidnext, placed, explog>>
        /\ \A i \in OpId : Live(i)' => Live(i) /\ Place(i)' = Place(i)
        /\ \A q \in Proc \ {p} : pc'[q] = pc[q] /\ loc'[q] = loc[q]
    BY <1>16, Zenon DEF BlobAddRef, Goto, Live, Place
  <2>2. /\ Holds(p)' => Holds(p) /\ loc'[p].dest = loc[p].dest /\ loc'[p].uid = loc[p].uid
        /\ Deleting(p)' => Deleting(p) /\ loc'[p].src = loc[p].src /\ loc'[p].msg = loc[p].msg
        /\ Deleted(p)' => Deleted(p) /\ loc'[p].src = loc[p].src
    BY <1>16, <1>0, Zenon DEF BlobAddRef, Goto, Holds, Deleting, Deleted, Local, OpAtLabel
  <2> QED BY <2>1, <2>2, <1>0, PlainStep, Zenon
<1>17. CASE UndoBody(p)
  <2>1. /\ UNCHANGED <<uidnext, placed, explog>>
        /\ \A i \in OpId : Live(i)' => Live(i) /\ Place(i)' = Place(i)
        /\ \A q \in Proc \ {p} : pc'[q] = pc[q] /\ loc'[q] = loc[q]
    BY <1>17, Zenon DEF UndoBody, Goto, Live, Place
  <2>2. /\ Holds(p)' => Holds(p) /\ loc'[p].dest = loc[p].dest /\ loc'[p].uid = loc[p].uid
        /\ Deleting(p)' => Deleting(p) /\ loc'[p].src = loc[p].src /\ loc'[p].msg = loc[p].msg
        /\ Deleted(p)' => Deleted(p) /\ loc'[p].src = loc[p].src
    BY <1>17, <1>0, Zenon DEF UndoBody, Goto, Holds, Deleting, Deleted, Local, OpAtLabel
  <2> QED BY <2>1, <2>2, <1>0, PlainStep, Zenon
<1>18. CASE AddUsage(p)
  <2>1. /\ UNCHANGED <<uidnext, placed, explog>>
        /\ \A i \in OpId : Live(i)' => Live(i) /\ Place(i)' = Place(i)
        /\ \A q \in Proc \ {p} : pc'[q] = pc[q] /\ loc'[q] = loc[q]
    BY <1>18, Zenon DEF AddUsage, Goto, Live, Place
  <2>2. /\ Holds(p)' => Holds(p) /\ loc'[p].dest = loc[p].dest /\ loc'[p].uid = loc[p].uid
        /\ Deleting(p)' => Deleting(p) /\ loc'[p].src = loc[p].src /\ loc'[p].msg = loc[p].msg
        /\ Deleted(p)' => Deleted(p) /\ loc'[p].src = loc[p].src
    BY <1>18, <1>0, Zenon DEF AddUsage, Goto, Holds, Deleting, Deleted, Local, OpAtLabel
  <2> QED BY <2>1, <2>2, <1>0, PlainStep, Zenon
<1>19. CASE BlobBumpRef(p)
  <2>1. /\ UNCHANGED <<uidnext, placed, explog>>
        /\ \A i \in OpId : Live(i)' => Live(i) /\ Place(i)' = Place(i)
        /\ \A q \in Proc \ {p} : pc'[q] = pc[q] /\ loc'[q] = loc[q]
    BY <1>19, Zenon DEF BlobBumpRef, Goto, Live, Place
  <2>2. /\ Holds(p)' => Holds(p) /\ loc'[p].dest = loc[p].dest /\ loc'[p].uid = loc[p].uid
        /\ Deleting(p)' => Deleting(p) /\ loc'[p].src = loc[p].src /\ loc'[p].msg = loc[p].msg
        /\ Deleted(p)' => Deleted(p) /\ loc'[p].src = loc[p].src
    <3>1. pc[p] = "c_bump" /\ loc[p].op = "copy" /\ loc[p] \in Local
      BY <1>19, <1>0, Zenon DEF BlobBumpRef, OpAtLabel
    <3>2. \/ pc' = [pc EXCEPT ![p] = "c_uid"] /\ loc' = loc
          \/ pc' = [pc EXCEPT ![p] = "idle"]
      BY <1>19, Zenon DEF BlobBumpRef, Goto
    <3>3. pc'[p] \in {"c_uid", "idle"}
      BY <3>2, <1>0, Zenon
    <3> QED BY <3>3, Zenon DEF Holds, Deleting, Deleted
  <2> QED BY <2>1, <2>2, <1>0, PlainStep, Zenon
<1>20. CASE DeleteDoc(p)
  <2> DEFINE i == loc[p].msg
  <2>1. i \in OpId /\ pc[p] = "d_doc"
    BY <1>20, Zenon DEF DeleteDoc, LocOK
  <2>2. /\ UNCHANGED <<uidnext, placed, explog, loc>> /\ msgs' = [msgs EXCEPT ![i] = Null]
        /\ pc' = [pc EXCEPT ![p] = "r_dec"]
    BY <1>20, Zenon DEF DeleteDoc, Goto
  <2>3. ~Live(i)' /\ \A j \in OpId : Live(j)' => Live(j) /\ Place(j)' = Place(j)
    BY <2>1, <2>2, Zenon DEF Live, Place
  <2>4. \A q \in Proc : (Holds(q)' => Holds(q)) /\ (Deleting(q)' => Deleting(q))
    BY <2>2, Zenon DEF Holds, Deleting
  <2>5. \A q \in Proc : Deleted(q)' => Deleted(q) \/ (q = p /\ Deleting(q))
    BY <2>1, <2>2, Zenon DEF Deleting, Deleted
  <2>6. \A q \in Proc : Read(q)' = Read(q)
    BY <2>2, Zenon DEF Read
  <2> QED BY <1>0, <2>1, <2>2, <2>3, <2>4, <2>5, <2>6, QuietStep, Zenon
<1>21. CASE DecRef(p)
  <2>1. /\ UNCHANGED <<uidnext, placed, explog>>
        /\ \A i \in OpId : Live(i)' => Live(i) /\ Place(i)' = Place(i)
        /\ \A q \in Proc \ {p} : pc'[q] = pc[q] /\ loc'[q] = loc[q]
    BY <1>21, Zenon DEF DecRef, AfterDrop, Goto, Live, Place
  <2>2. /\ Holds(p)' => Holds(p) /\ loc'[p].dest = loc[p].dest /\ loc'[p].uid = loc[p].uid
        /\ Deleting(p)' => Deleting(p) /\ loc'[p].src = loc[p].src /\ loc'[p].msg = loc[p].msg
        /\ Deleted(p)' => Deleted(p) /\ loc'[p].src = loc[p].src
    <3>1. pc[p] = "r_dec"
      BY <1>21, Zenon DEF DecRef
    <3>2. Goto(p, "r_obj") \/ Goto(p, "r_row") \/ Goto(p, "d_log") \/ Goto(p, "idle")
      BY <1>21, Zenon DEF DecRef, AfterDrop
    <3>3. PICK l \in {"r_obj", "r_row", "d_log", "idle"} :
             /\ pc' = [pc EXCEPT ![p] = l] /\ (l # "idle" => loc' = loc)
      BY <3>2, Zenon DEF Goto
    <3>4. pc'[p] = l
      BY <3>3, <1>0, Zenon
    <3> QED BY <3>1, <3>3, <3>4, Zenon DEF Holds, Deleting, Deleted
  <2> QED BY <2>1, <2>2, <1>0, PlainStep, Zenon
<1>22. CASE DeleteRefRow(p)
  <2>1. /\ UNCHANGED <<uidnext, placed, explog>>
        /\ \A i \in OpId : Live(i)' => Live(i) /\ Place(i)' = Place(i)
        /\ \A q \in Proc \ {p} : pc'[q] = pc[q] /\ loc'[q] = loc[q]
    BY <1>22, Zenon DEF DeleteRefRow, Goto, Live, Place
  <2>2. /\ Holds(p)' => Holds(p) /\ loc'[p].dest = loc[p].dest /\ loc'[p].uid = loc[p].uid
        /\ Deleting(p)' => Deleting(p) /\ loc'[p].src = loc[p].src /\ loc'[p].msg = loc[p].msg
        /\ Deleted(p)' => Deleted(p) /\ loc'[p].src = loc[p].src
    BY <1>22, <1>0, Zenon DEF DeleteRefRow, Goto, Holds, Deleting, Deleted, Local, OpAtLabel
  <2> QED BY <2>1, <2>2, <1>0, PlainStep, Zenon
<1>23. CASE DeleteBody(p)
  <2>1. /\ UNCHANGED <<uidnext, placed, explog>>
        /\ \A i \in OpId : Live(i)' => Live(i) /\ Place(i)' = Place(i)
        /\ \A q \in Proc \ {p} : pc'[q] = pc[q] /\ loc'[q] = loc[q]
    BY <1>23, Zenon DEF DeleteBody, AfterDrop, Goto, Live, Place
  <2>2. /\ Holds(p)' => Holds(p) /\ loc'[p].dest = loc[p].dest /\ loc'[p].uid = loc[p].uid
        /\ Deleting(p)' => Deleting(p) /\ loc'[p].src = loc[p].src /\ loc'[p].msg = loc[p].msg
        /\ Deleted(p)' => Deleted(p) /\ loc'[p].src = loc[p].src
    BY <1>23, <1>0, Zenon DEF DeleteBody, AfterDrop, Goto, Holds, Deleting, Deleted, Local, OpAtLabel
  <2> QED BY <2>1, <2>2, <1>0, PlainStep, Zenon
<1>24. CASE RecordExpunge(p)
  <2>1. /\ UNCHANGED <<uidnext, placed, msgs, loc>> /\ pc' = [pc EXCEPT ![p] = "d_used"]
        /\ explog' = explog \cup {[mbox |-> loc[p].src.mbox, uid |-> loc[p].src.uid,
                                  seq |-> loc[p].seq]}
    BY <1>24, Zenon DEF RecordExpunge, Goto
  <2>2. Deleted(p)
    BY <1>24, <1>0, Zenon DEF RecordExpunge, OpAtLabel, Deleted
  <2>3. \A e \in explog' : e \in explog \/ <<e.mbox, e.uid>> = Read(p)
    <3> SUFFICES ASSUME NEW e \in explog', e \notin explog
                 PROVE  <<e.mbox, e.uid>> = Read(p)
      BY Zenon
    <3>1. e = [mbox |-> loc[p].src.mbox, uid |-> loc[p].src.uid, seq |-> loc[p].seq]
      BY <2>1, Zenon
    <3>2. e.mbox = loc[p].src.mbox /\ e.uid = loc[p].src.uid
      BY <3>1, Zenon
    <3> QED BY <3>2, Zenon DEF Read
  <2>4. \A q \in Proc : /\ Holds(q)' => Holds(q)
                        /\ Deleting(q)' => Deleting(q)
                        /\ Deleted(q)' => Deleted(q)
                        /\ Read(q)' = Read(q)
    BY <2>1, Zenon DEF Holds, Deleting, Deleted, Read
  <2>5. \A i \in OpId : Live(i)' => Live(i) /\ Place(i)' = Place(i)
    BY <2>1, Zenon DEF Live, Place
  <2> QED BY <1>0, <2>1, <2>2, <2>3, <2>4, <2>5, QuietStep, Zenon
<1>25. CASE SubUsage(p)
  <2>1. /\ UNCHANGED <<uidnext, placed, explog>>
        /\ \A i \in OpId : Live(i)' => Live(i) /\ Place(i)' = Place(i)
        /\ \A q \in Proc \ {p} : pc'[q] = pc[q] /\ loc'[q] = loc[q]
    BY <1>25, Zenon DEF SubUsage, Goto, Live, Place
  <2>2. /\ Holds(p)' => Holds(p) /\ loc'[p].dest = loc[p].dest /\ loc'[p].uid = loc[p].uid
        /\ Deleting(p)' => Deleting(p) /\ loc'[p].src = loc[p].src /\ loc'[p].msg = loc[p].msg
        /\ Deleted(p)' => Deleted(p) /\ loc'[p].src = loc[p].src
    BY <1>25, <1>0, Zenon DEF SubUsage, Goto, Holds, Deleting, Deleted, Local, OpAtLabel
  <2> QED BY <2>1, <2>2, <1>0, PlainStep, Zenon
<1>26. CASE ReadForFlags(p)
  <2>1. /\ UNCHANGED <<uidnext, placed, explog>>
        /\ \A i \in OpId : Live(i)' => Live(i) /\ Place(i)' = Place(i)
        /\ \A q \in Proc \ {p} : pc'[q] = pc[q] /\ loc'[q] = loc[q]
    BY <1>26, Zenon DEF ReadForFlags, Goto, Live, Place
  <2>2. /\ Holds(p)' => Holds(p) /\ loc'[p].dest = loc[p].dest /\ loc'[p].uid = loc[p].uid
        /\ Deleting(p)' => Deleting(p) /\ loc'[p].src = loc[p].src /\ loc'[p].msg = loc[p].msg
        /\ Deleted(p)' => Deleted(p) /\ loc'[p].src = loc[p].src
    BY <1>26, <1>0 DEF ReadForFlags, Goto, Holds, Deleting, Deleted, Local, OpAtLabel
  <2> QED BY <2>1, <2>2, <1>0, PlainStep, Zenon
<1>27. CASE WriteFlags(p)
  <2>1. /\ UNCHANGED <<uidnext, placed, explog>>
        /\ \A i \in OpId : Live(i)' => Live(i) /\ Place(i)' = Place(i)
        /\ \A q \in Proc \ {p} : pc'[q] = pc[q] /\ loc'[q] = loc[q]
    BY <1>27 DEF WriteFlags, Goto, Doc, Live, Place
  <2>2. /\ Holds(p)' => Holds(p) /\ loc'[p].dest = loc[p].dest /\ loc'[p].uid = loc[p].uid
        /\ Deleting(p)' => Deleting(p) /\ loc'[p].src = loc[p].src /\ loc'[p].msg = loc[p].msg
        /\ Deleted(p)' => Deleted(p) /\ loc'[p].src = loc[p].src
    BY <1>27, <1>0, Zenon DEF WriteFlags, Goto, Doc, Holds, Deleting, Deleted, Local, OpAtLabel
  <2> QED BY <2>1, <2>2, <1>0, PlainStep, Zenon
<1>28. CASE CreateMailbox(p)
  <2>1. /\ UNCHANGED <<uidnext, placed, explog>>
        /\ \A i \in OpId : Live(i)' => Live(i) /\ Place(i)' = Place(i)
        /\ \A q \in Proc \ {p} : pc'[q] = pc[q] /\ loc'[q] = loc[q]
    BY <1>28, Zenon DEF CreateMailbox, Live, Place
  <2>2. /\ Holds(p)' => Holds(p) /\ loc'[p].dest = loc[p].dest /\ loc'[p].uid = loc[p].uid
        /\ Deleting(p)' => Deleting(p) /\ loc'[p].src = loc[p].src /\ loc'[p].msg = loc[p].msg
        /\ Deleted(p)' => Deleted(p) /\ loc'[p].src = loc[p].src
    BY <1>28, <1>0, Zenon DEF CreateMailbox, Holds, Deleting, Deleted, Local, OpAtLabel
  <2> QED BY <2>1, <2>2, <1>0, PlainStep, Zenon
<1>29. CASE RemoveListedBody(p)
  <2>1. /\ UNCHANGED <<uidnext, placed, explog>>
        /\ \A i \in OpId : Live(i)' => Live(i) /\ Place(i)' = Place(i)
        /\ \A q \in Proc \ {p} : pc'[q] = pc[q] /\ loc'[q] = loc[q]
    BY <1>29, Zenon DEF RemoveListedBody, Live, Place
  <2>2. /\ Holds(p)' => Holds(p) /\ loc'[p].dest = loc[p].dest /\ loc'[p].uid = loc[p].uid
        /\ Deleting(p)' => Deleting(p) /\ loc'[p].src = loc[p].src /\ loc'[p].msg = loc[p].msg
        /\ Deleted(p)' => Deleted(p) /\ loc'[p].src = loc[p].src
    BY <1>29, <1>0 DEF RemoveListedBody, Holds, Deleting, Deleted, Local, OpAtLabel
  <2> QED BY <2>1, <2>2, <1>0, PlainStep, Zenon
<1>30. CASE RemoveMessages(p)
  <2>1. /\ UNCHANGED <<uidnext, placed, explog>>
        /\ \A i \in OpId : Live(i)' => Live(i) /\ Place(i)' = Place(i)
        /\ \A q \in Proc \ {p} : pc'[q] = pc[q] /\ loc'[q] = loc[q]
    BY <1>30, Zenon DEF RemoveMessages, Goto, Live, Place
  <2>2. /\ Holds(p)' => Holds(p) /\ loc'[p].dest = loc[p].dest /\ loc'[p].uid = loc[p].uid
        /\ Deleting(p)' => Deleting(p) /\ loc'[p].src = loc[p].src /\ loc'[p].msg = loc[p].msg
        /\ Deleted(p)' => Deleted(p) /\ loc'[p].src = loc[p].src
    BY <1>30, <1>0, Zenon DEF RemoveMessages, Goto, Holds, Deleting, Deleted, Local, OpAtLabel
  <2> QED BY <2>1, <2>2, <1>0, PlainStep, Zenon
<1>31. CASE RemoveMailbox(p)
  <2>1. /\ UNCHANGED <<uidnext, placed, explog>>
        /\ \A i \in OpId : Live(i)' => Live(i) /\ Place(i)' = Place(i)
        /\ \A q \in Proc \ {p} : pc'[q] = pc[q] /\ loc'[q] = loc[q]
    BY <1>31, Zenon DEF RemoveMailbox, Goto, Live, Place
  <2>2. /\ Holds(p)' => Holds(p) /\ loc'[p].dest = loc[p].dest /\ loc'[p].uid = loc[p].uid
        /\ Deleting(p)' => Deleting(p) /\ loc'[p].src = loc[p].src /\ loc'[p].msg = loc[p].msg
        /\ Deleted(p)' => Deleted(p) /\ loc'[p].src = loc[p].src
    BY <1>31, <1>0, Zenon DEF RemoveMailbox, Goto, Holds, Deleting, Deleted, Local, OpAtLabel
  <2> QED BY <2>1, <2>2, <1>0, PlainStep, Zenon
<1>32. CASE DbError(p)
  <2>1. /\ UNCHANGED <<uidnext, placed, explog>>
        /\ \A i \in OpId : Live(i)' => Live(i) /\ Place(i)' = Place(i)
        /\ \A q \in Proc \ {p} : pc'[q] = pc[q] /\ loc'[q] = loc[q]
    BY <1>32, Zenon DEF DbError, OnError, Goto, Live, Place
  <2>2. /\ Holds(p)' => Holds(p) /\ loc'[p].dest = loc[p].dest /\ loc'[p].uid = loc[p].uid
        /\ Deleting(p)' => Deleting(p) /\ loc'[p].src = loc[p].src /\ loc'[p].msg = loc[p].msg
        /\ Deleted(p)' => Deleted(p) /\ loc'[p].src = loc[p].src
    BY <1>32, <1>0 DEF DbError, OnError, Goto, Holds, Deleting, Deleted, Local, OpAtLabel
  <2> QED BY <2>1, <2>2, <1>0, PlainStep, Zenon
<1>33. CASE InsertAppended(p)
  <2> DEFINE d == [mbox |-> loc[p].dest, uid |-> loc[p].uid, seq |-> loc[p].seq,
                    blob |-> loc[p].id, flags |-> {}]
  <2>1. loc[p].dest \in MboxId /\ loc[p] \in Local /\ loc[p].id \in OpId /\ loc[p].uid \in Nat
    BY <1>33, Zenon DEF InsertAppended, LocOK, Local
  <2>2. d \in Doc /\ <<d.mbox, d.uid>> = Held(p)
    BY <1>33, <2>1, Zenon DEF InsertAppended, LocOK, Doc, Local, Held
  <2>3. msgs' = [msgs EXCEPT ![loc[p].id] = d] /\ placed' = placed \cup {Held(p)}
    BY <1>33, Zenon DEF InsertAppended, InsertDoc, Held
  <2>4. /\ UNCHANGED <<uidnext, explog>> /\ Holds(p) /\ ~Holds(p)' /\ ~Deleting(p)' /\ ~Deleted(p)'
        /\ \A q \in Proc \ {p} : pc'[q] = pc[q] /\ loc'[q] = loc[q]
    BY <1>33, Zenon DEF InsertAppended, InsertDoc, Goto, Holds, Deleting, Deleted
  <2> HIDE DEF d
  <2> QED BY <1>0, <2>1, <2>2, <2>3, <2>4, PlaceStep, Zenon
<1>34. CASE InsertCopy(p)
  <2> DEFINE d == [mbox |-> loc[p].dest, uid |-> loc[p].uid, seq |-> loc[p].seq,
                    blob |-> loc[p].src.blob, flags |-> loc[p].src.flags]
  <2>1. loc[p].dest \in MboxId /\ loc[p] \in Local /\ loc[p].id \in OpId /\ loc[p].uid \in Nat
    BY <1>34, Zenon DEF InsertCopy, LocOK, Local
  <2>2. d \in Doc /\ <<d.mbox, d.uid>> = Held(p)
    BY <1>34, <2>1, Zenon DEF InsertCopy, LocOK, Doc, Local, Held
  <2>3. msgs' = [msgs EXCEPT ![loc[p].id] = d] /\ placed' = placed \cup {Held(p)}
    BY <1>34, Zenon DEF InsertCopy, InsertDoc, Held
  <2>4. /\ UNCHANGED <<uidnext, explog>> /\ Holds(p) /\ ~Holds(p)' /\ ~Deleting(p)' /\ ~Deleted(p)'
        /\ \A q \in Proc \ {p} : pc'[q] = pc[q] /\ loc'[q] = loc[q]
    BY <1>34, Zenon DEF InsertCopy, InsertDoc, Goto, Holds, Deleting, Deleted
  <2> HIDE DEF d
  <2> QED BY <1>0, <2>1, <2>2, <2>3, <2>4, PlaceStep, Zenon
<1>35. CASE SetMailbox(p)
  <2> DEFINE i == loc[p].msg
             d == [msgs[i] EXCEPT !.mbox = loc[p].dest, !.uid = loc[p].uid, !.seq = loc[p].seq]
  <2>1. i \in OpId /\ loc[p].dest \in MboxId /\ loc[p] \in Local
    BY <1>35, Zenon DEF SetMailbox, LocOK
  <2>2. CASE Live(i)
    <3>1. msgs[i] \in Doc
      BY <2>1, <2>2, Zenon DEF Live
    <3>2. d \in Doc /\ <<d.mbox, d.uid>> = Held(p)
      BY <2>1, <3>1, Zenon DEF Doc, Local, Held
    <3>3. msgs' = [msgs EXCEPT ![i] = d] /\ placed' = placed \cup {Held(p)}
      BY <1>35, <2>1, <2>2, Zenon DEF SetMailbox, MovedUid, Held
    <3>4. /\ UNCHANGED <<uidnext, explog>> /\ Holds(p) /\ ~Holds(p)' /\ ~Deleting(p)' /\ ~Deleted(p)'
          /\ \A q \in Proc \ {p} : pc'[q] = pc[q] /\ loc'[q] = loc[q]
      BY <1>35, Zenon DEF SetMailbox, Goto, Holds, Deleting, Deleted
    <3>5. loc[p].uid \in Nat
      BY <2>1, Zenon DEF Local
    <3> HIDE DEF d
    <3> QED BY <1>0, <2>1, <3>2, <3>3, <3>4, <3>5, PlaceStep, Zenon
  <2>3. CASE ~Live(i)
    <3>1. UNCHANGED <<msgs, placed>>
      BY <1>35, <2>3, Zenon DEF SetMailbox
    <3>2. /\ UNCHANGED <<uidnext, placed, explog>>
          /\ \A j \in OpId : Live(j)' => Live(j) /\ Place(j)' = Place(j)
          /\ \A q \in Proc \ {p} : pc'[q] = pc[q] /\ loc'[q] = loc[q]
      BY <1>35, <3>1, Zenon DEF SetMailbox, Goto, Live, Place
    <3>3. ~Holds(p)' /\ ~Deleting(p)' /\ ~Deleted(p)'
      BY <1>35, Zenon DEF SetMailbox, Goto, Holds, Deleting, Deleted
    <3> QED BY <3>2, <3>3, <1>0, PlainStep, Zenon
  <2> QED BY <2>2, <2>3, Zenon
<1> QED
  BY <1>1, <1>2, <1>3, <1>4, <1>5, <1>6, <1>7, <1>8, <1>9, <1>10, <1>11, <1>12, <1>13, <1>14, <1>15,
     <1>16, <1>17, <1>18, <1>19, <1>20, <1>21, <1>22, <1>23, <1>24, <1>25, <1>26, <1>27, <1>28,
     <1>29, <1>30, <1>31, <1>32, <1>33, <1>34, <1>35, Zenon
  DEF Step, AppendMessage, CopyMessage, MoveMessage, DeleteMessage, BlobDropRef, ModifyFlags,
      DeleteMailbox

\* The UID invariant is inductive.
LEMMA UidNext == TypeInv /\ UidInv /\ [Next]_vars => UidInv'
<1> SUFFICES ASSUME TypeInv, UidInv, [Next]_vars PROVE UidInv'
  BY Zenon
<1>1. CASE Crash
  <2>1. OpAtLabel' /\ \A q \in Proc : ~Holds(q)' /\ ~Deleting(q)' /\ ~Deleted(q)'
    BY <1>1, Zenon DEF Crash, OpAtLabel, Holds, Deleting, Deleted
  <2>2. UNCHANGED <<uidnext, placed, explog, msgs>>
    BY <1>1, Zenon DEF Crash
  <2> QED BY <2>1, <2>2, QuietStep, Zenon DEF Live, Place
<1>2. ASSUME NEW p \in Proc, Step(p) \/ DbError(p) PROVE UidInv'
  BY <1>2, UidStep, Zenon
<1>3. CASE UNCHANGED vars
  BY <1>3, QuietStep, Zenon DEF vars, UidInv, OpAtLabel, Live, Place, Holds, Deleting, Deleted, Read
<1> QED BY <1>1, <1>2, <1>3, Zenon DEF Next

\* The invariant holds in every reachable state.
LEMMA UidInvariant == Spec => [](TypeInv /\ UidInv)
BY TypeInit, TypeStep, UidInit, UidNext, PTL DEF Spec

\* No two messages of a mailbox ever share a UID (NextUID and its callers).
THEOREM UniqueUids == Spec => []UidsUnique
<1>1. TypeInv /\ UidInv => UidsUnique
  BY Zenon DEF UidInv
<1> QED BY <1>1, UidInvariant, PTL

\* UIDNEXT, as SELECT and STATUS report it, stays above every UID in use.
THEOREM UidNextSafe == Spec => []UidNextAhead
<1>1. ASSUME TypeInv, UidInv PROVE UidNextAhead
  <2>1. ASSUME NEW i \in OpId, Live(i) PROVE msgs[i].uid < uidnext[msgs[i].mbox]
    <3>1. msgs[i].mbox \in MboxId /\ msgs[i].uid \in Nat
      BY <1>1, <2>1, Zenon DEF TypeInv, TypeOK, Live, Doc
    <3> QED BY <1>1, <2>1, <3>1, Zenon DEF UidInv, LivePlaced, PlacedBelow, Place
  <2> QED BY <2>1, Zenon DEF UidNextAhead
<1> QED BY <1>1, UidInvariant, PTL

\* The expunge log never names a message that is still there (recordExpunge).
THEOREM ExpungeLogSafe == Spec => []ExpungedIsGone
<1>1. TypeInv /\ UidInv => ExpungedIsGone
  BY Zenon DEF UidInv
<1> QED BY <1>1, UidInvariant, PTL

\* A step either leaves every remaining document where it is, or puts one at
\* the place its process holds.
LEMMA PlacementStep ==
    ASSUME TypeInv, NEW p \in Proc, Step(p) \/ DbError(p), NEW i \in OpId, Live(i)'
    PROVE  (Live(i) /\ Place(i)' = Place(i)) \/ (Holds(p) /\ Place(i)' = Held(p))
<1> USE DEF TypeInv, TypeOK
<1>1. CASE msgs' = msgs
  BY <1>1, Zenon DEF Live, Place
<1>2. CASE InsertAppended(p)
  BY <1>2, Zenon DEF InsertAppended, InsertDoc, Holds, Held, Live, Place
<1>3. CASE InsertCopy(p)
  BY <1>3, Zenon DEF InsertCopy, InsertDoc, Holds, Held, Live, Place
<1>4. CASE SetMailbox(p)
  BY <1>4 DEF SetMailbox, MovedUid, Holds, Held, Live, Place, Doc
<1>5. CASE DeleteDoc(p)
  BY <1>5, Zenon DEF DeleteDoc, Live, Place
<1>6. CASE WriteFlags(p)
  BY <1>6 DEF WriteFlags, Live, Place, Doc
<1>7. CASE RemoveMessages(p)
  BY <1>7, Zenon DEF RemoveMessages, Live, Place
<1> QED
  BY <1>1, <1>2, <1>3, <1>4, <1>5, <1>6, <1>7, Zenon
  DEF Step, AppendMessage, CopyMessage, MoveMessage, DeleteMessage, BlobDropRef, ModifyFlags,
      DeleteMailbox, DbError, StartAppend, StartCopy, StartMove, StartDelete, StartFlags,
      StartDeleteMailbox, Begin, NextUID, NextModSeq, PutBody, BlobAddRef, UndoBody, AddUsage,
      BlobBumpRef, DecRef, DeleteRefRow, DeleteBody, RecordExpunge, SubUsage, ReadForFlags,
      CreateMailbox, RemoveListedBody, RemoveMailbox

\* A UID that a message of a mailbox has had is never given to a message of
\* that mailbox again, whatever was deleted, moved, failed or crashed between.
THEOREM UidsNeverReused == Spec => UidNeverReused
<1> DEFINE A == \A i \in OpId :
          LET place == <<msgs'[i].mbox, msgs'[i].uid>> IN
          msgs'[i] # Null /\ (msgs[i] = Null \/ place # <<msgs[i].mbox, msgs[i].uid>>)
              => place \notin placed
<1>1. Spec => [](TypeInv /\ UidInv)
  BY TypeInit, TypeStep, UidInit, UidNext, PTL DEF Spec
<1>2. TypeInv /\ UidInv /\ [Next]_vars => [A]_vars
  <2> SUFFICES ASSUME TypeInv, UidInv, Next, NEW i \in OpId, Live(i)',
                      ~Live(i) \/ Place(i)' # Place(i)
               PROVE  Place(i)' \notin placed
    BY Zenon DEF Live, Place
  <2>1. ASSUME NEW p \in Proc, Step(p) \/ DbError(p) PROVE Place(i)' \notin placed
    BY <2>1, PlacementStep, Zenon DEF UidInv, HeldFresh
  <2>2. CASE Crash
    BY <2>2, Zenon DEF Crash, Live, Place
  <2> QED BY <2>1, <2>2, Zenon DEF Next
<1> QED BY <1>1, <1>2, PTL DEF Spec, UidNeverReused

-----------------------------------------------------------------------------
(* Bodies, reference counts and the expunge log.                           *)

INSTANCE FiniteSetTheorems

-----------------------------------------------------------------------------
(* Who knows which document and which body.  The number of an operation is *)
(* the _id of the document it inserts and, for an append, the key of its   *)
(* body; until then nobody else can have met either.                       *)

Appending == {"a_uid", "a_seq", "a_put", "a_ref", "a_ins", "a_undo"}
Inserting == Appending \cup {"c_bump", "c_uid", "c_seq", "c_ins"}
Busy(p) == pc[p] # "idle"

\* There is no document n and no operation works on one.
Unmet(n) == ~Live(n) /\ \A q \in Proc : Busy(q) => loc[q].msg # n
\* No document has the body n and no operation has read one that had.
Unshared(n) ==
    /\ \A i \in OpId : Live(i) => msgs[i].blob # n
    /\ \A q \in Proc : Busy(q) /\ loc[q].src # Null => loc[q].src.blob # n

FutureFresh == \A n \in OpId : n > ops => Unmet(n) /\ Unshared(n)
IdsDistinct ==
    \A p \in Proc : Busy(p) =>
        /\ loc[p].id <= ops
        /\ \A q \in Proc : Busy(q) /\ loc[q].id = loc[p].id => q = p
InsertFresh ==
    \A p \in Proc : /\ pc[p] \in Inserting => Unmet(loc[p].id)
                    /\ pc[p] \in Appending => Unshared(loc[p].id)
\* A document keeps its body, so a deletion drops the reference it removed.
BodyKept ==
    \A p \in Proc : Busy(p) /\ loc[p].msg # Null /\ loc[p].src # Null =>
        (Live(loc[p].msg) => msgs[loc[p].msg].blob = loc[p].src.blob)

FreshInv == FutureFresh /\ IdsDistinct /\ InsertFresh /\ BodyKept

\* What a step of p does to the documents and to what operations know of them.
Alone(p) == \A q \in Proc \ {p} : pc'[q] = pc[q] /\ loc'[q] = loc[q]
DocFlow(p) ==
    \A i \in OpId : Live(i)' =>
        \/ Live(i) /\ msgs'[i].blob = msgs[i].blob
        \/ /\ i = loc[p].id /\ pc[p] = "a_ins" /\ pc'[p] = "a_used" /\ msgs'[i].blob = i
        \/ /\ i = loc[p].id /\ pc[p] = "c_ins" /\ pc'[p] = "idle"
           /\ msgs'[i].blob = loc[p].src.blob
Goes(p) ==
    /\ Busy(p) /\ loc'[p].id = loc[p].id /\ loc'[p].msg = loc[p].msg
    /\ \/ loc'[p].src = loc[p].src
       \/ loc[p].msg \in OpId /\ Live(loc[p].msg) /\ loc'[p].src = msgs[loc[p].msg]
    /\ pc'[p] \in Inserting => pc[p] \in Inserting
    /\ pc'[p] \in Appending => pc[p] \in Appending
Starts(p) ==
    /\ ~Busy(p) /\ ops < MaxOps /\ ops' = ops + 1 /\ loc'[p].id = ops + 1
    /\ \/ loc'[p].msg = Null /\ loc'[p].src = Null
       \/ /\ loc'[p].msg \in OpId /\ Live(loc'[p].msg)
          /\ loc'[p].src \in {Null, msgs[loc'[p].msg]}
Flow(p) ==
    /\ Alone(p) /\ DocFlow(p) /\ ops' \in Nat /\ ops <= ops'
    /\ Busy(p)' => Goes(p) \/ Starts(p)

\* The steps that neither take nor drop a reference, and store or remove no body.
ReferencesKept(p) ==
    \/ StartAppend(p) \/ StartCopy(p) \/ StartMove(p) \/ StartDelete(p) \/ StartFlags(p)
    \/ StartDeleteMailbox(p) \/ CreateMailbox(p)
    \/ NextUID(p, "a_uid", "a_seq", "idle") \/ NextUID(p, "c_uid", "c_seq", "r_dec")
    \/ NextUID(p, "m_uid", "m_seq", "idle")
    \/ NextModSeq(p, "a_seq", "a_put", "idle") \/ NextModSeq(p, "c_seq", "c_ins", "r_dec")
    \/ NextModSeq(p, "m_seq", "m_set", "idle") \/ NextModSeq(p, "d_seq", "d_doc", "idle")
    \/ NextModSeq(p, "f_seq", "f_set", "idle")
    \/ AddUsage(p) \/ SetMailbox(p) \/ RecordExpunge(p) \/ SubUsage(p) \/ ReadForFlags(p)
    \/ WriteFlags(p) \/ RemoveMessages(p) \/ RemoveMailbox(p)

\* What the operations of a step are made of.
LEMMA StepCases ==
    ASSUME NEW p \in Proc, Step(p)
    PROVE  \/ ReferencesKept(p) \/ PutBody(p) \/ BlobAddRef(p) \/ InsertAppended(p) \/ UndoBody(p)
           \/ BlobBumpRef(p) \/ InsertCopy(p) \/ DeleteDoc(p) \/ DecRef(p) \/ DeleteRefRow(p)
           \/ DeleteBody(p) \/ RemoveListedBody(p)
  BY DEF Step, ReferencesKept, AppendMessage, CopyMessage, MoveMessage, DeleteMessage, BlobDropRef,
         ModifyFlags, DeleteMailbox

\* Every step of a process has this shape.
LEMMA FlowStep ==
    ASSUME TypeInv, NEW p \in Proc, Step(p) \/ DbError(p)
    PROVE  Flow(p)
<1> USE ConstantsAssumption DEF TypeInv, TypeOK, Flow
<1>0. ops \in Nat /\ (Busy(p) => loc[p] \in Local)
  BY DEF Busy
<1>1. CASE StartAppend(p) \/ StartCopy(p) \/ StartMove(p) \/ StartDelete(p) \/ StartFlags(p)
           \/ StartDeleteMailbox(p)
  <2>1. Alone(p) /\ DocFlow(p) /\ ops' = ops + 1
    BY <1>0, <1>1, ZenonT(30) DEF StartAppend, StartCopy, StartMove, StartDelete, StartFlags,
       StartDeleteMailbox, Begin, Alone, DocFlow, Live
  <2>2. Starts(p)
    <3> USE <1>0 DEF Begin, Blank, Starts, Busy, Live
    <3>1. CASE StartAppend(p)
      BY <3>1 DEF StartAppend
    <3>2. CASE StartCopy(p)
      BY <3>2 DEF StartCopy
    <3>3. CASE StartMove(p)
      BY <3>3 DEF StartMove
    <3>4. CASE StartDelete(p)
      BY <3>4 DEF StartDelete
    <3>5. CASE StartFlags(p)
      BY <3>5 DEF StartFlags
    <3>6. CASE StartDeleteMailbox(p)
      BY <3>6 DEF StartDeleteMailbox
    <3> QED BY <1>1, <3>1, <3>2, <3>3, <3>4, <3>5, <3>6, Zenon
  <2> QED BY <1>0, <2>1, <2>2
<1>2. CASE NextUID(p, "a_uid", "a_seq", "idle") \/ NextUID(p, "c_uid", "c_seq", "r_dec")
           \/ NextUID(p, "m_uid", "m_seq", "idle")
  <2>1. Alone(p) /\ DocFlow(p) /\ ops' = ops
    BY <1>0, <1>2 DEF NextUID, Goto, Alone, DocFlow, Live
  <2>2. Busy(p)' => Goes(p)
    BY <1>0, <1>2, SMTT(30) DEF NextUID, Goto, Goes, Busy, Inserting, Appending, Local
  <2> QED BY <1>0, <2>1, <2>2
<1>3. CASE NextModSeq(p, "a_seq", "a_put", "idle") \/ NextModSeq(p, "c_seq", "c_ins", "r_dec")
           \/ NextModSeq(p, "m_seq", "m_set", "idle") \/ NextModSeq(p, "d_seq", "d_doc", "idle")
           \/ NextModSeq(p, "f_seq", "f_set", "idle")
  <2>1. Alone(p) /\ DocFlow(p) /\ ops' = ops
    BY <1>0, <1>3 DEF NextModSeq, Goto, Alone, DocFlow, Live
  <2>2. Busy(p)' => Goes(p)
    BY <1>0, <1>3, SMTT(30) DEF NextModSeq, Goto, Goes, Busy, Inserting, Appending, Local
  <2> QED BY <1>0, <2>1, <2>2
<1>4. CASE PutBody(p) \/ BlobAddRef(p) \/ UndoBody(p) \/ AddUsage(p) \/ BlobBumpRef(p)
  BY <1>0, <1>4, SMTT(30)
     DEF PutBody, BlobAddRef, UndoBody, AddUsage, BlobBumpRef, Goto, Alone, DocFlow, Goes,
     Busy, Inserting, Appending, Live
<1>5. CASE DecRef(p) \/ DeleteRefRow(p) \/ DeleteBody(p) \/ RecordExpunge(p) \/ SubUsage(p)
  BY <1>0, <1>5, SMTT(30)
     DEF DecRef, DeleteRefRow, DeleteBody, RecordExpunge, SubUsage, AfterDrop, Goto, Alone,
     DocFlow, Goes, Busy, Inserting, Appending, Live
<1>6. CASE DeleteDoc(p) \/ RemoveListedBody(p) \/ RemoveMessages(p) \/ RemoveMailbox(p)
  BY <1>0, <1>6, SMTT(30)
     DEF DeleteDoc, RemoveListedBody, RemoveMessages, RemoveMailbox, Goto, Alone, DocFlow,
     Goes, Busy, Inserting, Appending, Live, Local
<1>7. CASE SetMailbox(p) \/ WriteFlags(p)
  BY <1>0, <1>7, SMTT(30) DEF SetMailbox, WriteFlags, Goto, Alone, DocFlow, Goes, Busy, Live, LocOK, Doc
<1>8. CASE InsertAppended(p) \/ InsertCopy(p)
  BY <1>0, <1>8
     DEF InsertAppended, InsertCopy, InsertDoc, Goto, Alone, DocFlow, Goes, Busy, Inserting,
     Appending, Live
<1>9. CASE ReadForFlags(p)
  BY <1>0, <1>9
     DEF ReadForFlags, Goto, Alone, DocFlow, Goes, Busy, Inserting, Appending, Local, LocOK,
     Live
<1>10. CASE CreateMailbox(p) \/ DbError(p)
  BY <1>0, <1>10 DEF CreateMailbox, DbError, OnError, Goto, Alone, DocFlow, Goes, Busy, Inserting,
     Appending, Live
<1> QED
  BY <1>1, <1>2, <1>3, <1>4, <1>5, <1>6, <1>7, <1>8, <1>9, <1>10, StepCases, ZenonT(30) DEF ReferencesKept

\* No document, no body and no operation exists at the start.
LEMMA FreshInit == Init => FreshInv
<1> SUFFICES ASSUME Init PROVE FreshInv
  BY Zenon
<1> QED
  BY Zenon DEF Init, FreshInv, FutureFresh, IdsDistinct, InsertFresh, BodyKept, Unmet, Unshared, Live,
         Busy, Inserting, Appending

\* p's step inserts the document of its operation.
Inserted(p) == \/ pc[p] = "a_ins" /\ pc'[p] = "a_used"
               \/ pc[p] = "c_ins" /\ pc'[p] = "idle"

\* A step keeps unmet every number but the one it inserts.
LEMMA UnmetStep ==
    ASSUME TypeInv, NEW p \in Proc, Flow(p), NEW n \in OpId, Unmet(n),
           Inserted(p) => n # loc[p].id
    PROVE  Unmet(n)'
<1> USE ConstantsAssumption DEF TypeInv, TypeOK
<1>1. ~Live(n)'
  BY Zenon DEF Unmet, Flow, DocFlow, Inserted
<1>2. ASSUME NEW q \in Proc, Busy(q)' PROVE loc'[q].msg # n
  <2>1. CASE q # p
    BY <1>2, <2>1 DEF Unmet, Flow, Alone, Busy
  <2>2. CASE q = p
    BY <1>2, <2>2 DEF Unmet, Flow, Goes, Starts, OpId
  <2> QED BY <2>1, <2>2, Zenon
<1> QED BY <1>1, <1>2, Zenon DEF Unmet

\* A step keeps unshared every key but the one an append inserts.
LEMMA UnsharedStep ==
    ASSUME TypeInv, NEW p \in Proc, Flow(p), NEW n \in OpId, Unshared(n),
           pc[p] = "a_ins" /\ Inserted(p) => n # loc[p].id
    PROVE  Unshared(n)'
<1> USE ConstantsAssumption DEF TypeInv, TypeOK
<1>0. pc[p] = "c_ins" => Busy(p) /\ loc[p].src # Null
  BY Zenon DEF LocOK, Busy
<1>1. ASSUME NEW i \in OpId, Live(i)' PROVE msgs'[i].blob # n
  BY <1>0, <1>1, Zenon DEF Unshared, Flow, DocFlow, Inserted
<1>2. ASSUME NEW q \in Proc, Busy(q)', loc'[q].src # Null PROVE loc'[q].src.blob # n
  <2>1. CASE q # p
    BY <1>2, <2>1, Zenon DEF Unshared, Flow, Alone, Busy
  <2>2. CASE q = p
    BY <1>2, <2>2 DEF Unshared, Flow, Goes, Starts
  <2> QED BY <2>1, <2>2, Zenon
<1> QED BY <1>1, <1>2, Zenon DEF Unshared

\* A step of a process keeps fresh what is not yet inserted.
LEMMA FreshStepP ==
    ASSUME TypeInv, TypeInv', FreshInv, NEW p \in Proc, Flow(p)
    PROVE  FreshInv'
<1> USE ConstantsAssumption
<1>0. /\ ops \in Nat /\ ops' \in Nat /\ ops <= ops'
      /\ \A q \in Proc : Busy(q) => loc[q].id \in OpId /\ loc[q].id <= ops
      /\ \A q \in Proc : Busy(q)' => loc'[q].id \in OpId
  BY DEF TypeInv, TypeOK, Flow, FreshInv, IdsDistinct, Busy, Local
<1>1. FutureFresh'
  <2> SUFFICES ASSUME NEW n \in OpId, n > ops' PROVE Unmet(n)' /\ Unshared(n)'
    BY Zenon DEF FutureFresh
  <2>1. Unmet(n) /\ Unshared(n)
    BY <1>0 DEF FreshInv, FutureFresh, OpId
  <2>2. Inserted(p) => n # loc[p].id
    BY <1>0 DEF Inserted, Busy, OpId
  <2> QED BY <2>1, <2>2, UnmetStep, UnsharedStep, Zenon
<1>2. IdsDistinct'
  <2> SUFFICES ASSUME NEW q \in Proc, Busy(q)'
               PROVE  /\ loc'[q].id <= ops'
                      /\ \A r \in Proc : Busy(r)' /\ loc'[r].id = loc'[q].id => r = q
    BY Zenon DEF IdsDistinct
  <2>1. \A r \in Proc \ {p} : Busy(r)' => Busy(r) /\ loc'[r].id = loc[r].id
    BY Zenon DEF Flow, Alone, Busy
  <2>2. Busy(p)' => \/ Busy(p) /\ loc'[p].id = loc[p].id
                    \/ loc'[p].id = ops + 1 /\ ops' = ops + 1
    BY Zenon DEF Flow, Goes, Starts
  <2> QED BY <1>0, <2>1, <2>2 DEF FreshInv, IdsDistinct, OpId
<1>3. InsertFresh'
  <2> SUFFICES ASSUME NEW q \in Proc
               PROVE  /\ pc'[q] \in Inserting => Unmet(loc[q].id)'
                      /\ pc'[q] \in Appending => Unshared(loc[q].id)'
    BY Zenon DEF InsertFresh
  <2> DEFINE n == loc'[q].id
  <2>0. pc'[q] \in Inserting => Busy(q)' /\ n \in OpId
    BY <1>0, Zenon DEF Busy, Inserting, Appending
  <2>00. Appending \subseteq Inserting
    BY Zenon DEF Inserting
  <2>1. CASE q # p
    <3>1. pc'[q] = pc[q] /\ loc'[q] = loc[q]
      BY <2>1, Zenon DEF Flow, Alone
    <3>2. Inserted(p) /\ pc[q] \in Inserting => n # loc[p].id
      BY <2>1, <3>1, Zenon DEF Inserted, FreshInv, IdsDistinct, Busy, Inserting, Appending
    <3>3. /\ pc[q] \in Inserting => Unmet(n)
          /\ pc[q] \in Appending => Unshared(n)
      BY <3>1, Zenon DEF FreshInv, InsertFresh
    <3> QED BY <2>0, <2>00, <3>1, <3>2, <3>3, UnmetStep, UnsharedStep, Zenon
  <2>2. CASE q = p /\ Goes(p)
    <3>1. /\ pc'[q] \in Inserting => Unmet(n) /\ ~Inserted(p)
          /\ pc'[q] \in Appending => Unshared(n)
      BY <2>2, Zenon DEF FreshInv, InsertFresh, Goes, Inserted, Inserting, Appending
    <3> QED BY <2>0, <2>00, <2>2, <3>1, UnmetStep, UnsharedStep, Zenon
  <2>3. CASE q = p /\ Starts(p)
    <3>1. n \in OpId /\ n > ops /\ ~Inserted(p)
      BY <1>0, <2>3 DEF Starts, Busy, Inserted, OpId, TypeInv, TypeOK
    <3>2. Unmet(n) /\ Unshared(n)
      BY <3>1, Zenon DEF FreshInv, FutureFresh
    <3> QED BY <2>3, <3>1, <3>2, UnmetStep, UnsharedStep, SMTT(30)
  <2> QED BY <2>0, <2>00, <2>1, <2>2, <2>3, Zenon DEF Flow
<1>4. BodyKept'
  <2> SUFFICES ASSUME NEW q \in Proc, Busy(q)', loc'[q].msg # Null, loc'[q].src # Null,
                      Live(loc[q].msg)'
               PROVE  msgs'[loc'[q].msg].blob = loc'[q].src.blob
    BY Zenon DEF BodyKept
  <2> DEFINE m == loc'[q].msg
  <2>1. m \in OpId
    BY DEF TypeInv, TypeOK, Busy, Local
  <2>2. ASSUME Busy(q), loc[q].msg = m PROVE Live(m) /\ msgs'[m].blob = msgs[m].blob
    <3>1. Inserted(p) => m # loc[p].id
      BY <2>2, Zenon DEF Inserted, FreshInv, InsertFresh, Unmet, Inserting, Appending
    <3> QED BY <2>1, <3>1, Zenon DEF Flow, DocFlow, Inserted
  <2>3. CASE q # p
    <3>1. Busy(q) /\ loc'[q] = loc[q]
      BY <2>3, Zenon DEF Flow, Alone, Busy
    <3> QED BY <2>2, <3>1, Zenon DEF FreshInv, BodyKept
  <2>4. CASE q = p /\ Goes(p)
    BY <2>2, <2>4, Zenon DEF Goes, FreshInv, BodyKept
  <2>5. CASE q = p /\ Starts(p)
    BY <2>1, <2>5, Zenon DEF Starts, Flow, DocFlow, Busy
  <2> QED BY <2>3, <2>4, <2>5, Zenon DEF Flow
<1> QED BY <1>1, <1>2, <1>3, <1>4, Zenon DEF FreshInv

\* A crash forgets every operation.
LEMMA FreshCrash == ASSUME FreshInv, Crash PROVE FreshInv'
  BY Zenon DEF Crash, FreshInv, FutureFresh, IdsDistinct, InsertFresh, BodyKept, Unmet, Unshared, Live,
         Busy, Inserting, Appending

-----------------------------------------------------------------------------
(* The expunge log.                                                        *)

\* The deletion of what was at pl is under way: it will be logged, or its
\* mailbox goes.
Leaving(p, pl) ==
    \/ Deleted(p) /\ Read(p) = pl
    \/ pc[p] = "x_mbox" /\ loc[p].dest = pl[1]

Accounted(pl) ==
    \/ mbox[pl[1]] = "gone" \/ pl \in vacated
    \/ \E i \in OpId : Live(i) /\ Place(i) = pl
    \/ \E e \in explog : <<e.mbox, e.uid>> = pl
    \/ \E p \in Proc : Leaving(p, pl)

DeleteAtLabel == \A p \in Proc : Deleting(p) => loc[p].op = "delete"
LogInv == DeleteAtLabel /\ (~faulted => \A pl \in placed : Accounted(pl))

\* A mailbox that is gone stays gone, and neither record loses a row.
LEMMA RecordsGrow ==
    ASSUME TypeInv, NEW p \in Proc, Step(p)
    PROVE  /\ \A b \in MboxId : mbox[b] = "gone" => mbox'[b] = "gone"
           /\ vacated \subseteq vacated' /\ explog \subseteq explog'
<1> USE DEF TypeInv, TypeOK
<1>1. CASE ReferencesKept(p)
  BY <1>1, Zenon DEF ReferencesKept, StartAppend, StartCopy, StartMove, StartDelete, StartFlags,
     StartDeleteMailbox, Begin, CreateMailbox, NextUID, NextModSeq, AddUsage, SetMailbox,
     RecordExpunge, SubUsage, ReadForFlags, WriteFlags, RemoveMessages, RemoveMailbox
<1>2. CASE \/ PutBody(p) \/ BlobAddRef(p) \/ InsertAppended(p) \/ UndoBody(p) \/ BlobBumpRef(p)
           \/ InsertCopy(p) \/ DeleteDoc(p) \/ DecRef(p) \/ DeleteRefRow(p) \/ DeleteBody(p)
           \/ RemoveListedBody(p)
  BY <1>2, Zenon DEF PutBody, BlobAddRef, InsertAppended, InsertDoc, UndoBody, BlobBumpRef, InsertCopy,
     DeleteDoc, DecRef, DeleteRefRow, DeleteBody, RemoveListedBody
<1> QED BY <1>1, <1>2, StepCases, Zenon

\* A message keeps its place, or leaves it with a record or towards one.
LEMMA LeftWithRecord ==
    ASSUME TypeInv, FreshInv, DeleteAtLabel, NEW p \in Proc, Step(p),
           NEW i \in OpId, Live(i), NEW pl \in MboxId \X Nat, Place(i) = pl
    PROVE  (Live(i) /\ Place(i) = pl)' \/ pl \in vacated' \/ Leaving(p, pl)'
<1> USE DEF TypeInv, TypeOK
<1>0. msgs[i] \in Doc
  BY Zenon DEF Live
<1>1. CASE SetMailbox(p)
  <2>1. CASE loc[p].msg = i
    BY <1>1, <2>1, Zenon DEF SetMailbox, Live
  <2>2. CASE loc[p].msg # i
    BY <1>1, <2>2, Zenon DEF SetMailbox, Live, Place
  <2> QED BY <2>1, <2>2, Zenon
<1>2. CASE DeleteDoc(p)
  <2>1. CASE loc[p].msg # i
    BY <1>2, <2>1, Zenon DEF DeleteDoc, Live, Place
  <2>2. CASE loc[p].msg = i /\ pl # Read(p)
    BY <1>2, <2>2, Zenon DEF DeleteDoc, Read
  <2>3. CASE loc[p].msg = i /\ pl = Read(p)
    BY <1>2, <2>3, Zenon DEF DeleteDoc, Goto, Read, Leaving, Deleted, DeleteAtLabel, Deleting
  <2> QED BY <2>1, <2>2, <2>3, Zenon
<1>3. CASE RemoveMessages(p)
  BY <1>3, Zenon DEF RemoveMessages, Goto, InMbox, Live, Place, Leaving
<1>4. CASE WriteFlags(p)
  <2>1. CASE loc[p].msg # i
    BY <1>4, <2>1, Zenon DEF WriteFlags, Live, Place
  <2>2. CASE loc[p].msg = i
    <3>1. msgs'[i] = [msgs[i] EXCEPT !.flags = WrittenFlags(p), !.seq = loc[p].seq]
      BY <1>4, <2>2, Zenon DEF WriteFlags, Live
    <3>2. msgs'[i].mbox = msgs[i].mbox /\ msgs'[i].uid = msgs[i].uid
      BY <1>0, <3>1, Zenon DEF Doc
    <3>3. msgs'[i] \in Doc
      <4>1. WrittenFlags(p) \in SUBSET Flag /\ loc[p].seq \in Nat
        BY <1>4, ZenonT(30) DEF WriteFlags, WrittenFlags, Local
      <4> QED BY <1>0, <3>1, <4>1, Zenon DEF Doc
    <3> QED BY <3>2, <3>3, ConstantsAssumption, Zenon DEF Live, Place
  <2> QED BY <2>1, <2>2, Zenon
<1>5. CASE InsertAppended(p) \/ InsertCopy(p)
  <2>1. loc[p].id # i
    BY <1>5, Zenon DEF InsertAppended, InsertCopy, FreshInv, InsertFresh, Unmet, Inserting, Appending
  <2> QED BY <1>5, <2>1 DEF InsertAppended, InsertCopy, InsertDoc, Live, Place
<1>6. CASE msgs' = msgs
  BY <1>6, Zenon DEF Live, Place
<1>7. ReferencesKept(p) =>
          msgs' = msgs \/ SetMailbox(p) \/ RemoveMessages(p) \/ WriteFlags(p)
  BY Zenon DEF ReferencesKept, StartAppend, StartCopy, StartMove, StartDelete, StartFlags,
     StartDeleteMailbox, Begin, CreateMailbox, NextUID, NextModSeq, AddUsage,
     RecordExpunge, SubUsage, ReadForFlags, RemoveMailbox
<1>8. ASSUME \/ PutBody(p) \/ BlobAddRef(p) \/ UndoBody(p) \/ BlobBumpRef(p) \/ DecRef(p)
             \/ DeleteRefRow(p) \/ DeleteBody(p) \/ RemoveListedBody(p)
      PROVE  msgs' = msgs
  BY <1>8, Zenon DEF PutBody, BlobAddRef, UndoBody, BlobBumpRef, DecRef, DeleteRefRow, DeleteBody,
     RemoveListedBody
<1> QED BY <1>1, <1>2, <1>3, <1>4, <1>5, <1>6, <1>7, <1>8, StepCases, SMTT(30)

\* A deletion under way goes on until its record is written.
LEMMA LeavingStep ==
    ASSUME TypeInv, NEW p \in Proc, Step(p), NEW pl \in MboxId \X Nat, Leaving(p, pl)
    PROVE  \/ Leaving(p, pl)' \/ mbox'[pl[1]] = "gone"
           \/ \E e \in explog' : <<e.mbox, e.uid>> = pl
<1> USE DEF TypeInv, TypeOK
<1>0. pc[p] \in {"r_dec", "r_row", "r_obj", "d_log", "x_mbox"}
  BY Zenon DEF Leaving, Deleted
<1>1. CASE DecRef(p) \/ DeleteRefRow(p) \/ DeleteBody(p)
  BY <1>1, Zenon DEF DecRef, DeleteRefRow, DeleteBody, AfterDrop, Goto, Leaving, Deleted, Read
<1>2. CASE RecordExpunge(p)
  <2>1. Read(p) = pl
    BY <1>2, Zenon DEF RecordExpunge, Leaving
  <2>2. [mbox |-> loc[p].src.mbox, uid |-> loc[p].src.uid, seq |-> loc[p].seq] \in explog'
    BY <1>2, Zenon DEF RecordExpunge
  <2> QED BY <2>1, <2>2, Zenon DEF Read
<1>3. CASE RemoveMailbox(p)
  BY <1>3, Zenon DEF RemoveMailbox, Leaving, Deleted
<1>4. ReferencesKept(p) => RecordExpunge(p) \/ RemoveMailbox(p)
  BY <1>0, Zenon DEF ReferencesKept, StartAppend, StartCopy, StartMove, StartDelete, StartFlags,
     StartDeleteMailbox, Begin, CreateMailbox, NextUID, NextModSeq, AddUsage, SetMailbox,
     SubUsage, ReadForFlags, WriteFlags, RemoveMessages
<1>5. ~(\/ PutBody(p) \/ BlobAddRef(p) \/ InsertAppended(p) \/ UndoBody(p) \/ BlobBumpRef(p)
        \/ InsertCopy(p) \/ DeleteDoc(p) \/ RemoveListedBody(p))
  BY <1>0, Zenon DEF PutBody, BlobAddRef, InsertAppended, UndoBody, BlobBumpRef, InsertCopy, DeleteDoc,
     RemoveListedBody
<1> QED BY <1>1, <1>2, <1>3, <1>4, <1>5, StepCases, SMTT(30)

\* Nothing that left a mailbox is forgotten.
LEMMA AccountedStep ==
    ASSUME TypeInv, FreshInv, DeleteAtLabel, NEW p \in Proc, Step(p), Alone(p),
           NEW pl \in MboxId \X Nat, Accounted(pl)
    PROVE  Accounted(pl)'
<1>1. CASE mbox[pl[1]] = "gone" \/ pl \in vacated \/ \E e \in explog : <<e.mbox, e.uid>> = pl
  BY <1>1, RecordsGrow, Zenon DEF Accounted
<1>2. CASE \E i \in OpId : Live(i) /\ Place(i) = pl
  BY <1>2, LeftWithRecord, Zenon DEF Accounted
<1>3. ASSUME NEW q \in Proc, Leaving(q, pl) PROVE Accounted(pl)'
  <2>1. CASE q = p
    BY <1>3, <2>1, LeavingStep, Zenon DEF Accounted
  <2>2. CASE q # p
    BY <1>3, <2>2, Zenon DEF Accounted, Alone, Leaving, Deleted, Read
  <2> QED BY <2>1, <2>2
<1> QED BY <1>1, <1>2, <1>3, Zenon DEF Accounted

\* A place is new only with a message in it.
LEMMA NewPlace ==
    ASSUME TypeInv, NEW p \in Proc, Step(p), NEW pl \in placed' \ placed
    PROVE  Accounted(pl)'
<1> USE DEF TypeInv, TypeOK
<1>0. ASSUME NEW i \in OpId, msgs'[i] # Null, <<msgs'[i].mbox, msgs'[i].uid>> = pl
      PROVE  Accounted(pl)'
  BY <1>0 DEF Accounted, Live, Place
<1>1. CASE SetMailbox(p)
  <2>1. loc[p].msg \in OpId /\ loc[p].dest \in MboxId /\ MovedUid(p) \in Nat
    BY <1>1 DEF SetMailbox, LocOK, MovedUid, Local
  <2>2. Live(loc[p].msg) /\ pl = <<loc[p].dest, MovedUid(p)>>
    BY <1>1 DEF SetMailbox
  <2>3. msgs[loc[p].msg] \in Doc
    BY <2>1, <2>2, ZenonT(30) DEF Live
  <2>4. /\ msgs'[loc[p].msg] = [msgs[loc[p].msg] EXCEPT !.mbox = loc[p].dest, !.uid = MovedUid(p),
                                                        !.seq = loc[p].seq]
    BY <1>1, <2>1, <2>2, ZenonT(30) DEF SetMailbox
  <2>5. msgs'[loc[p].msg] \in Doc
    BY <1>1, <2>1, <2>3, <2>4, SMTT(30) DEF SetMailbox, Doc, Local
  <2>6. msgs'[loc[p].msg].mbox = loc[p].dest /\ msgs'[loc[p].msg].uid = MovedUid(p)
    BY <2>3, <2>4 DEF Doc
  <2> QED BY <1>0, <2>1, <2>2, <2>5, <2>6, ConstantsAssumption, ZenonT(30)
<1>2. CASE InsertAppended(p) \/ InsertCopy(p)
  <2>1. loc[p].id \in OpId
    BY <1>2, Zenon DEF InsertAppended, InsertCopy, Local
  <2>2. PICK d : /\ d.mbox = loc[p].dest /\ d.uid = loc[p].uid
                 /\ msgs' = [msgs EXCEPT ![loc[p].id] = d]
                 /\ placed' = placed \cup {<<d.mbox, d.uid>>}
                 /\ d \in Doc
    <3>1. CASE InsertAppended(p)
      <4> DEFINE d == [mbox |-> loc[p].dest, uid |-> loc[p].uid, seq |-> loc[p].seq,
                       blob |-> loc[p].id, flags |-> {}]
      <4>1. d \in Doc
        BY <2>1, <3>1, ZenonT(30) DEF InsertAppended, LocOK, Doc, Local
      <4>2. /\ d.mbox = loc[p].dest /\ d.uid = loc[p].uid
            /\ msgs' = [msgs EXCEPT ![loc[p].id] = d]
            /\ placed' = placed \cup {<<d.mbox, d.uid>>}
        BY <3>1, ZenonT(30) DEF InsertAppended, InsertDoc
      <4> HIDE DEF d
      <4> QED BY <4>1, <4>2, Zenon
    <3>2. CASE InsertCopy(p)
      <4> DEFINE d == [mbox |-> loc[p].dest, uid |-> loc[p].uid, seq |-> loc[p].seq,
                       blob |-> loc[p].src.blob, flags |-> loc[p].src.flags]
      <4>1. d \in Doc
        BY <2>1, <3>2, Zenon DEF InsertCopy, LocOK, Doc, Local
      <4>2. /\ d.mbox = loc[p].dest /\ d.uid = loc[p].uid
            /\ msgs' = [msgs EXCEPT ![loc[p].id] = d]
            /\ placed' = placed \cup {<<d.mbox, d.uid>>}
        BY <3>2, ZenonT(30) DEF InsertCopy, InsertDoc
      <4> HIDE DEF d
      <4> QED BY <4>1, <4>2, Zenon
    <3> QED BY <1>2, <3>1, <3>2
  <2> QED BY <1>0, <2>1, <2>2, ConstantsAssumption, Zenon
<1>3. ReferencesKept(p) => placed' = placed \/ SetMailbox(p)
  BY Zenon DEF ReferencesKept, StartAppend, StartCopy, StartMove, StartDelete, StartFlags,
     StartDeleteMailbox, Begin, CreateMailbox, NextUID, NextModSeq, AddUsage,
     RecordExpunge, SubUsage, ReadForFlags, WriteFlags, RemoveMessages, RemoveMailbox
<1>4. ASSUME \/ PutBody(p) \/ BlobAddRef(p) \/ UndoBody(p) \/ BlobBumpRef(p) \/ DeleteDoc(p)
             \/ DecRef(p) \/ DeleteRefRow(p) \/ DeleteBody(p) \/ RemoveListedBody(p)
      PROVE  placed' = placed
  BY <1>4, Zenon DEF PutBody, BlobAddRef, UndoBody, BlobBumpRef, DeleteDoc, DecRef, DeleteRefRow,
     DeleteBody,
     RemoveListedBody
<1> QED BY <1>1, <1>2, <1>3, <1>4, StepCases, SMTT(30)

\* d_seq and d_doc are labels of DeleteMessage only.
LEMMA DeleteAtLabelStep ==
    ASSUME TypeInv, DeleteAtLabel, NEW p \in Proc, Alone(p), Step(p) \/ DbError(p)
    PROVE  DeleteAtLabel'
<1> USE DEF TypeInv, TypeOK, Deleting
<1>1. SUFFICES ASSUME pc'[p] \in {"d_seq", "d_doc"} PROVE loc'[p].op = "delete"
  BY Zenon DEF DeleteAtLabel, Alone
<1>2. CASE StartDelete(p)
  BY <1>2 DEF StartDelete, Begin, Blank
<1>3. CASE NextModSeq(p, "d_seq", "d_doc", "idle")
  BY <1>1, <1>3 DEF NextModSeq, Goto, DeleteAtLabel, Local
<1>4. ReferencesKept(p) => StartDelete(p) \/ NextModSeq(p, "d_seq", "d_doc", "idle")
  BY <1>1, ZenonT(30) DEF ReferencesKept, StartAppend, StartCopy, StartMove, StartFlags, Goto,
     StartDeleteMailbox, Begin, CreateMailbox, NextUID, NextModSeq, AddUsage, SetMailbox,
     RecordExpunge, SubUsage, ReadForFlags, WriteFlags, RemoveMessages, RemoveMailbox
<1>5. ~(\/ PutBody(p) \/ BlobAddRef(p) \/ InsertAppended(p) \/ UndoBody(p) \/ BlobBumpRef(p)
        \/ InsertCopy(p) \/ DeleteDoc(p) \/ DecRef(p) \/ DeleteRefRow(p) \/ DeleteBody(p)
        \/ RemoveListedBody(p))
  BY <1>1, Zenon DEF PutBody, BlobAddRef, InsertAppended, UndoBody, BlobBumpRef, InsertCopy, DeleteDoc,
     DecRef, DeleteRefRow, DeleteBody, RemoveListedBody, AfterDrop, Goto
<1>6. ~DbError(p)
  BY <1>1, Zenon DEF DbError, OnError, Goto
<1> QED BY <1>2, <1>3, <1>4, <1>5, <1>6, StepCases, ZenonT(30)

\* Nothing has been deleted at first.
LEMMA LogInit == Init => LogInv
  BY Zenon DEF Init, LogInv, DeleteAtLabel, Deleting

\* Every step keeps the log complete up to what is under way.
LEMMA LogStepP ==
    ASSUME TypeInv, FreshInv, LogInv, NEW p \in Proc, Alone(p), Step(p) \/ DbError(p)
    PROVE  LogInv'
<1>1. DeleteAtLabel'
  BY DeleteAtLabelStep, Zenon DEF LogInv
<1>2. ASSUME ~faulted', NEW pl \in placed' PROVE Accounted(pl)'
  <2>1. Step(p)
    BY <1>2, Zenon DEF DbError
  <2>2. ~faulted
    <3>1. ReferencesKept(p) => faulted' = faulted
      BY Zenon DEF ReferencesKept, StartAppend, StartCopy, StartMove, StartDelete, StartFlags,
         StartDeleteMailbox, Begin, CreateMailbox, NextUID, NextModSeq, AddUsage, SetMailbox,
         RecordExpunge, SubUsage, ReadForFlags, WriteFlags, RemoveMessages, RemoveMailbox
    <3>2. ASSUME \/ PutBody(p) \/ BlobAddRef(p) \/ InsertAppended(p) \/ UndoBody(p)
                 \/ BlobBumpRef(p) \/ InsertCopy(p) \/ DeleteDoc(p) \/ DecRef(p)
                 \/ DeleteRefRow(p) \/ DeleteBody(p) \/ RemoveListedBody(p)
          PROVE  faulted' = faulted
      BY <3>2, Zenon DEF PutBody, BlobAddRef, InsertAppended, InsertDoc, UndoBody, BlobBumpRef, InsertCopy,
         DeleteDoc, DecRef, DeleteRefRow, DeleteBody, RemoveListedBody
    <3> QED BY <1>2, <2>1, <3>1, <3>2, StepCases, Zenon
  <2>3. CASE pl \in placed
    BY <2>1, <2>2, <2>3, AccountedStep, Zenon DEF LogInv, TypeInv, TypeOK
  <2>4. CASE pl \notin placed
    BY <1>2, <2>1, <2>4, NewPlace, Zenon
  <2> QED BY <2>3, <2>4, Zenon
<1> QED BY <1>1, <1>2, Zenon DEF LogInv

-----------------------------------------------------------------------------
(* Reference counts.                                                       *)

\* What is used of finite sets.  It is proved at the end, from FiniteSetTheorems.
Counting ==
    /\ IsFiniteSet({}) /\ Cardinality({}) = 0
    /\ \A n \in Nat : IsFiniteSet(1 .. n)
    /\ \A S : IsFiniteSet(S) => Cardinality(S) \in Nat /\ (Cardinality(S) = 0 => S = {})
    /\ \A S : IsFiniteSet(S) =>
          \A T \in SUBSET S : IsFiniteSet(T) /\ Cardinality(T) <= Cardinality(S)
    /\ \A S, x : IsFiniteSet(S) =>
          IsFiniteSet(S \cup {x}) /\ Cardinality(S \cup {x}) <= Cardinality(S) + 1
    /\ \A S : \A x \in S : IsFiniteSet(S) => Cardinality(S \ {x}) = Cardinality(S) - 1

\* Finitely many operations are in flight, whatever Proc is.
FewBusy == IsFiniteSet({p \in Proc : Busy(p)})

Docs(k) == {i \in OpId : Live(i) /\ msgs[i].blob = k}

\* The body of k is being removed: its count was found at zero or missing.
Dropping(p, k) == pc[p] \in {"r_row", "r_obj"} /\ loc[p].src.blob = k
\* p appends a message with the body k and has stored the body.
Storing(p, k) == pc[p] \in {"a_ref", "a_ins"} /\ loc[p].id = k
Referred(k) == refs[k] # Null /\ refs[k] >= 1

\* The row of a key somebody refers to exists, counts all its referrers, and
\* its body is there; the body goes only when the count allows nobody.
Sound(k) ==
    /\ Docs(k) # {} \/ Holding(k) # {} => refs[k] # Null
    /\ refs[k] # Null => refs[k] >= Cardinality(Docs(k)) + Cardinality(Holding(k))
    /\ \A p \in Proc : Dropping(p, k) => ~Referred(k)
    /\ \A p \in Proc : Storing(p, k) => k \in blobs /\ (pc[p] = "a_ins" => Referred(k))
    /\ ~Unshared(k) /\ Referred(k) => k \in blobs

CountInv == FewBusy /\ \A k \in OpId \ dangling : Sound(k)

\* A set with at most one more element, and a set with one element less.
LEMMA OneMore ==
    ASSUME Counting, NEW S, IsFiniteSet(S), NEW x, NEW T \in SUBSET (S \cup {x})
    PROVE  /\ Cardinality(S) \in Nat /\ Cardinality(T) \in Nat
           /\ Cardinality(T) <= Cardinality(S) + 1
<1>1. IsFiniteSet(S \cup {x}) /\ Cardinality(S \cup {x}) <= Cardinality(S) + 1
  BY Zenon DEF Counting
<1>2. IsFiniteSet(T) /\ Cardinality(T) <= Cardinality(S \cup {x})
  BY <1>1, Zenon DEF Counting
<1>3. /\ Cardinality(S) \in Nat /\ Cardinality(T) \in Nat
      /\ Cardinality(S \cup {x}) \in Nat
  BY <1>1, <1>2, Zenon DEF Counting
<1> QED BY <1>1, <1>2, <1>3

\* Taking a member out of a finite set makes it smaller by one.
LEMMA OneLess ==
    ASSUME Counting, NEW S, IsFiniteSet(S), NEW x \in S
    PROVE  Cardinality(S) \in Nat /\ Cardinality(S \ {x}) = Cardinality(S) - 1
  BY Zenon DEF Counting

\* A part of a finite set is finite and no larger.
LEMMA NoMore ==
    ASSUME Counting, NEW S, IsFiniteSet(S), NEW T \in SUBSET S
    PROVE  /\ IsFiniteSet(T) /\ Cardinality(S) \in Nat /\ Cardinality(T) \in Nat
           /\ Cardinality(T) <= Cardinality(S)
<1>1. IsFiniteSet(T) /\ Cardinality(T) <= Cardinality(S)
  BY Zenon DEF Counting
<1> QED BY <1>1, Zenon DEF Counting

\* A count r of d documents and h holders, when one document becomes a holder, and
\* when a holder and its count go.
LEMMA Balance ==
    \A r \in Int, d, h \in Nat : r >= d + h =>
        /\ \A e : \A g \in Nat : e = d - 1 /\ g <= h + 1 => r >= e + g
        /\ \A g, q : g = h - 1 /\ q = r - 1 => q >= d + g
  OBVIOUS

\* The referrers of a key are finitely many.
LEMMA ReferrersFinite ==
    ASSUME Counting, FewBusy, NEW k \in OpId
    PROVE  /\ IsFiniteSet(Docs(k)) /\ Cardinality(Docs(k)) \in Nat
           /\ IsFiniteSet(Holding(k)) /\ Cardinality(Holding(k)) \in Nat
<1>1. IsFiniteSet(OpId)
  BY ConstantsAssumption, Zenon DEF Counting, OpId
<1>2. Docs(k) \in SUBSET OpId /\ Holding(k) \in SUBSET {p \in Proc : Busy(p)}
  BY Zenon DEF Docs, Holding, Busy
<1> QED BY <1>1, <1>2, NoMore, Zenon DEF FewBusy

\* A step adds at most its own process to those in flight.
LEMMA FewBusyStep == ASSUME Counting, FewBusy, NEW p \in Proc, Alone(p) PROVE FewBusy'
<1>1. {q \in Proc : Busy(q)}' \subseteq {q \in Proc : Busy(q)} \cup {p}
  BY Zenon DEF Alone, Busy
<1>2. IsFiniteSet({q \in Proc : Busy(q)} \cup {p})
  BY Zenon DEF FewBusy, Counting
<1> QED BY <1>1, <1>2, NoMore, Zenon DEF FewBusy

\* What a step must leave alone for the count of k to stay sound.
Calm(p, k) ==
    /\ Docs(k)' \subseteq Docs(k) /\ (Unshared(k) => Unshared(k)')
    /\ p \in Holding(k)' => p \in Holding(k)
    /\ Dropping(p, k)' => Dropping(p, k)
    /\ ~Storing(p, k)'
    /\ refs'[k] = refs[k] /\ (k \in blobs => k \in blobs')

\* A step that is calm about k keeps its count sound.
LEMMA CalmSound ==
    ASSUME Counting, TypeInv, FewBusy, NEW p \in Proc, Alone(p),
           NEW k \in OpId, Sound(k), Calm(p, k)
    PROVE  Sound(k)'
<1>1. Docs(k)' \in SUBSET Docs(k) /\ Holding(k)' \in SUBSET Holding(k)
  BY Zenon DEF Calm, Holding, Alone
<1>2. /\ Cardinality(Docs(k)') \in Nat /\ Cardinality(Docs(k)') <= Cardinality(Docs(k))
      /\ Cardinality(Holding(k)') \in Nat /\ Cardinality(Holding(k)') <= Cardinality(Holding(k))
      /\ Cardinality(Docs(k)) \in Nat /\ Cardinality(Holding(k)) \in Nat
  BY <1>1, ReferrersFinite, NoMore, Zenon
<1>3. Docs(k)' # {} \/ Holding(k)' # {} => refs'[k] # Null
  BY <1>1, Zenon DEF Calm, Sound
<1>4. refs'[k] # Null => refs'[k] >= Cardinality(Docs(k)') + Cardinality(Holding(k)')
  BY <1>2 DEF Calm, Sound, TypeInv, TypeOK
<1>5. \A q \in Proc : Dropping(q, k)' => ~Referred(k)'
  BY Zenon DEF Calm, Sound, Alone, Dropping, Referred
<1>6. \A q \in Proc : Storing(q, k)' => k \in blobs' /\ (pc'[q] = "a_ins" => Referred(k)')
  BY Zenon DEF Calm, Sound, Alone, Storing, Referred
<1>7. ~Unshared(k)' /\ Referred(k)' => k \in blobs'
  BY Zenon DEF Calm, Sound, Referred
<1> QED BY <1>3, <1>4, <1>5, <1>6, <1>7, Zenon DEF Sound

\* A key that no document has, and that nobody has read, has no referrer.
LEMMA UnsharedKey ==
    ASSUME TypeInv, NEW k \in OpId, Unshared(k)
    PROVE  Docs(k) = {} /\ Holding(k) = {} /\ \A q \in Proc : ~Dropping(q, k)
<1>1. \A q \in Proc : pc[q] \in {"c_uid", "c_seq", "c_ins", "r_dec", "r_row", "r_obj"} =>
          Busy(q) /\ loc[q].src # Null
  BY ConstantsAssumption, Zenon DEF TypeInv, LocOK, Busy
<1> QED BY <1>1, Zenon DEF Unshared, Docs, Holding, Dropping

\* A key whose count is at zero or missing has no referrer.
LEMMA UnreferredKey ==
    ASSUME Counting, TypeInv, FewBusy, NEW k \in OpId, Sound(k), ~Referred(k)
    PROVE  Docs(k) = {} /\ Holding(k) = {}
<1>1. /\ Docs(k) # {} => Cardinality(Docs(k)) # 0
      /\ Holding(k) # {} => Cardinality(Holding(k)) # 0
      /\ Cardinality(Docs(k)) \in Nat /\ Cardinality(Holding(k)) \in Nat
  BY ReferrersFinite, Zenon DEF Counting
<1>2. CASE refs[k] = Null
  BY <1>2, Zenon DEF Sound
<1>3. CASE refs[k] # Null
  <2>1. refs[k] \in Int /\ refs[k] < 1
    BY <1>3 DEF Referred, TypeInv, TypeOK
  <2>2. refs[k] >= Cardinality(Docs(k)) + Cardinality(Holding(k))
    BY <1>3, Zenon DEF Sound
  <2>3. Cardinality(Docs(k)) = 0 /\ Cardinality(Holding(k)) = 0
    BY <1>1, <2>1, <2>2
  <2> QED BY <1>1, <2>3, Zenon
<1> QED BY <1>2, <1>3, Zenon

\* A key that p has read is not the number of an operation still appending.
LEMMA ReadNotStoring ==
    ASSUME TypeInv, FreshInv, NEW p \in Proc, Busy(p), loc[p].src # Null
    PROVE  ~Unshared(loc[p].src.blob) /\ \A q \in Proc : ~Storing(q, loc[p].src.blob)
<1>1. ~Unshared(loc[p].src.blob)
  BY Zenon DEF Unshared
<1> QED BY <1>1, Zenon DEF Storing, FreshInv, InsertFresh, Appending

\* p's step leaves counts and bodies alone and takes no reference.
Quiet(p) ==
    /\ refs' = refs /\ blobs' = blobs /\ ~Inserted(p)
    /\ pc'[p] \notin {"a_ref", "a_ins", "r_row", "r_obj"}
    /\ pc'[p] \in {"c_uid", "c_seq", "c_ins", "r_dec"} =>
          pc[p] \in {"c_uid", "c_seq", "c_ins", "r_dec"} /\ loc'[p].src = loc[p].src

\* Such a step is calm about every key.
LEMMA QuietCalm ==
    ASSUME TypeInv, NEW p \in Proc, Flow(p), Quiet(p), NEW k \in OpId
    PROVE  Calm(p, k)
<1>1. Docs(k)' \subseteq Docs(k)
  BY Zenon DEF Flow, DocFlow, Quiet, Inserted, Docs
<1>2. Unshared(k) => Unshared(k)'
  BY UnsharedStep, Zenon DEF Quiet
<1> QED BY <1>1, <1>2, Zenon DEF Calm, Quiet, Holding, Dropping, Storing

\* None of them, and no failed call, touches a reference.
LEMMA ReferencesKeptQuiet ==
    ASSUME TypeInv, NEW p \in Proc, ReferencesKept(p) \/ DbError(p)
    PROVE  Quiet(p)
<1> USE DEF Quiet, TypeInv, TypeOK, Inserted
<1>1. CASE StartAppend(p) \/ StartCopy(p) \/ StartMove(p) \/ StartDelete(p) \/ StartFlags(p)
           \/ StartDeleteMailbox(p)
  BY <1>1, ZenonT(30)
     DEF StartAppend, StartCopy, StartMove, StartDelete, StartFlags, StartDeleteMailbox, Begin
<1>2. CASE NextUID(p, "a_uid", "a_seq", "idle") \/ NextUID(p, "c_uid", "c_seq", "r_dec")
           \/ NextUID(p, "m_uid", "m_seq", "idle")
  BY <1>2 DEF NextUID, Goto, Local
<1>3. CASE NextModSeq(p, "a_seq", "a_put", "idle") \/ NextModSeq(p, "c_seq", "c_ins", "r_dec")
           \/ NextModSeq(p, "m_seq", "m_set", "idle") \/ NextModSeq(p, "d_seq", "d_doc", "idle")
           \/ NextModSeq(p, "f_seq", "f_set", "idle")
  BY <1>3 DEF NextModSeq, Goto, Local
<1>4. CASE AddUsage(p) \/ SetMailbox(p) \/ RecordExpunge(p) \/ SubUsage(p) \/ ReadForFlags(p)
           \/ WriteFlags(p)
  BY <1>4, ZenonT(30) DEF AddUsage, SetMailbox, RecordExpunge, SubUsage, ReadForFlags, WriteFlags, Goto
<1>5. CASE CreateMailbox(p) \/ RemoveMessages(p) \/ RemoveMailbox(p) \/ DbError(p)
  BY <1>5 DEF CreateMailbox, RemoveMessages, RemoveMailbox, DbError, OnError, Goto
<1> QED BY <1>1, <1>2, <1>3, <1>4, <1>5, ZenonT(30) DEF ReferencesKept

\* p's step concerns no key but k.
OnlyKey(p, k) ==
    /\ \A j \in OpId \ {k} : refs'[j] = refs[j] /\ (j \in blobs => j \in blobs')
    /\ pc'[p] \in {"a_ref", "a_ins"} => loc'[p].id = k
    /\ pc'[p] \in {"c_uid", "c_seq", "c_ins", "r_dec", "r_row", "r_obj"} => loc'[p].src.blob = k
    /\ Inserted(p) => k = IF pc[p] = "a_ins" THEN loc[p].id ELSE loc[p].src.blob

\* Such a step is calm about the other keys.
LEMMA OnlyKeyCalm ==
    ASSUME TypeInv, NEW p \in Proc, Flow(p), NEW k \in OpId, OnlyKey(p, k),
           NEW j \in OpId, j # k
    PROVE  Calm(p, j)
<1>1. Docs(j)' \subseteq Docs(j)
  BY Zenon DEF Flow, DocFlow, OnlyKey, Inserted, Docs
<1>2. Unshared(j) => Unshared(j)'
  BY UnsharedStep, Zenon DEF OnlyKey
<1> QED BY <1>1, <1>2, Zenon DEF Calm, OnlyKey, Holding, Dropping, Storing

\* It remains to look at k itself.
LEMMA KeyStep ==
    ASSUME Counting, TypeInv, FreshInv, CountInv, NEW p \in Proc, Flow(p), NEW k \in OpId, OnlyKey(p, k),
           dangling \subseteq dangling', k \notin dangling' => Sound(k)'
    PROVE  CountInv'
<1>0. FewBusy'
  BY FewBusyStep, Zenon DEF CountInv, Flow
<1> SUFFICES ASSUME NEW j \in OpId \ dangling' PROVE Sound(j)'
  BY <1>0, Zenon DEF CountInv
<1>1. CASE j # k
  BY <1>1, OnlyKeyCalm, CalmSound, Zenon DEF CountInv, Flow
<1> QED BY <1>1, Zenon

\* An append in progress is alone with its key.
LEMMA AppendKey ==
    ASSUME TypeInv, FreshInv, NEW p \in Proc, pc[p] \in Appending
    PROVE  /\ loc[p].id \in OpId
           /\ Docs(loc[p].id) = {} /\ Holding(loc[p].id) = {}
           /\ \A q \in Proc : ~Dropping(q, loc[p].id)
           /\ \A q \in Proc \ {p} : ~Storing(q, loc[p].id)
<1>1. loc[p].id \in OpId /\ Busy(p)
  BY Zenon DEF TypeInv, TypeOK, Local, Appending, Busy
<1>2. Unshared(loc[p].id)
  BY Zenon DEF FreshInv, InsertFresh
<1>3. \A q \in Proc \ {p} : ~Storing(q, loc[p].id)
  BY <1>1, Zenon DEF FreshInv, IdsDistinct, Storing, Busy
<1> QED BY <1>1, <1>2, <1>3, UnsharedKey, Zenon

\* An append's steps before its insert leave its key without referrers: what
\* remains to be shown is the state of the row and of the body.
LEMMA AppendStep ==
    ASSUME Counting, TypeInv, FreshInv, CountInv, NEW p \in Proc, Flow(p),
           pc[p] \in Appending, ~Inserted(p), NEW k \in OpId, k = loc[p].id,
           OnlyKey(p, k), dangling' = dangling,
           pc'[p] \notin {"c_uid", "c_seq", "c_ins", "r_dec", "r_row", "r_obj"},
           k \notin dangling /\ refs'[k] # Null => refs'[k] >= 0,
           k \notin dangling /\ Storing(p, k)' =>
               k \in blobs' /\ (pc'[p] = "a_ins" => Referred(k)')
    PROVE  CountInv'
<1>0. /\ Docs(k) = {} /\ Holding(k) = {}
      /\ \A q \in Proc : ~Dropping(q, k)
      /\ \A q \in Proc \ {p} : ~Storing(q, k)
  BY AppendKey, Zenon
<1>1. Docs(k)' = {}
  BY <1>0, Zenon DEF Flow, DocFlow, Inserted, Docs
<1>2. Holding(k)' = {} /\ \A q \in Proc : ~Dropping(q, k)'
  BY <1>0, ZenonT(30) DEF Flow, Alone, Holding, Dropping
<1>3. \A q \in Proc \ {p} : ~Storing(q, k)'
  BY <1>0, Zenon DEF Flow, Alone, Storing
<1>4. Unshared(k)'
  BY <1>0, UnsharedStep, Zenon DEF FreshInv, InsertFresh
<1>5. ASSUME k \notin dangling' PROVE Sound(k)'
  <2>1. Cardinality(Docs(k)') = 0 /\ Cardinality(Holding(k)') = 0
    BY <1>1, <1>2, SMTT(30) DEF Counting
  <2>2. refs'[k] # Null => refs'[k] >= Cardinality(Docs(k)') + Cardinality(Holding(k)')
    BY <1>5, <2>1
  <2> QED BY <1>1, <1>2, <1>3, <1>4, <1>5, <2>2, ZenonT(30) DEF Sound
<1> QED BY <1>5, KeyStep, Zenon

\* putBody stores the body of a message that has no document yet: nothing counts it.
LEMMA PutBodyCount ==
    ASSUME Counting, TypeInv, FreshInv, CountInv, NEW p \in Proc, Flow(p), PutBody(p),
           NEW k \in OpId, k = loc[p].id
    PROVE  CountInv'
<1>1. /\ pc[p] \in Appending /\ ~Inserted(p) /\ OnlyKey(p, k) /\ dangling' = dangling
      /\ pc'[p] = "a_ref" /\ k \in blobs' /\ refs' = refs
  BY Zenon DEF PutBody, Goto, Appending, Inserted, OnlyKey, TypeInv, TypeOK
<1>2. k \notin dangling /\ refs[k] # Null => refs[k] >= 0
  <2>1. Docs(k) = {} /\ Holding(k) = {}
    BY <1>1, AppendKey, SMTT(30)
  <2>2. Cardinality(Docs(k)) + Cardinality(Holding(k)) = 0
    BY <2>1, SMTT(30) DEF Counting
  <2> QED BY <2>2, ZenonT(30) DEF CountInv, Sound
<1> QED BY <1>1, <1>2, AppendStep, Zenon

\* blobAddRef writes the first reference, on behalf of the document to come.
LEMMA BlobAddRefCount ==
    ASSUME Counting, TypeInv, FreshInv, CountInv, NEW p \in Proc, Flow(p), BlobAddRef(p),
           NEW k \in OpId, k = loc[p].id
    PROVE  CountInv'
<1>1. /\ pc[p] \in Appending /\ ~Inserted(p) /\ OnlyKey(p, k) /\ dangling' = dangling
      /\ pc'[p] = "a_ins" /\ blobs' = blobs /\ refs'[k] = 1
  BY Zenon DEF BlobAddRef, Goto, Appending, Inserted, OnlyKey, TypeInv, TypeOK
<1>2. k \notin dangling => k \in blobs
  BY Zenon DEF BlobAddRef, CountInv, Sound, Storing
<1>3. Referred(k)'
  BY <1>1, ConstantsAssumption DEF Referred
<1> QED BY <1>1, <1>2, <1>3, AppendStep, SMTT(30)

\* A failed append takes its body away again; no document has it.
LEMMA UndoBodyCount ==
    ASSUME Counting, TypeInv, FreshInv, CountInv, NEW p \in Proc, Flow(p), UndoBody(p),
           NEW k \in OpId, k = loc[p].id
    PROVE  CountInv'
<1>1. /\ pc[p] \in Appending /\ ~Inserted(p) /\ OnlyKey(p, k) /\ dangling' = dangling
      /\ pc'[p] = "idle" /\ refs' = refs
  BY Zenon DEF UndoBody, Goto, Appending, Inserted, OnlyKey, TypeInv, TypeOK
<1>2. k \notin dangling /\ refs[k] # Null => refs[k] >= 0
  <2>1. Docs(k) = {} /\ Holding(k) = {}
    BY <1>1, AppendKey, Zenon
  <2>2. Cardinality(Docs(k)) + Cardinality(Holding(k)) = 0
    BY <2>1, SMTT(30) DEF Counting
  <2> QED BY <2>2, ZenonT(30) DEF CountInv, Sound
<1> QED BY <1>1, <1>2, AppendStep, Zenon DEF Storing

\* The insert makes the first referrer of a key whose row says 1.
LEMMA InsertAppendedCount ==
    ASSUME Counting, TypeInv, FreshInv, CountInv, NEW p \in Proc, Flow(p), InsertAppended(p),
           NEW k \in OpId, k = loc[p].id
    PROVE  CountInv'
<1>1. /\ pc[p] = "a_ins" /\ pc[p] \in Appending /\ OnlyKey(p, k) /\ dangling' = dangling
      /\ pc'[p] = "a_used" /\ refs' = refs /\ blobs' = blobs
  BY Zenon DEF InsertAppended, InsertDoc, Goto, Appending, Inserted, OnlyKey, TypeInv, TypeOK
<1>2. /\ Docs(k) = {} /\ Holding(k) = {}
      /\ \A q \in Proc : ~Dropping(q, k)
      /\ \A q \in Proc \ {p} : ~Storing(q, k)
  BY <1>1, AppendKey, Zenon
<1>3. Docs(k)' \in SUBSET {k}
  BY <1>2, Zenon DEF Flow, DocFlow, Docs
<1>4. Holding(k)' = {} /\ \A q \in Proc : ~Dropping(q, k)' /\ ~Storing(q, k)'
  <2>1. \A q \in Proc : ~Storing(q, k)'
    BY <1>1, <1>2, ZenonT(30) DEF Flow, Alone, Storing
  <2>2. \A q \in Proc : ~Dropping(q, k)'
    BY <1>1, <1>2, ZenonT(30) DEF Flow, Alone, Dropping
  <2>3. Holding(k)' = {}
    BY <1>1, <1>2, ZenonT(30) DEF Flow, Alone, Holding
  <2> QED BY <2>1, <2>2, <2>3, Zenon
<1>5. ASSUME k \notin dangling PROVE Sound(k)'
  <2>1. k \in blobs /\ refs[k] # Null /\ refs[k] \in Int /\ refs[k] >= 1
    BY <1>1, <1>5, ZenonT(30) DEF CountInv, Sound, Storing, Referred, TypeInv, TypeOK
  <2>2. /\ Cardinality(Docs(k)') \in Nat /\ Cardinality(Docs(k)') <= 1
        /\ Cardinality(Holding(k)') = 0
    <3>1. IsFiniteSet({}) /\ Cardinality({}) = 0 /\ Docs(k)' \in SUBSET ({} \cup {k})
      BY <1>3, Zenon DEF Counting
    <3>2. Cardinality(Docs(k)') \in Nat /\ Cardinality(Docs(k)') <= Cardinality({}) + 1
      BY <3>1, OneMore, Zenon
    <3> QED BY <1>4, <3>1, <3>2
  <2>3. refs'[k] >= Cardinality(Docs(k)') + Cardinality(Holding(k)')
    BY <1>1, <2>1, <2>2
  <2> QED BY <1>1, <1>4, <2>1, <2>3, Zenon DEF Sound
<1> QED BY <1>1, <1>5, KeyStep, Zenon

\* A copy adds itself to a count that is at least 1; at 0 the key is given up.
LEMMA BlobBumpRefCount ==
    ASSUME Counting, TypeInv, FreshInv, CountInv, NEW p \in Proc, Flow(p), BlobBumpRef(p),
           NEW k \in OpId, k = loc[p].src.blob
    PROVE  CountInv'
<1>0. pc[p] = "c_bump" /\ Busy(p) /\ loc[p].src # Null
  BY ConstantsAssumption, Zenon DEF BlobBumpRef, TypeInv, TypeOK, LocOK, Busy
<1>1. OnlyKey(p, k) /\ dangling \subseteq dangling' /\ blobs' = blobs /\ msgs' = msgs
  BY ZenonT(30) DEF BlobBumpRef, Goto, Inserted, OnlyKey, TypeInv, TypeOK
<1>2. ASSUME k \notin dangling', refs[k] = Null PROVE Sound(k)'
  <2>1. pc'[p] = "idle" /\ refs' = refs /\ ~Inserted(p)
    BY <1>2, Zenon DEF BlobBumpRef, Goto, Inserted, TypeInv, TypeOK
  <2>2. Calm(p, k)
    BY <1>1, <2>1, QuietCalm, Zenon DEF Quiet
  <2> QED BY <1>1, <1>2, <2>2, CalmSound, Zenon DEF CountInv, Flow
<1>3. ASSUME k \notin dangling', refs[k] # Null PROVE Sound(k)'
  <2>1. /\ pc'[p] = "c_uid" /\ refs'[k] = refs[k] + 1 /\ ~Inserted(p)
        /\ refs[k] \in Int /\ refs[k] >= 1
    BY <1>3 DEF BlobBumpRef, BumpedRef, Goto, Inserted, TypeInv, TypeOK
  <2>2. Sound(k) /\ Referred(k)
    BY <1>1, <1>3, <2>1, Zenon DEF CountInv, Referred
  <2>3. ~Unshared(k) /\ \A q \in Proc : ~Storing(q, k)
    BY <1>0, ReadNotStoring, Zenon
  <2>4. k \in blobs /\ \A q \in Proc : ~Dropping(q, k)
    BY <2>2, <2>3, Zenon DEF Sound
  <2>5. Docs(k)' = Docs(k) /\ Holding(k)' \in SUBSET (Holding(k) \cup {p})
    BY <1>1, ZenonT(30) DEF Docs, Live, Holding, Flow, Alone
  <2>6. /\ Cardinality(Docs(k)') \in Nat /\ Cardinality(Docs(k)') = Cardinality(Docs(k))
        /\ Cardinality(Holding(k)') \in Nat /\ Cardinality(Holding(k)) \in Nat
        /\ Cardinality(Holding(k)') <= Cardinality(Holding(k)) + 1
    <3>1. IsFiniteSet(Holding(k)) /\ Cardinality(Docs(k)) \in Nat
      BY ReferrersFinite, ZenonT(30) DEF CountInv
    <3> QED BY <2>5, <3>1, OneMore
  <2>7. refs'[k] # Null /\ refs'[k] >= Cardinality(Docs(k)') + Cardinality(Holding(k)')
    <3>1. refs[k] >= Cardinality(Docs(k)) + Cardinality(Holding(k))
      BY <1>3, <2>2, Zenon DEF Sound
    <3> QED BY <2>1, <2>6, <3>1, ConstantsAssumption, SMTT(30)
  <2>8. \A q \in Proc : ~Dropping(q, k)' /\ ~Storing(q, k)'
    BY <2>1, <2>3, <2>4, Zenon DEF Flow, Alone, Dropping, Storing
  <2> QED BY <1>1, <2>4, <2>7, <2>8, ZenonT(30) DEF Sound
<1> QED BY <1>1, <1>2, <1>3, KeyStep, Zenon

\* A copy's reference becomes its document's.
LEMMA InsertCopyCount ==
    ASSUME Counting, TypeInv, FreshInv, CountInv, NEW p \in Proc, Flow(p), InsertCopy(p),
           NEW k \in OpId, k = loc[p].src.blob
    PROVE  CountInv'
<1>0. pc[p] = "c_ins" /\ Busy(p) /\ loc[p].src # Null /\ p \in Holding(k)
  BY ConstantsAssumption, Zenon DEF InsertCopy, TypeInv, TypeOK, LocOK, Busy, Holding
<1>1. /\ OnlyKey(p, k) /\ dangling' = dangling /\ blobs' = blobs /\ refs' = refs
      /\ pc'[p] = "idle"
  BY Zenon DEF InsertCopy, InsertDoc, Goto, Inserted, OnlyKey, TypeInv, TypeOK
<1>2. ASSUME k \notin dangling PROVE Sound(k)'
  <2>1. Sound(k) /\ refs[k] # Null /\ refs[k] \in Int
    BY <1>0, <1>2, Zenon DEF CountInv, Sound, TypeInv, TypeOK
  <2>2. Referred(k)
    BY <1>0, <2>1, UnreferredKey, Zenon DEF CountInv
  <2>3. ~Unshared(k) /\ \A q \in Proc : ~Storing(q, k)
    BY <1>0, ReadNotStoring, Zenon
  <2>4. k \in blobs /\ \A q \in Proc : ~Dropping(q, k)
    BY <2>1, <2>2, <2>3, Zenon DEF Sound
  <2>5. Docs(k)' \in SUBSET (Docs(k) \cup {loc[p].id}) /\ Holding(k)' = Holding(k) \ {p}
    <3>1. Docs(k)' \in SUBSET (Docs(k) \cup {loc[p].id})
      <4> SUFFICES ASSUME NEW i \in OpId, Live(i)', msgs'[i].blob = k, i # loc[p].id
                   PROVE  Live(i) /\ msgs[i].blob = k
        BY Zenon DEF Docs
      <4> QED BY Zenon DEF Flow, DocFlow
    <3>2. Holding(k)' = Holding(k) \ {p}
      BY <1>1, Zenon DEF Holding, Flow, Alone
    <3> QED BY <3>1, <3>2, Zenon
  <2>6. /\ Cardinality(Docs(k)') \in Nat /\ Cardinality(Docs(k)) \in Nat
        /\ Cardinality(Docs(k)') <= Cardinality(Docs(k)) + 1
        /\ Cardinality(Holding(k)) \in Nat /\ Cardinality(Holding(k)') = Cardinality(Holding(k)) - 1
    <3>1. IsFiniteSet(Docs(k)) /\ IsFiniteSet(Holding(k))
      BY ReferrersFinite DEF CountInv
    <3>2. /\ Cardinality(Docs(k)') \in Nat /\ Cardinality(Docs(k)) \in Nat
          /\ Cardinality(Docs(k)') <= Cardinality(Docs(k)) + 1
      BY <2>5, <3>1, OneMore, ZenonT(30)
    <3>3. Cardinality(Holding(k)) \in Nat /\ Cardinality(Holding(k)') = Cardinality(Holding(k)) - 1
      BY <1>0, <2>5, <3>1, OneLess, Zenon
    <3> QED BY <3>2, <3>3
  <2>7. refs'[k] >= Cardinality(Docs(k)') + Cardinality(Holding(k)')
    <3>1. refs[k] >= Cardinality(Docs(k)) + Cardinality(Holding(k))
      BY <2>1, Zenon DEF Sound
    <3> QED BY <1>1, <2>1, <2>6, <3>1, SMTT(30)
  <2>8. \A q \in Proc : ~Dropping(q, k)' /\ ~Storing(q, k)'
    BY <1>1, <2>3, <2>4, Zenon DEF Flow, Alone, Dropping, Storing
  <2> QED BY <1>1, <2>1, <2>4, <2>7, <2>8, ZenonT(30) DEF Sound
<1> QED BY <1>1, <1>2, KeyStep, Zenon

\* A deletion takes over the reference of the document it removes; where the
\* document is gone already, the key is given up.
LEMMA DeleteDocCount ==
    ASSUME Counting, TypeInv, FreshInv, CountInv, NEW p \in Proc, Flow(p), DeleteDoc(p),
           NEW k \in OpId, k = loc[p].src.blob
    PROVE  CountInv'
<1>0. /\ pc[p] = "d_doc" /\ Busy(p) /\ loc[p].src # Null /\ loc[p].msg \in OpId
      /\ loc[p].msg # Null /\ p \notin Holding(k)
  <2>1. pc[p] = "d_doc"
    BY Zenon DEF DeleteDoc
  <2>2. loc[p].src # Null /\ loc[p].msg \in OpId
    BY <2>1, ConstantsAssumption, Zenon DEF TypeInv, LocOK
  <2> QED BY <2>1, <2>2, ConstantsAssumption DEF Busy, Holding, OpId
<1>1. /\ OnlyKey(p, k) /\ dangling \subseteq dangling' /\ blobs' = blobs /\ refs' = refs
      /\ pc'[p] = "r_dec" /\ (~Live(loc[p].msg) => k \in dangling')
  BY Zenon DEF DeleteDoc, Goto, Inserted, OnlyKey, TypeInv, TypeOK
<1>2. ASSUME k \notin dangling' PROVE Sound(k)'
  <2>1. loc[p].msg \in Docs(k)
    BY <1>0, <1>1, <1>2, Zenon DEF FreshInv, BodyKept, Docs
  <2>2. Sound(k) /\ refs[k] # Null /\ refs[k] \in Int
    BY <1>1, <1>2, <2>1, ZenonT(30) DEF CountInv, Sound, TypeInv, TypeOK
  <2>3. Referred(k)
    BY <2>1, <2>2, UnreferredKey, Zenon DEF CountInv
  <2>4. ~Unshared(k) /\ \A q \in Proc : ~Storing(q, k)
    BY <1>0, ReadNotStoring, ZenonT(30)
  <2>5. k \in blobs /\ \A q \in Proc : ~Dropping(q, k)
    BY <2>2, <2>3, <2>4, Zenon DEF Sound
  <2>6. Docs(k)' = Docs(k) \ {loc[p].msg}
    BY <1>0, Zenon DEF DeleteDoc, Docs, Live, TypeInv, TypeOK
  <2>7. Holding(k)' \in SUBSET (Holding(k) \cup {p})
    BY Zenon DEF Holding, Flow, Alone
  <2>8. refs'[k] >= Cardinality(Docs(k)') + Cardinality(Holding(k)')
    <3>1. IsFiniteSet(Docs(k)) /\ IsFiniteSet(Holding(k))
      BY ReferrersFinite, Zenon DEF CountInv
    <3>2. Cardinality(Docs(k)) \in Nat /\ Cardinality(Docs(k)') = Cardinality(Docs(k)) - 1
      BY <2>1, <2>6, <3>1, OneLess, Zenon
    <3>3. /\ Cardinality(Holding(k)') \in Nat /\ Cardinality(Holding(k)) \in Nat
          /\ Cardinality(Holding(k)') <= Cardinality(Holding(k)) + 1
      BY <2>7, <3>1, OneMore, ZenonT(30)
    <3>4. refs[k] >= Cardinality(Docs(k)) + Cardinality(Holding(k))
      BY <2>2, Zenon DEF Sound
    <3>5. refs'[k] = refs[k]
      BY <1>1
    <3>6. refs[k] >= Cardinality(Docs(k)') + Cardinality(Holding(k)')
      BY <2>2, <3>2, <3>3, <3>4, Balance, ZenonT(30)
    <3> QED BY <3>5, <3>6
  <2>9. \A q \in Proc : ~Dropping(q, k)' /\ ~Storing(q, k)'
    BY <1>1, <2>4, <2>5, Zenon DEF Flow, Alone, Dropping, Storing
  <2> QED BY <1>1, <2>2, <2>5, <2>8, <2>9, ZenonT(30) DEF Sound
<1> QED BY <1>1, <1>2, KeyStep, ZenonT(30)

\* The decrement gives up p's own reference; the last one leads to the removal.
LEMMA DecRefCount ==
    ASSUME Counting, TypeInv, FreshInv, CountInv, NEW p \in Proc, Flow(p), DecRef(p),
           NEW k \in OpId, k = loc[p].src.blob
    PROVE  CountInv'
<1>0. pc[p] = "r_dec" /\ Busy(p) /\ loc[p].src # Null /\ p \in Holding(k)
  BY ConstantsAssumption, ZenonT(30) DEF DecRef, TypeInv, TypeOK, LocOK, Busy, Holding
<1>1. /\ OnlyKey(p, k) /\ dangling' = dangling /\ blobs' = blobs /\ msgs' = msgs
      /\ pc'[p] \in {"r_obj", "r_row", "d_log", "idle"}
  BY DEF DecRef, AfterDrop, Goto, Inserted, OnlyKey, TypeInv, TypeOK
<1>2. ASSUME k \notin dangling PROVE Sound(k)'
  <2>1. Sound(k) /\ refs[k] # Null /\ refs[k] \in Int
    BY <1>0, <1>2, Zenon DEF CountInv, Sound, TypeInv, TypeOK
  <2>2. refs'[k] = refs[k] - 1 /\ (pc'[p] \in {"r_obj", "r_row"} => refs'[k] <= 0)
    BY <2>1, ZenonT(30) DEF DecRef, AfterDrop, LastReferrer, Goto, TypeInv, TypeOK
  <2>3. Referred(k)
    BY <1>0, <2>1, UnreferredKey, Zenon DEF CountInv
  <2>4. ~Unshared(k) /\ \A q \in Proc : ~Storing(q, k)
    BY <1>0, ReadNotStoring, ZenonT(30)
  <2>5. k \in blobs /\ \A q \in Proc : ~Dropping(q, k)
    BY <2>1, <2>3, <2>4, Zenon DEF Sound
  <2>6. Docs(k)' = Docs(k) /\ Holding(k)' = Holding(k) \ {p}
    BY <1>1, Zenon DEF Docs, Live, Holding, Flow, Alone
  <2>7. refs'[k] # Null /\ refs'[k] >= Cardinality(Docs(k)') + Cardinality(Holding(k)')
    <3>1. IsFiniteSet(Holding(k)) /\ Cardinality(Docs(k)) \in Nat
      BY ReferrersFinite, ZenonT(30) DEF CountInv
    <3>2. Cardinality(Holding(k)) \in Nat /\ Cardinality(Holding(k)') = Cardinality(Holding(k)) - 1
      BY <1>0, <2>6, <3>1, OneLess, ZenonT(30)
    <3>3. refs[k] >= Cardinality(Docs(k)) + Cardinality(Holding(k))
      BY <2>1, Zenon DEF Sound
    <3>4. refs'[k] \in Int /\ refs'[k] # Null /\ refs'[k] = refs[k] - 1
      BY <2>1, <2>2, ConstantsAssumption
    <3>5. Cardinality(Docs(k)') = Cardinality(Docs(k))
      BY <2>6, Zenon
    <3>6. refs'[k] >= Cardinality(Docs(k)) + Cardinality(Holding(k)')
      BY <2>1, <3>1, <3>2, <3>3, <3>4, Balance, ZenonT(30)
    <3> QED BY <3>4, <3>5, <3>6, ZenonT(30)
  <2>8. \A q \in Proc : Dropping(q, k)' => ~Referred(k)'
    <3>1. \A q \in Proc : Dropping(q, k)' => q = p /\ pc'[p] \in {"r_obj", "r_row"}
      BY <2>5, Zenon DEF Flow, Alone, Dropping
    <3> QED BY <2>1, <2>2, <3>1, SMTT(30) DEF Referred
  <2>9. \A q \in Proc : ~Storing(q, k)'
    BY <1>1, <2>4, Zenon DEF Flow, Alone, Storing
  <2> QED BY <1>1, <2>5, <2>7, <2>8, <2>9, ZenonT(30) DEF Sound
<1> QED BY <1>1, <1>2, KeyStep, ZenonT(30)

\* A body is removed, row first, when nobody refers to it and nobody can.
LEMMA RemovalCount ==
    ASSUME Counting, TypeInv, FreshInv, CountInv, NEW p \in Proc, Flow(p), DeleteRefRow(p) \/ DeleteBody(p),
           NEW k \in OpId, k = loc[p].src.blob
    PROVE  CountInv'
<1>0. pc[p] \in {"r_row", "r_obj"} /\ Busy(p) /\ loc[p].src # Null /\ Dropping(p, k)
  BY ConstantsAssumption, ZenonT(30) DEF DeleteRefRow, DeleteBody, TypeInv, TypeOK, LocOK, Busy, Dropping
<1>1. /\ OnlyKey(p, k) /\ dangling' = dangling /\ msgs' = msgs
      /\ pc'[p] \in {"r_obj", "d_log", "idle"} /\ refs'[k] \in {refs[k], Null}
  BY DEF DeleteRefRow, DeleteBody, AfterDrop, Goto, Inserted, OnlyKey, TypeInv, TypeOK
<1>2. ASSUME k \notin dangling PROVE Sound(k)'
  <2>1. Sound(k) /\ ~Referred(k)
    BY <1>0, <1>2, Zenon DEF CountInv, Sound
  <2>2. Docs(k) = {} /\ Holding(k) = {}
    BY <2>1, UnreferredKey, Zenon DEF CountInv
  <2>3. \A q \in Proc : ~Storing(q, k)
    BY <1>0, ReadNotStoring, Zenon
  <2>4. Docs(k)' = {}
    BY <1>1, <2>2, Zenon DEF Docs, Live
  <2>5. Holding(k)' = {}
    BY <1>1, <2>2, Zenon DEF Holding, Flow, Alone
  <2>6. ~Referred(k)' /\ \A q \in Proc : ~Storing(q, k)'
    BY <1>1, <2>1, <2>3, Zenon DEF Flow, Alone, Storing, Referred
  <2>7. refs'[k] # Null => refs'[k] >= Cardinality(Docs(k)') + Cardinality(Holding(k)')
    BY <1>1, <2>1, <2>2, <2>4, <2>5, Zenon DEF Sound
  <2> QED BY <2>4, <2>5, <2>6, <2>7, Zenon DEF Sound
<1> QED BY <1>1, <1>2, KeyStep, Zenon

\* A folder deletion gives up the keys it removes.
LEMMA RemoveListedBodyCount ==
    ASSUME Counting, TypeInv, FreshInv, CountInv, NEW p \in Proc, Flow(p), RemoveListedBody(p)
    PROVE  CountInv'
<1>1. PICK k \in OpId : k \in dangling' /\ blobs' = blobs \ {k}
  BY Zenon DEF RemoveListedBody, TypeInv, TypeOK, Local
<1>2. dangling \subseteq dangling' /\ OnlyKey(p, k)
  BY <1>1, Zenon DEF RemoveListedBody, OnlyKey, Inserted, TypeInv, TypeOK
<1> QED BY <1>1, <1>2, KeyStep

\* The initial state has no row, no body and no referrer.
LEMMA CountInit == ASSUME Counting PROVE Init => CountInv
<1>0. Init => FewBusy
  <2>1. Init => {p \in Proc : Busy(p)} = {}
    BY Zenon DEF Init, Busy
  <2> QED BY <2>1, Zenon DEF FewBusy, Counting
<1> SUFFICES ASSUME Init, NEW k \in OpId PROVE Sound(k)
  BY <1>0, SMTT(30) DEF CountInv
<1> QED
  BY Zenon DEF Init, Sound, Docs, Holding, Live, Dropping, Storing, Referred

\* Every step keeps the counts sound.
LEMMA CountStepP ==
    ASSUME Counting, TypeInv, FreshInv, CountInv, NEW p \in Proc, Flow(p), Step(p) \/ DbError(p)
    PROVE  CountInv'
<1>1. CASE ReferencesKept(p) \/ DbError(p)
  <2>1. dangling' = dangling
    BY <1>1, Zenon DEF ReferencesKept, StartAppend, StartCopy, StartMove, StartDelete, StartFlags,
       StartDeleteMailbox, Begin, CreateMailbox, NextUID, NextModSeq, AddUsage, SetMailbox,
       RecordExpunge, SubUsage, ReadForFlags, WriteFlags, RemoveMessages, RemoveMailbox, DbError
  <2>2. FewBusy'
    BY FewBusyStep DEF CountInv, Flow
  <2> QED BY <1>1, <2>1, <2>2, ReferencesKeptQuiet, QuietCalm, CalmSound, ZenonT(30) DEF CountInv, Flow
<1>2. CASE PutBody(p) \/ BlobAddRef(p) \/ UndoBody(p) \/ InsertAppended(p)
  <2>1. loc[p].id \in OpId
    BY <1>2, Zenon DEF PutBody, BlobAddRef, UndoBody, InsertAppended, TypeInv, TypeOK, Local
  <2>2. PICK k \in OpId : k = loc[p].id
    BY <2>1
  <2> QED BY <1>2, <2>2, PutBodyCount, BlobAddRefCount, UndoBodyCount, InsertAppendedCount, SMTT(30)
<1>3. CASE BlobBumpRef(p) \/ InsertCopy(p) \/ DeleteDoc(p) \/ BlobDropRef(p)
  <2>1. loc[p].src.blob \in OpId
    BY <1>3, Zenon
       DEF BlobBumpRef, InsertCopy, DeleteDoc, BlobDropRef, DecRef, DeleteRefRow, DeleteBody,
       TypeInv, LocOK, Doc
  <2>2. PICK k \in OpId : k = loc[p].src.blob
    BY <2>1, Zenon
  <2> QED
    BY <1>3, <2>2, BlobBumpRefCount, InsertCopyCount, DeleteDocCount, DecRefCount, RemovalCount, ZenonT(30)
    DEF BlobDropRef
<1>4. CASE RemoveListedBody(p)
  BY <1>4, RemoveListedBodyCount, Zenon
<1> QED
  BY <1>1, <1>2, <1>3, <1>4, SMTT(30)
  DEF ReferencesKept, Step, AppendMessage, CopyMessage, MoveMessage, DeleteMessage, ModifyFlags,
      DeleteMailbox

\* A crash drops references without undoing the counts.
LEMMA CountCrash == ASSUME Counting, TypeInv, CountInv, Crash PROVE CountInv'
<1>0. FewBusy'
  <2>1. {p \in Proc : Busy(p)}' = {}
    BY Zenon DEF Crash, Busy
  <2> QED BY <2>1, Zenon DEF FewBusy, Counting
<1> SUFFICES ASSUME NEW k \in OpId \ dangling' PROVE Sound(k)'
  BY <1>0, Zenon DEF CountInv
<1>1. Sound(k) /\ refs' = refs /\ blobs' = blobs /\ msgs' = msgs
  BY Zenon DEF Crash, CountInv
<1>2. Docs(k)' = Docs(k) /\ Holding(k)' = {} /\ Cardinality(Holding(k)') = 0
  BY <1>1, ZenonT(30) DEF Docs, Live, Holding, Crash, Counting
<1>3. \A q \in Proc : ~Dropping(q, k)' /\ ~Storing(q, k)'
  BY DEF Crash, Dropping, Storing
<1>4. Unshared(k) => Unshared(k)'
  BY DEF Crash, Unshared, Live, Busy
<1>5. refs'[k] # Null => refs'[k] >= Cardinality(Docs(k)') + Cardinality(Holding(k)')
  <2>1. Cardinality(Docs(k)) \in Nat /\ Cardinality(Holding(k)) \in Nat
    BY ReferrersFinite DEF CountInv
  <2> QED BY <1>1, <1>2, <2>1, SMTT(30) DEF Sound, TypeInv, TypeOK
<1> QED BY <1>1, <1>2, <1>3, <1>4, <1>5, ZenonT(30) DEF Sound, Referred

-----------------------------------------------------------------------------
(* The theorems.                                                           *)

BodyInv == TypeInv /\ FreshInv /\ CountInv /\ LogInv

\* The invariant of bodies, counts and the change log holds at first.
LEMMA BodyInit == ASSUME Counting PROVE Init => BodyInv
  BY TypeInit, FreshInit, CountInit, LogInit, Zenon DEF BodyInv

\* Every step keeps it.
LEMMA BodyStep == ASSUME Counting PROVE BodyInv /\ [Next]_vars => BodyInv'
<1> SUFFICES ASSUME BodyInv, [Next]_vars PROVE BodyInv'
  BY Zenon
<1>0. TypeInv'
  BY TypeStep DEF BodyInv
<1>1. CASE Crash
  <2>1. LogInv'
    BY <1>1 DEF LogInv, Crash, DeleteAtLabel, Deleting
  <2> QED BY <1>0, <1>1, <2>1, FreshCrash, CountCrash, ZenonT(30) DEF BodyInv
<1>2. ASSUME NEW p \in Proc, Step(p) \/ DbError(p) PROVE BodyInv'
  <2>1. Flow(p) /\ Alone(p)
    BY <1>2, FlowStep DEF BodyInv, Flow
  <2> QED BY <1>0, <1>2, <2>1, FreshStepP, CountStepP, LogStepP, ZenonT(30) DEF BodyInv
<1>3. CASE UNCHANGED vars
  <2>1. FreshInv'
    BY <1>3, Zenon DEF vars, BodyInv, FreshInv, FutureFresh, IdsDistinct, InsertFresh, BodyKept,
       Unmet, Unshared, Live, Busy
  <2>2. CountInv'
    BY <1>3, Zenon
       DEF vars, BodyInv, CountInv, FewBusy, Sound, Docs, Holding, Dropping, Storing, Referred,
       Unshared,
       Live, Busy
  <2>3. LogInv'
    BY <1>3, Zenon DEF vars, BodyInv, LogInv, DeleteAtLabel, Deleting, Accounted, Leaving, Deleted, Read,
       Live, Place
  <2> QED BY <1>0, <2>1, <2>2, <2>3, Zenon DEF BodyInv
<1> QED BY <1>1, <1>2, <1>3, Zenon DEF Next

\* A key with a referrer has its body.
LEMMA BodyInvPresent == ASSUME Counting PROVE BodyInv => BodyPresent
<1> SUFFICES ASSUME BodyInv, NEW i \in OpId, Live(i), msgs[i].blob \notin dangling
             PROVE  msgs[i].blob \in blobs
  BY Zenon DEF BodyPresent
<1>1. PICK k \in OpId : k = msgs[i].blob
  BY DEF BodyInv, TypeInv, TypeOK, Live, Doc
<1>2. Sound(k) /\ i \in Docs(k) /\ ~Unshared(k)
  BY <1>1, Zenon DEF BodyInv, CountInv, Docs, Unshared
<1>3. Referred(k)
  BY <1>2, UnreferredKey, Zenon DEF BodyInv, CountInv
<1> QED BY <1>1, <1>2, <1>3, Zenon DEF Sound

\* The facts about cardinalities that the lemmas above assume.
LEMMA CountingHolds == Counting
<1>1. IsFiniteSet({}) /\ Cardinality({}) = 0 /\ \A n \in Nat : IsFiniteSet(1 .. n)
  BY FS_EmptySet, FS_Interval
<1>2. ASSUME NEW S, IsFiniteSet(S)
      PROVE  Cardinality(S) \in Nat /\ (Cardinality(S) = 0 => S = {})
  BY <1>2, FS_CardinalityType, FS_EmptySet, Zenon
<1>3. ASSUME NEW S, IsFiniteSet(S), NEW T \in SUBSET S
      PROVE  IsFiniteSet(T) /\ Cardinality(T) <= Cardinality(S)
  BY <1>3, FS_Subset, Zenon
<1>4. ASSUME NEW S, NEW x, IsFiniteSet(S)
      PROVE  IsFiniteSet(S \cup {x}) /\ Cardinality(S \cup {x}) <= Cardinality(S) + 1
  <2>1. Cardinality(S) \in Nat
    BY <1>2, <1>4, Zenon
  <2>2. CASE x \in S
    <3>1. S \cup {x} = S
      BY <2>2, Zenon
    <3>2. IsFiniteSet(S \cup {x}) /\ Cardinality(S \cup {x}) = Cardinality(S)
      BY <1>4, <3>1, Zenon
    <3> QED BY <2>1, <3>2, SMT
  <2>3. CASE x \notin S
    BY <1>4, <2>1, <2>3, FS_AddElement, SMTT(30)
  <2> QED BY <2>2, <2>3, Zenon
<1>5. ASSUME NEW S, NEW x \in S, IsFiniteSet(S)
      PROVE  Cardinality(S \ {x}) = Cardinality(S) - 1
  BY <1>5, FS_RemoveElement, ZenonT(30)
<1> QED BY <1>1, <1>2, <1>3, <1>4, <1>5, ZenonT(30) DEF Counting

\* It holds in every state of every behaviour.
LEMMA BodyInvariant == Spec => []BodyInv
<1>1. Init => BodyInv
  BY BodyInit, CountingHolds, Zenon
<1>2. BodyInv /\ [Next]_vars => BodyInv'
  BY BodyStep, CountingHolds, Zenon
<1> QED BY <1>1, <1>2, PTL DEF Spec

\* The body of every message can be fetched, whatever appends, copies, deletions
\* and folder deletions interleave and wherever they fail, except for the keys
\* the races of blobrefs.go give up (blobDropRef deletes the body only when the
\* count it has decremented says that no referrer is left).
THEOREM BodiesPresent == Spec => []BodyPresent
<1>1. BodyInv => BodyPresent
  BY BodyInvPresent, CountingHolds, Zenon
<1> QED BY <1>1, BodyInvariant, PTL

\* The count of a blob_refs row is never below the documents that share the body
\* plus the copies and drops in flight, outside the same races (blobAddRef,
\* blobBumpRef and blobDropRef).
THEOREM CountsCover == Spec => []RefsCover
<1>1. BodyInv => RefsCover
  <2> SUFFICES ASSUME BodyInv, NEW k \in OpId, refs[k] # Null, k \notin dangling
               PROVE  refs[k] >= Cardinality(Docs(k)) + Cardinality(Holding(k))
    BY Zenon DEF RefsCover, Docs
  <2> QED BY Zenon DEF BodyInv, CountInv, Sound
<1> QED BY <1>1, BodyInvariant, PTL

\* With no operation in flight and no failed call, every UID that left a mailbox
\* is in the expunge log, unless a move was involved or the mailbox itself is
\* gone (DeleteMessage and recordExpunge).
THEOREM DeletionsLogged == Spec => []VanishedIsLogged
<1>1. BodyInv => VanishedIsLogged
  BY Zenon DEF BodyInv, LogInv, Accounted, Leaving, Deleted, VanishedIsLogged
<1> QED BY <1>1, BodyInvariant, PTL
=============================================================================
