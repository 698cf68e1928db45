------------------------------- MODULE Search -------------------------------
(***************************************************************************)
(* Searching a mailbox: IMAP SEARCH over the snapshot of a selected        *)
(* mailbox (internal/imap/search.go), and the query language of the        *)
(* webmail list (internal/webmail/search.go).  Text is the set of the      *)
(* needles it contains, a date the number of its day.                      *)
(***************************************************************************)
EXTENDS Integers, Sequences, SequencesExt, FiniteSetsExt

None == -1   \* no bound, no date

-----------------------------------------------------------------------------
(* IMAP.  A view is the session's snapshot: the messages in UID order, the *)
(* number under which the client knows each (0: it does not), and uidNext. *)
(* A number set is a set of ranges, in which 0 stands for "*"; exists is    *)
(* the count of messages the client was told.                              *)

\* staticRange
Static(r, max) ==
    LET s == [i \in 1 .. 2 |-> IF r[i] = 0 THEN max ELSE r[i]]
    IN IF 0 \in {r[1], r[2]} /\ s[1] > s[2] THEN <<s[2], s[1]>> ELSE s

\* Contains, after staticNumSetLocked.
InSet(set, n, max) == \E r \in set : Static(r, max)[1] <= n /\ n <= Static(r, max)[2]

WithinDate(d, since, before) ==
    (since # None => d >= since) /\ (before # None => d < before)

\* matchBodyCriteria; HEADER, TEXT and BODY each ask for words in their scope.
MatchesBody(m, c) ==
    /\ m.readable
    /\ c.sentSince # None \/ c.sentBefore # None =>
          m.sent # None /\ WithinDate(m.sent, c.sentSince, c.sentBefore)
    /\ c.text \subseteq m.text

\* matches: the message at index i of the view.
RECURSIVE MatchesCriteria(_, _, _)
MatchesCriteria(v, i, c) ==
    LET m == v.msgs[i] IN
    /\ \A s \in c.seq : v.num[i] # 0 /\ InSet(s, v.num[i], Len(v.msgs))
    /\ \A s \in c.uid : InSet(s, m.uid, v.uidNext - 1)
    /\ WithinDate(m.date, c.since, c.before)
    /\ c.flag \subseteq m.flags
    /\ c.notFlag \cap m.flags = {}
    /\ (c.larger # 0 => m.size > c.larger) /\ (c.smaller # 0 => m.size < c.smaller)
    /\ c.modSeq # None => m.modSeq >= c.modSeq
    /\ c.text # {} \/ c.sentSince # None \/ c.sentBefore # None => MatchesBody(m, c)
    /\ \A k \in DOMAIN c.not : ~MatchesCriteria(v, i, c.not[k])
    /\ \A k \in DOMAIN c.or :
          MatchesCriteria(v, i, c.or[k][1]) \/ MatchesCriteria(v, i, c.or[k][2])

\* search: a message the client does not know has no sequence number to report.
Reported(v, kind, hits) == IF kind = "seq" THEN {i \in hits : v.num[i] # 0} ELSE hits

NumberOf(v, kind, i) == IF kind = "seq" THEN v.num[i] ELSE v.msgs[i].uid

SearchData(v, kind, c) ==
    LET hits == {i \in DOMAIN v.msgs : MatchesCriteria(v, i, c)}
        nums == {NumberOf(v, kind, i) : i \in Reported(v, kind, hits)}
    IN [all    |-> nums,
        min    |-> IF nums = {} THEN 0 ELSE Min(nums),
        max    |-> IF nums = {} THEN 0 ELSE Max(nums),
        count  |-> Cardinality(Reported(v, kind, hits)),
        modSeq |-> IF hits = {} THEN 0 ELSE Max({v.msgs[i].modSeq : i \in hits})]

\* What criteria select, by set algebra, "*" being the highest number the client
\* knows or the highest UID there is.
Star(v, kind) == IF kind = "seq" THEN v.exists
                 ELSE IF v.msgs = <<>> THEN 0 ELSE v.msgs[Len(v.msgs)].uid

Between(set, n, top) ==
    \E r \in set : LET ends == {IF r[1] = 0 THEN top ELSE r[1], IF r[2] = 0 THEN top ELSE r[2]}
                   IN Min(ends) <= n /\ n <= Max(ends)

RECURSIVE Selected(_, _)
Selected(v, c) ==
    LET all == DOMAIN v.msgs
        having(P(_)) == {i \in all : P(i)}
        sets == {having(LAMBDA i : v.num[i] # 0 /\ Between(s, v.num[i], Star(v, "seq"))) : s \in c.seq}
           \cup {having(LAMBDA i : Between(s, v.msgs[i].uid, Star(v, "uid"))) : s \in c.uid}
           \cup {having(LAMBDA i : f \in v.msgs[i].flags) : f \in c.flag}
           \cup {having(LAMBDA i : f \notin v.msgs[i].flags) : f \in c.notFlag}
           \cup {having(LAMBDA i : v.msgs[i].readable /\ w \in v.msgs[i].text) : w \in c.text}
           \cup {all \ Selected(v, c.not[k]) : k \in DOMAIN c.not}
           \cup {Selected(v, c.or[k][1]) \cup Selected(v, c.or[k][2]) : k \in DOMAIN c.or}
    IN {i \in all : /\ \A s \in sets : i \in s
                    /\ WithinDate(v.msgs[i].date, c.since, c.before)
                    /\ c.modSeq = None \/ v.msgs[i].modSeq >= c.modSeq
                    /\ c.larger = 0 \/ v.msgs[i].size > c.larger
                    /\ c.smaller = 0 \/ v.msgs[i].size < c.smaller
                    /\ {c.sentSince, c.sentBefore} # {None} =>
                          /\ v.msgs[i].readable /\ v.msgs[i].sent # None
                          /\ WithinDate(v.msgs[i].sent, c.sentSince, c.sentBefore)}

\* Criteria without "*".
RECURSIVE Starless(_)
Starless(c) ==
    /\ \A s \in c.seq \cup c.uid : \A r \in s : 0 \notin {r[1], r[2]}
    /\ \A k \in DOMAIN c.not : Starless(c.not[k])
    /\ \A k \in DOMAIN c.or : Starless(c.or[k][1]) /\ Starless(c.or[k][2])

\* The client knows all messages and no others, and the last one is still there.
Settled(v) ==
    v.exists = Len(v.msgs) /\ v.msgs # <<>> /\ v.msgs[Len(v.msgs)].uid = v.uidNext - 1

-----------------------------------------------------------------------------
(* Webmail.  A token is an operator and a value; the operator is "" for a  *)
(* bare word and the value "" when nothing follows the colon.              *)

Operators == {"from", "to", "subject", "has", "before", "after"}

\* splitOp: anything else is a bare word.
OpOf(tok) == IF tok.op \in Operators /\ tok.val # "" THEN tok.op ELSE ""

AnyQuery == [from |-> {}, to |-> {}, subject |-> {}, has |-> FALSE,
             before |-> None, after |-> None, bare |-> {}]

Bare(q, tok) == [q EXCEPT !.bare = @ \cup {tok}]

\* parseSearchDate: the value of a token that is a date.
IsDate(tok) == tok.day # None

\* ParseSearchQuery, one token: a value that makes no sense turns it into a word.
Add_Drops(q, tok) ==
    CASE OpOf(tok) \in {"from", "to", "subject"} -> [q EXCEPT ![OpOf(tok)] = @ \cup {tok.val}]
      [] OpOf(tok) = "has" /\ tok.val \in {"attachment", "attach"} -> [q EXCEPT !.has = TRUE]
      [] OpOf(tok) \in {"before", "after"} /\ IsDate(tok) -> [q EXCEPT ![OpOf(tok)] = tok.day]
      [] OpOf(tok) = "" -> Bare(q, tok)
      [] OTHER -> q
Add(q, tok) ==
    CASE OpOf(tok) \in {"from", "to", "subject"} -> [q EXCEPT ![OpOf(tok)] = @ \cup {tok.val}]
      [] OpOf(tok) = "has" /\ tok.val \in {"attachment", "attach"} -> [q EXCEPT !.has = TRUE]
      [] OpOf(tok) \in {"before", "after"} /\ IsDate(tok) -> [q EXCEPT ![OpOf(tok)] = tok.day]
      [] OTHER -> Bare(q, tok)

ParseSearchQuery(toks) == FoldLeft(Add, AnyQuery, toks)

\* matches.  Time is in hours; `before' includes its own day.
MatchesQuery(q, m) ==
    /\ q.from \subseteq m.from
    /\ q.subject \subseteq m.subject
    /\ q.to \subseteq m.to
    /\ q.after # None => m.time # None /\ m.time >= q.after * 24
    /\ q.before # None => m.time # None /\ m.time < q.before * 24 + 24
    /\ q.has => m.attachment
    /\ \A w \in q.bare : \E field \in {"subject", "from", "body"} : w.text \in m[field]

\* An operator nobody knows, such as `frm:'.
Mistyped(tok) == tok.op \notin Operators \cup {""}

\* What one token of a query asks for; of several dates the last one counts.
TokenHolds(toks, i, m) ==
    LET tok == toks[i]
        last == \A k \in i + 1 .. Len(toks) : ~(OpOf(toks[k]) = tok.op /\ IsDate(toks[k]))
        word == \E field \in {"subject", "from", "body"} : tok.text \in m[field]
    IN CASE OpOf(tok) \in {"from", "to", "subject"} -> tok.val \in m[tok.op]
         [] OpOf(tok) = "has" /\ tok.val \in {"attachment", "attach"} -> m.attachment
         [] OpOf(tok) = "before" /\ IsDate(tok) -> last => m.time # None /\ m.time \div 24 <= tok.day
         [] OpOf(tok) = "after" /\ IsDate(tok) -> last => m.time # None /\ m.time \div 24 >= tok.day
         [] OTHER -> word
=============================================================================
