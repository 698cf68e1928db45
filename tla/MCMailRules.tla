----------------------------- MODULE MCMailRules -----------------------------
(***************************************************************************)
(* An instance of MailRules for TLC: the scripts, addresses, snapshots and *)
(* queries that are tried.                                                 *)
(***************************************************************************)
EXTENDS MailRules

\* Sieve.  Text is a set of letters written as a string; `matches' accepts all.
Letters(x) == IF x = "ab" THEN {"a", "b"} ELSE {x}
LikeText(v, p, type) == CASE type = "is" -> v = p
                          [] type = "contains" -> Letters(p) \subseteq Letters(v)
                          [] OTHER -> TRUE

Plain(name, strs) == Command(name, <<>>, <<>>, strs, <<>>)
If(t, b) == Command("if", <<t>>, <<>>, <<>>, b)
Basic(name, tags, strs) == Test(name, tags, strs, <<>>, <<>>)
Not(t) == Test("not", {}, <<>>, <<>>, <<t>>)

FromA == Basic("header", {"contains"}, <<"From", "a">>)
BasicTests ==
    {Basic("true", {}, <<>>), Basic("false", {}, <<>>), FromA,
     Basic("header", {}, <<"From", "a", "b">>), Basic("header", {"matches"}, <<"To", "b">>),
     Basic("header", {}, <<"From">>), Basic("address", {"is"}, <<"From", "a">>),
     Basic("exists", {}, <<"From", "To">>), Basic("envelope", {"is"}, <<"From", "a">>),
     Test("size", {"over"}, <<>>, <<1>>, <<>>), Test("size", {"under"}, <<>>, <<1>>, <<>>)}
Tests == BasicTests \cup {Not(t) : t \in BasicTests}
           \cup {Test(n, {}, <<>>, <<>>, <<t, u>>) : n \in {"allof", "anyof"}, t \in BasicTests, u \in {FromA, Not(FromA)}}

Leaf == {Plain("keep", <<>>), Plain("discard", <<>>), Plain("stop", <<>>), Plain("fileinto", <<"A">>)}
Blocks == {<<>>} \cup {<<c>> : c \in Leaf} \cup {<<c, d>> : c, d \in Leaf}
Odd == {Plain("require", <<"x", "y", "z">>), Command("else", <<>>, <<>>, <<>>, <<Plain("discard", <<>>)>>),
        Command("elsif", <<FromA>>, <<>>, <<>>, <<Plain("discard", <<>>)>>),
        Command("fileinto", <<>>, <<Tok("tag", "copy"), Tok("str", "A")>>, <<>>, <<>>)}
Commands == Leaf \cup {If(t, b) : t \in {FromA, Not(FromA)}, b \in Blocks}
MCPrograms ==
    {<<>>} \cup {<<c, d>> : c \in Commands, d \in Commands \cup Odd}
      \cup {<<If(t, <<If(u, b), d>>), e>> : t, u \in {FromA, Not(FromA)}, b \in Blocks, d, e \in Leaf}
      \cup {<<If(t, <<Plain("discard", <<>>)>>)>> : t \in Tests}

Value(x, addrs) == [text |-> x, addrs |-> addrs]
MCMessages ==
    {[headers |-> [h \in {"From"} |-> {Value("ab", {"a"})}], size |-> 2],
     [headers |-> [h \in {"From", "To"} |-> {Value("b", {})}], size |-> 0]}

\* SRS.  Days before, at and after the wrap of the stamp; delays around the limit.
MCHomes == {Address(<<"u">>, "d"), Address(<<"u", "tag">>, "d"), Address(<<"SRS0", "x">>, "d")}
MCSenders == MCHomes \cup {Address(<<"u">>, "elsewhere")}
MCTimes == {d * 24 + h : d \in {0, 1, 1022, 1023, 1024, 2047, 20000}, h \in {0, 13, 23}}
MCDelays == {0, 1, 11, 23, 24} \cup {20 * 24 + h : h \in {-1, 0, 1, 23, 24, 25, 48, 49}} \cup {1000 * 24, 1022 * 24}

\* IMAP.  Messages 1 .. n of UIDs up to 3, of which the client knows those
\* numbered, out of the ones it was told of.
Mail(u) == [uid |-> u, date |-> u, sent |-> IF u = 2 THEN None ELSE u, flags |-> IF u = 2 THEN {"seen"} ELSE {},
            size |-> u, modSeq |-> 10 - u, readable |-> u # 3,
            text |-> IF u = 1 THEN {"a", "b"} ELSE {"a"}]
Uids == {<<>>, <<1>>, <<2>>, <<1, 2>>, <<1, 3>>, <<2, 3>>, <<1, 2, 3>>}
Numberings(n, ex) ==
    {f \in [1 .. n -> 0 .. ex] : \A i, j \in 1 .. n : i < j => f[j] = 0 \/ (f[i] # 0 /\ f[i] < f[j])}
MCViews == UNION {UNION {{[msgs |-> [i \in DOMAIN us |-> Mail(us[i])], num |-> f, uidNext |-> 4, exists |-> ex]
                            : f \in Numberings(Len(us), ex)} : ex \in 0 .. 3} : us \in Uids}

Always == [seq |-> {}, uid |-> {}, since |-> None, before |-> None, sentSince |-> None, sentBefore |-> None,
        flag |-> {}, notFlag |-> {}, larger |-> 0, smaller |-> 0, modSeq |-> None, text |-> {},
        not |-> <<>>, or |-> <<>>]
NumSets == {{<<1, 1>>}, {<<1, 2>>}, {<<1, 1>>, <<3, 3>>}, {<<2, 0>>}, {<<4, 0>>}, {<<0, 0>>}}
Keys == {[Always EXCEPT !.seq = {s}] : s \in NumSets} \cup {[Always EXCEPT !.uid = {s}] : s \in NumSets}
   \cup {Always, [Always EXCEPT !.since = 2], [Always EXCEPT !.before = 2], [Always EXCEPT !.sentSince = 1],
         [Always EXCEPT !.sentBefore = 3], [Always EXCEPT !.flag = {"seen"}], [Always EXCEPT !.notFlag = {"seen"}],
         [Always EXCEPT !.larger = 1], [Always EXCEPT !.smaller = 3], [Always EXCEPT !.modSeq = 8],
         [Always EXCEPT !.text = {"b"}]}
MCCriteria == Keys \cup {[Always EXCEPT !.not = <<k>>] : k \in Keys}
   \cup {[Always EXCEPT !.or = <<<<k, l>>>>] : k, l \in Keys}
   \cup {[k EXCEPT !.not = <<[Always EXCEPT !.or = <<<<k, l>>>>]>>] : k, l \in Keys}

\* Webmail.
Token(op, val, day, text) == [op |-> op, val |-> val, day |-> day, text |-> text]
Tokens == {Token("from", "a", None, "from:a"), Token("to", "a", None, "to:a"), Token("subject", "a", None, "subject:a"),
           Token("has", "attachment", None, "has:attachment"), Token("has", "b", None, "has:b"),
           Token("before", "d1", 1, "before:d1"), Token("before", "d2", 2, "before:d2"), Token("before", "b", None, "before:b"),
           Token("after", "d1", 1, "after:d1"), Token("after", "d2", 2, "after:d2"), Token("after", "b", None, "after:b"),
           Token("from", "", None, "from:"), Token("frm", "a", None, "frm:a"), Token("", "b", None, "b")}
MCQueries == {<<>>} \cup {<<t>> : t \in Tokens} \cup {<<t, u>> : t, u \in Tokens} \cup {<<t, u, w>> : t, u, w \in Tokens}
MCListed == {[from |-> f, to |-> {"a"}, subject |-> s, body |-> b, attachment |-> s # {}, time |-> t] :
                f \in {{}, {"a"}}, s \in {{}, {"a", "has:b"}}, b \in {{}, {"b", "from:"}}, t \in {None, 24, 48, 71}}
=============================================================================
