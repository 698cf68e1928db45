-------------------------------- MODULE Sieve --------------------------------
(***************************************************************************)
(* The Sieve interpreter, internal/sieve/sieve.go: the parser over tokens, *)
(* and the evaluator.                                                      *)
(*                                                                         *)
(* A token is a record of a kind and a value.  A command has a name, the   *)
(* test of an if or elsif, its arguments and a block; a test has a name,   *)
(* tags, strings, numbers and subtests.  Text is compared by the relation  *)
(* Like.                                                                   *)
(***************************************************************************)
EXTENDS Integers, Sequences, SequencesExt, FiniteSets

CONSTANT Like(_, _, _)   \* Like(value, pattern, tag): matchString

Tok(k, v) == [k |-> k, v |-> v]
Mark(k) == Tok(k, "")
Peek(t, i) == IF i <= Len(t) THEN t[i] ELSE Mark("eof")

\* The tags of a command take the string that follows them: args are tokens.
Command(name, tests, args, strings, block) ==
    [name |-> name, tests |-> tests, args |-> args, strings |-> strings, block |-> block]

Test(name, tags, strings, numbers, tests) ==
    [name |-> name, tags |-> tags, strings |-> strings, numbers |-> numbers, tests |-> tests]

\* A parse either fails or gives a value and the position after it.
Bad == [ok |-> FALSE, val |-> <<>>, pos |-> 0]
Good(val, pos) == [ok |-> TRUE, val |-> val, pos |-> pos]

-----------------------------------------------------------------------------
(* The parser.                                                             *)

\* parseStringList, after its opening bracket; commas may be left out.
RECURSIVE StringList(_, _)
StringList(t, i) ==
    CASE Peek(t, i).k = "]" -> Good(<<>>, i + 1)
      [] Peek(t, i).k = "str" ->
            LET l == StringList(t, IF Peek(t, i + 1).k = "," THEN i + 2 ELSE i + 1)
            IN IF ~l.ok THEN Bad ELSE Good(<<t[i].v>> \o l.val, l.pos)
      [] OTHER -> Bad

\* The arguments of a test: tags, strings, numbers and lists in any order, up to
\* the first token that is none of them.
RECURSIVE TestArgs(_, _, _)
TestArgs(t, i, tst) ==
    LET x == Peek(t, i) IN
    CASE x.k = "tag" -> TestArgs(t, i + 1, [tst EXCEPT !.tags = @ \cup {x.v}])
      [] x.k = "str" -> TestArgs(t, i + 1, [tst EXCEPT !.strings = Append(@, x.v)])
      [] x.k = "num" -> TestArgs(t, i + 1, [tst EXCEPT !.numbers = Append(@, x.v)])
      [] x.k = "[" -> LET l == StringList(t, i + 1) IN
                      IF ~l.ok THEN Bad
                      ELSE TestArgs(t, l.pos, [tst EXCEPT !.strings = @ \o l.val])
      [] OTHER -> Good(tst, i)

RECURSIVE ParseTest(_, _)
RECURSIVE TestList(_, _)
ParseTest(t, i) ==
    LET x == Peek(t, i) IN
    IF x.k # "ident" THEN Bad
    ELSE CASE x.v \in {"allof", "anyof"} ->
                IF Peek(t, i + 1).k # "(" THEN Bad
                ELSE LET l == TestList(t, i + 2) IN
                     IF ~l.ok \/ Peek(t, l.pos).k # ")" THEN Bad
                     ELSE Good(Test(x.v, {}, <<>>, <<>>, l.val), l.pos + 1)
           [] x.v = "not" ->
                LET u == ParseTest(t, i + 1) IN
                IF ~u.ok THEN Bad ELSE Good(Test("not", {}, <<>>, <<>>, <<u.val>>), u.pos)
           [] x.v \in {"true", "false"} -> Good(Test(x.v, {}, <<>>, <<>>, <<>>), i + 1)
           [] OTHER -> TestArgs(t, i + 1, Test(x.v, {}, <<>>, <<>>, <<>>))

\* Tests separated by commas.
TestList(t, i) ==
    LET u == ParseTest(t, i) IN
    IF ~u.ok THEN Bad
    ELSE IF Peek(t, u.pos).k # "," THEN Good(<<u.val>>, u.pos)
    ELSE LET l == TestList(t, u.pos + 1) IN
         IF ~l.ok THEN Bad ELSE Good(<<u.val>> \o l.val, l.pos)

RECURSIVE CommandArgs(_, _, _)
RECURSIVE ParseBlock(_, _)

\* After the name, and the test of an if: arguments up to a semicolon or a block.
CommandArgs(t, i, c) ==
    LET x == Peek(t, i) IN
    CASE x.k = "tag" -> LET n == IF Peek(t, i + 1).k = "str" THEN 2 ELSE 1 IN
                        CommandArgs(t, i + n, [c EXCEPT !.args = @ \o SubSeq(t, i, i + n - 1)])
      [] x.k = "str" -> CommandArgs(t, i + 1, [c EXCEPT !.strings = Append(@, x.v)])
      [] x.k = "num" -> CommandArgs(t, i + 1, [c EXCEPT !.args = Append(@, x)])
      [] x.k = "[" -> LET l == StringList(t, i + 1) IN
                      IF ~l.ok THEN Bad
                      ELSE CommandArgs(t, l.pos, [c EXCEPT !.strings = @ \o l.val])
      [] x.k = ";" -> Good(c, i + 1)
      [] x.k = "{" -> LET b == ParseBlock(t, i + 1) IN
                      IF ~b.ok \/ Peek(t, b.pos).k # "}" THEN Bad
                      ELSE Good([c EXCEPT !.block = b.val], b.pos + 1)
      [] OTHER -> Bad

ParseCommand(t, i) ==
    LET x == Peek(t, i) IN
    IF x.k # "ident" THEN Bad
    ELSE IF x.v \notin {"if", "elsif"} THEN CommandArgs(t, i + 1, Command(x.v, <<>>, <<>>, <<>>, <<>>))
    ELSE LET u == ParseTest(t, i + 1) IN
         IF ~u.ok THEN Bad ELSE CommandArgs(t, u.pos, Command(x.v, <<u.val>>, <<>>, <<>>, <<>>))

\* Commands up to the end or a closing brace, at the top level too.
ParseBlock(t, i) ==
    IF Peek(t, i).k \in {"eof", "}"} THEN Good(<<>>, i)
    ELSE LET c == ParseCommand(t, i) IN
         IF ~c.ok THEN Bad
         ELSE LET b == ParseBlock(t, c.pos) IN
              IF ~b.ok THEN Bad ELSE Good(<<c.val>> \o b.val, b.pos)

\* Parse; what follows the block is not looked at.
Parse(t) == ParseBlock(t, 1)

-----------------------------------------------------------------------------
(* The evaluator.  A message is a function from header names to sets of    *)
(* values, with a size; a value is its text and the addresses parsed       *)
(* from it.                                                                *)

MatchType(tags) == IF "contains" \in tags THEN "contains"
                   ELSE IF "matches" \in tags THEN "matches" ELSE "is"

\* What of a value is compared: its text, or the addresses in it.
Texts(tst, v) == IF tst.name = "header" THEN {v.text} ELSE v.addrs

\* matchAnyHeaderValue, matchAnyAddress: the first string is the field, the
\* others are patterns.
Hit(m, tst) ==
    /\ Len(tst.strings) >= 2 /\ tst.strings[1] \in DOMAIN m.headers
    /\ \E v \in m.headers[tst.strings[1]] : \E x \in Texts(tst, v) :
          \E i \in 2 .. Len(tst.strings) : Like(x, tst.strings[i], MatchType(tst.tags))

RECURSIVE EvalTest(_, _)
EvalTest(m, tst) ==
    CASE tst.name = "true" -> TRUE
      [] tst.name = "allof" -> \A i \in DOMAIN tst.tests : EvalTest(m, tst.tests[i])
      [] tst.name = "anyof" -> \E i \in DOMAIN tst.tests : EvalTest(m, tst.tests[i])
      [] tst.name = "not" -> ~EvalTest(m, tst.tests[1])
      [] tst.name = "exists" -> ToSet(tst.strings) \subseteq DOMAIN m.headers
      [] tst.name = "size" -> /\ tst.numbers # <<>>
                              /\ IF "over" \in tst.tags THEN m.size > tst.numbers[1]
                                 ELSE "under" \in tst.tags /\ m.size < tst.numbers[1]
      [] tst.name \in {"header", "address"} -> Hit(m, tst)
      [] OTHER -> FALSE

Action(what, folder) == [what |-> what, folder |-> folder]

\* evalCtx: what was decided so far, and whether to go on.
Start == [actions |-> <<>>, decided |-> FALSE, stop |-> FALSE]

Decide(ctx, a) == [ctx EXCEPT !.actions = Append(@, a), !.decided = TRUE]

RECURSIVE Run(_, _, _)

\* runOne.
RunOne(m, ctx, c) ==
    CASE c.name = "if" -> IF EvalTest(m, c.tests[1]) THEN Run(m, ctx, c.block) ELSE ctx
      [] c.name \in {"keep", "discard"} -> Decide(ctx, Action(c.name, ""))
      [] c.name = "fileinto" /\ c.strings # <<>> -> Decide(ctx, Action("fileinto", c.strings[1]))
      [] c.name = "stop" -> [ctx EXCEPT !.stop = TRUE]
      [] OTHER -> ctx   \* require, a free-standing elsif or else, the unknown

Run(m, ctx, cmds) == FoldLeft(LAMBDA x, c : IF x.stop THEN x ELSE RunOne(m, x, c), ctx, cmds)

\* Eval: a script that decides nothing keeps the message.
Eval(m, cmds) ==
    LET ctx == Run(m, Start, cmds) IN
    IF ctx.decided THEN ctx.actions ELSE Append(ctx.actions, Action("keep", ""))

-----------------------------------------------------------------------------
(* What scripts mean, to compare with.                                     *)

\* All strings but the first as a list, when there are more than two.
RenderStrings(s) ==
    LET strs == [i \in DOMAIN s |-> Tok("str", s[i])]
    IN IF Len(s) <= 2 THEN strs
       ELSE <<strs[1], Mark("["), strs[2]>> \o
            FlattenSeq([i \in 1 .. Len(s) - 2 |-> <<Mark(","), strs[i + 2]>>]) \o <<Mark("]")>>

RECURSIVE RenderTest(_)
RenderTest(tst) ==
    <<Tok("ident", tst.name)>> \o
    (IF tst.name \in {"allof", "anyof"}
     THEN <<Mark("(")>> \o
          FlattenSeq([i \in DOMAIN tst.tests |->
              (IF i > 1 THEN <<Mark(",")>> ELSE <<>>) \o RenderTest(tst.tests[i])]) \o <<Mark(")")>>
     ELSE FlattenSeq([i \in DOMAIN tst.tests |-> RenderTest(tst.tests[i])])) \o
    [i \in 1 .. Cardinality(tst.tags) |-> Tok("tag", SetToSeq(tst.tags)[i])] \o
    RenderStrings(tst.strings) \o
    [i \in DOMAIN tst.numbers |-> Tok("num", tst.numbers[i])]

\* The tokens of a script.
RECURSIVE Render(_)
Render(cmds) ==
    FlattenSeq([i \in DOMAIN cmds |->
        LET c == cmds[i] IN
        <<Tok("ident", c.name)>> \o
        FlattenSeq([k \in DOMAIN c.tests |-> RenderTest(c.tests[k])]) \o
        c.args \o RenderStrings(c.strings) \o
        (IF c.name \in {"if", "elsif", "else"}
         THEN <<Mark("{")>> \o Render(c.block) \o <<Mark("}")>> ELSE <<Mark(";")>>)])

\* The plain commands of a script, each with the tests around it.
RECURSIVE Leaves(_, _)
Leaves(cmds, tests) ==
    FlattenSeq([i \in DOMAIN cmds |->
        CASE cmds[i].name = "if" -> Leaves(cmds[i].block, tests \cup ToSet(cmds[i].tests))
          [] cmds[i].name \in {"elsif", "else"} -> <<>>
          [] OTHER -> <<[tests |-> tests, cmd |-> cmds[i]]>>])

\* A plain command takes effect when all tests around it hold and no stop has
\* taken effect before it.
Effective(m, leaves) ==
    {i \in DOMAIN leaves :
        /\ \A u \in leaves[i].tests : EvalTest(m, u)
        /\ \A k \in 1 .. i - 1 :
              leaves[k].cmd.name = "stop" => \E u \in leaves[k].tests : ~EvalTest(m, u)}

Taken(m, leaves) ==
    FlattenSeq([i \in DOMAIN leaves |->
        LET c == leaves[i].cmd IN
        IF i \notin Effective(m, leaves) THEN <<>>
        ELSE CASE c.name \in {"keep", "discard"} -> <<Action(c.name, "")>>
               [] c.name = "fileinto" /\ c.strings # <<>> -> <<Action("fileinto", c.strings[1])>>
               [] OTHER -> <<>>])

\* What a script should do with a message.
Wanted(m, cmds) ==
    LET taken == Taken(m, Leaves(cmds, {}))
    IN IF taken = <<>> THEN <<Action("keep", "")>> ELSE taken

\* The tokens before the first closing brace that closes nothing.
Depth(t, n) == Len(SelectSeq(SubSeq(t, 1, n), LAMBDA x : x.k = "{"))
               - Len(SelectSeq(SubSeq(t, 1, n), LAMBDA x : x.k = "}"))

UpToStray(t) ==
    LET strays == {n \in DOMAIN t : Depth(t, n) < 0}
    IN IF strays = {} THEN t
       ELSE SubSeq(t, 1, (CHOOSE n \in strays : \A k \in strays : n <= k) - 1)
=============================================================================
