------------------------------ MODULE MailRules ------------------------------
(***************************************************************************)
(* The pure algorithms of the server, run on one input each: a Sieve       *)
(* script on a message (Sieve), a rewritten sender address on its way out  *)
(* and back (Srs), and searches (Search).                                  *)
(***************************************************************************)
EXTENDS Sieve, Srs, Search

CONSTANTS
    Programs, Messages,            \* scripts, and messages they filter
    Senders, Times, Delays,        \* addresses, and when they leave and come back
    Homes,                         \* addresses ResolveDestinations finds an account or alias for
    Views, Criteria,               \* snapshots of a mailbox, and searches in it
    Queries, Listed                \* queries of the webmail list, and messages in it

VARIABLES input, done, out

vars == <<input, done, out>>

\* A script may have a closing brace too many, anywhere.
WithBrace(toks, p) ==
    IF p = 0 THEN toks ELSE SubSeq(toks, 1, p - 1) \o <<Mark("}")>> \o SubSeq(toks, p, Len(toks))

Init ==
    /\ done = FALSE /\ out = <<>>
    /\ \/ \E cmds \in Programs, m \in Messages : \E p \in 0 .. Len(Render(cmds)) + 1 :
             input = [of |-> "sieve", brace |-> p, toks |-> WithBrace(Render(cmds), p), msg |-> m]
       \/ \E a \in Senders, t \in Times, d \in Delays, n \in 1 .. 2, on \in BOOLEAN :
             input = [of |-> "srs", sender |-> a, sent |-> t, back |-> t + d, hops |-> n, forwarding |-> on]
       \/ \E v \in Views, c \in Criteria, k \in {"seq", "uid"} :
             input = [of |-> "imap", view |-> v, criteria |-> c, kind |-> k]
       \/ \E q \in Queries, m \in Listed : input = [of |-> "web", toks |-> q, msg |-> m]

\* sieveDecide: Parse, then Eval; a script that does not parse is ignored.
RunScript ==
    /\ input.of = "sieve" /\ ~done /\ done' = TRUE
    /\ LET p == Parse(input.toks)
       IN out' = [parse |-> p,
                  actions |-> IF p.ok THEN Eval(input.msg, p.val) ELSE <<>>]
    /\ UNCHANGED input

\* decodeIfSRS: an address that cannot be decoded stays as it is.
DecodeIfSrs(to) ==
    LET orig == Decode(to, input.back)
    IN IF input.forwarding /\ Is(to) /\ orig \notin {NotSrs, SrsError} THEN orig ELSE to

\* Rcpt of a bounce: it is decoded once, and what comes out must have a home here.
Refused == Address(<<>>, "550")
Rcpt(to) == IF DecodeIfSrs(to) \in Homes THEN DecodeIfSrs(to) ELSE Refused

\* A message is forwarded, at the second hop with the sender the first one made,
\* and bounces; forwarding may have been switched off by then.
ForwardAndBounce ==
    LET hop(a) == Encode(a, input.sent)
    IN /\ input.of = "srs" /\ ~done /\ done' = TRUE
       /\ out' = Rcpt(IF input.hops = 1 THEN hop(input.sender) ELSE hop(hop(input.sender)))
       /\ UNCHANGED input

SearchMailbox ==
    /\ input.of = "imap" /\ ~done /\ done' = TRUE
    /\ out' = SearchData(input.view, input.kind, input.criteria)
    /\ UNCHANGED input

\* handleListMessages, for one message.
ListMessage ==
    /\ input.of = "web" /\ ~done /\ done' = TRUE
    /\ out' = MatchesQuery(ParseSearchQuery(input.toks), input.msg)
    /\ UNCHANGED input

Next == RunScript \/ ForwardAndBounce \/ SearchMailbox \/ ListMessage

Spec == Init /\ [][Next]_vars

Ran(of) == done /\ input.of = of

-----------------------------------------------------------------------------
(* Properties.                                                             *)


\* A bounce reaches the sender or is refused, never anybody else.  One that was
\* forwarded once, by a sender with a home here, returns to them for as long as it
\* may, less the day the stamp is rounded down by, and not after, across the wrap
\* of the day stamp and whatever "=" the local part has (Encode, Decode, Rcpt).
SrsReturnsToSender ==
    Ran("srs") =>
        LET age == input.back - input.sent IN
        /\ out \in {input.sender, Refused}
        /\ /\ input.forwarding /\ input.hops = 1 /\ input.sender \in Homes
           /\ age <= MaxAge - Day
           => out = input.sender
        /\ age > MaxAge => out = Refused

\* A search reports the messages its criteria select and no others, with their
\* count and bounds; "*" is read as the client means it when nothing is waiting
\* to be announced and the last message has not been expunged.  A webmail query
\* lists no message that a token of it rules out, and lists each one that all of
\* its tokens hold for; a known operator with no sensible value is a word to look
\* for.  A mistyped operator may only narrow the list (ParseSearchQuery, matches).
SearchFindsExactly ==
    /\ Ran("imap") =>
         LET v == input.view
             sel == Selected(v, input.criteria)
             nums == {NumberOf(v, input.kind, i) :
                         i \in {j \in sel : input.kind = "seq" => v.num[j] # 0}}
         IN Starless(input.criteria) \/ Settled(v) =>
              /\ out.all = nums /\ out.count = Cardinality(nums)
              /\ nums # {} => out.min = Min(nums) /\ out.max = Max(nums)
              /\ \A i \in sel : v.msgs[i].modSeq <= out.modSeq
    /\ Ran("web") =>
         LET plain == {i \in DOMAIN input.toks : ~Mistyped(input.toks[i])}
             holds == \A i \in plain : TokenHolds(input.toks, i, input.msg)
         IN (out => holds) /\ (plain = DOMAIN input.toks /\ holds => out)
=============================================================================
