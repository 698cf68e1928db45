------------------------------- MODULE Aliases -------------------------------
(***************************************************************************)
(* Recipient resolution: resolveDestinations in internal/store/account.go. *)
(* An address is an account, an alias for a list of addresses, or neither. *)
(***************************************************************************)
EXTENDS Integers, Sequences, Functions

CONSTANTS
    Account,        \* addresses that have an account
    MaxAliasDepth   \* hops an alias chain may take

ASSUME AliasAssumption == MaxAliasDepth \in Nat

\* A loop over the sequence s: op takes what came before and the next element.
InOrder(op(_, _), base, s) ==
    MapThenFoldSet(LAMBDA x, y : op(y, x), base, LAMBDA i : s[i],
                   LAMBDA S : CHOOSE i \in S : \A k \in S : k <= i, DOMAIN s)

\* Destinations, and the visited set that travels with it.
Nowhere == [visited |-> {}, local |-> {}, remote |-> {}]
Empty(d) == d.local = {} /\ d.remote = {}

TooDeep_OneHopLess(depth) == depth >= MaxAliasDepth
TooDeep(depth) == depth > MaxAliasDepth

\* The addresses a search from a may come to.
Known(al, a) == {a} \cup UNION {Range(al[t]) : t \in DOMAIN al}

\* resolveDestinations, al[t] being the destinations of alias t: depth first, each
\* address once.  At depth 0 an unknown address is not deliverable; deeper it is a
\* remote destination.
ResolveDestinations(al, a) ==
    LET Found == [visited : SUBSET Known(al, a), local : SUBSET Known(al, a),
                  remote : SUBSET Known(al, a)]
        visit[b \in Known(al, a), d \in Found, depth \in 0 .. MaxAliasDepth + 1] ==
            IF TooDeep(depth) \/ b \in d.visited
            THEN d
            ELSE LET v == [d EXCEPT !.visited = @ \cup {b}]
                 IN IF b \in Account THEN [v EXCEPT !.local = @ \cup {b}]
                    ELSE IF b \in DOMAIN al
                    THEN InOrder(LAMBDA acc, c : visit[c, acc, depth + 1], v, al[b])
                    ELSE IF depth > 0 THEN [v EXCEPT !.remote = @ \cup {b}] ELSE v
    IN  visit[a, Nowhere, 0]

\* What a chain of at most n hops leads to, whatever the order of the search.
Reachable(al, a, n) ==
    LET leads[b \in Known(al, a), hops \in 0 .. n] ==
            IF b \notin DOMAIN al \/ b \in Account THEN {b}
            ELSE IF hops = 0 THEN {}
            ELSE UNION {leads[al[b][i], hops - 1] : i \in DOMAIN al[b]}
    IN  leads[a, n]
=============================================================================
