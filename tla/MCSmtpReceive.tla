--------------------------- MODULE MCSmtpReceive ---------------------------
(***************************************************************************)
(* Instances of SmtpReceive for TLC.                                       *)
(***************************************************************************)
EXTENDS SmtpReceive

CONSTANTS m1, m2, u1, u2, team, ring, x, s, nobody

\* Loop: two aliases that lead to each other, to both users and to a remote address.
\* Chain: an alias of an alias, with forwarding switched off.
Loop == [t \in {team, ring} |-> IF t = team THEN <<ring, u2, x>> ELSE <<team, u1>>]
Chain == [t \in {team, ring} |-> IF t = team THEN <<ring, u2>> ELSE <<u1, x>>]
NoScript == [a \in {u1, u2} |-> <<>>]
FileThen(act) == [a \in {u1, u2} |->
    IF a = u1 THEN <<>> ELSE <<[act |-> "fileinto", folder |-> "Lists"], [act |-> act]>>]

MCConfigs == {[alias |-> Loop, script |-> FileThen("keep"), forwarding |-> TRUE],
              [alias |-> Loop, script |-> FileThen("discard"), forwarding |-> TRUE],
              [alias |-> Chain, script |-> NoScript, forwarding |-> FALSE]}

Plain(from, rcpts) == [from |-> from, rcpts |-> rcpts, listed |-> FALSE, dmarc |-> "accept",
                       virus |-> FALSE, auto |-> FALSE]
MCInputs == [m \in {m1, m2} |->
    IF m = m1 THEN {Plain(s, {team, u1})}
    ELSE {Plain(s, {u1, nobody}), Plain(Null, {u1}),
          [Plain(s, {u1}) EXCEPT !.dmarc = "quarantine"],
          [Plain(s, {u2}) EXCEPT !.dmarc = "reject"],
          [Plain(s, {u2}) EXCEPT !.virus = TRUE],
          [Plain(s, {u2}) EXCEPT !.listed = TRUE],
          [Plain(s, {u1}) EXCEPT !.auto = TRUE]}]
=============================================================================
