--------------------------- MODULE MCOutboundQueue ---------------------------
(***************************************************************************)
(* Instances of OutboundQueue for TLC.                                     *)
(***************************************************************************)
EXTENDS OutboundQueue, TLC

CONSTANTS r1, r2, bare, snd, d1, d2, mx1, mx2

\* d1 has two hosts and may publish a policy that lists the second; bare has no "@".
MCDomainOf == (r1 :> d1) @@ (r2 :> d1) @@ (snd :> d2) @@ (bare :> Null)
MCMxOf == (d1 :> <<mx1, mx2>>) @@ (d2 :> <<mx1>>)
MCPolicies == (d1 :> {[mode |-> "enforce", mx |-> {mx2}]}) @@ (d2 :> {})

\* A local user writes to d1; mail of a remote sender is forwarded to d1.
MCEnvelopes == {[from |-> "local", rcpts |-> {r1, r2}],
                [from |-> "remote", rcpts |-> {r1, bare}]}
=============================================================================
