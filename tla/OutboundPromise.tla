--------------------------- MODULE OutboundPromise ---------------------------
(***************************************************************************)
(* What the outbound queue promises, without its rows, worker and remotes: *)
(* every recipient of an accepted message is queued, then delivered or     *)
(* failed, once and for all.                                               *)
(***************************************************************************)
CONSTANTS RowId, Rcpt

VARIABLE fates      \* fates[i][r]: what has become of message i for recipient r

Init == fates = [i \in RowId |-> [r \in Rcpt |-> "none"]]

Queued(i) == {r \in Rcpt : fates[i][r] = "queued"}

\* A message is accepted for the recipients R.
Accept(i) ==
    /\ \A r \in Rcpt : fates[i][r] = "none"
    /\ \E R \in SUBSET Rcpt :
          fates' = [fates EXCEPT ![i] = [r \in Rcpt |-> IF r \in R THEN "queued" ELSE "none"]]

\* Some queued recipients get their verdict together.
Settle(i) ==
    \E D \in SUBSET Queued(i) : \E F \in SUBSET (Queued(i) \ D) :
        fates' = [fates EXCEPT ![i] = [r \in Rcpt |-> CASE r \in D -> "delivered"
                                                        [] r \in F -> "failed"
                                                        [] OTHER   -> @[r]]]

Next == \E i \in RowId : Accept(i) \/ Settle(i)

\* The step that gives recipient r of message i its verdict.
Verdict(i, r) == fates[i][r] = "queued" /\ Settle(i) /\ fates'[i][r] # "queued"

Safety == Init /\ [][Next]_fates

Spec == /\ Safety
        /\ \A i \in RowId, r \in Rcpt : WF_fates(Verdict(i, r))
=============================================================================
