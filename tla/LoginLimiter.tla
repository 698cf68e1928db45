---------------------------- MODULE LoginLimiter ----------------------------
(***************************************************************************)
(* The failure counter of internal/ratelimit/ratelimit.go.  A bucket is    *)
(* the number of failures not yet drained and the time to the next drain,  *)
(* which is negative when drains are due: the code applies them only when  *)
(* the bucket is next examined.  A bucket that was swept away and one that *)
(* is empty are the same.                                                  *)
(***************************************************************************)
EXTENDS Integers

CONSTANT Decay   \* time units after which one failure is forgotten

ASSUME DecayAssumption == Decay \in Nat \ {0}

Empty == [count |-> 0, due |-> 0]

Bucket == [count : Nat, due : Int]

\* The drain ticks that have elapsed, at most one for each failure.
Elapsed(b) == IF b.due > 0 THEN 0 ELSE (0 - b.due) \div Decay + 1

Drains_Never(b) == 0
Drains(b) == IF Elapsed(b) < b.count THEN Elapsed(b) ELSE b.count

\* drain: one failure is removed for every tick.
Drained(b) ==
    IF Drains(b) = b.count THEN Empty
    ELSE [count |-> b.count - Drains(b), due |-> b.due + Drains(b) * Decay]

\* Blocked, given the bucket after its drain.
AtThreshold_Above(b, threshold) == b.count > threshold
AtThreshold(b, threshold) == b.count >= threshold

\* RecordFailure: the first failure of an empty bucket schedules the drain.
Recorded(b) ==
    LET d == Drained(b) IN
    [count |-> d.count + 1, due |-> IF d.count = 0 THEN Decay ELSE d.due]

\* One time unit passes.  Beyond the drain of its last failure a bucket does
\* not change any more.
Aged(b) ==
    IF b.count > 0 /\ b.due > 0 - b.count * Decay THEN [b EXCEPT !.due = @ - 1] ELSE b
=============================================================================
