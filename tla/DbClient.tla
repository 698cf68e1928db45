------------------------------ MODULE DbClient ------------------------------
(***************************************************************************)
(* The database connection all components share: dbClient in               *)
(* internal/store/client.go, with callDB's single retry and reconnect.     *)
(* Callers are goroutines; each makes one call after the other.  The       *)
(* server may stop and come back, and a connection may break at any time,  *)
(* before or after the server has carried out what was sent on it, or go   *)
(* half-open: calls on it time out until the system prunes it.             *)
(***************************************************************************)
EXTENDS Integers

CONSTANTS
    Caller,     \* goroutines that call the database
    MaxBreaks,  \* bound: connections that break, go half-open or are closed under their users
    MaxStops,   \* bound: times the server stops, or is up and cannot be dialled
    None        \* nobody

ASSUME ClientAssumption == MaxBreaks \in Nat /\ MaxStops \in Nat /\ None \notin Caller

VARIABLES
    server,     \* whether the server runs
    dials,      \* connections made so far; they are numbered in that order
    cur,        \* dbClient.cur
    live,       \* connections on which a call does not fail at once
    mute,       \* those of them that are half-open: nothing gets through
    open,       \* connections that the client has not closed
    mu,         \* holder of dbClient.mu
    pc,         \* pc[p]: where caller p is
    cli,        \* cli[p]: the connection p uses
    again,      \* again[p]: whether p is in its retry
    applied,    \* applied[p]: times the server has carried out p's call
    lost,       \* lost[p]: whether an answer to p's call was lost with its connection
    shut,       \* history: whether Close has been called
    breaks,     \* connections broken, gone half-open or closed under their users
    stops       \* times the server has stopped or could not be dialled

net == <<server, dials, live, mute, open, shut, breaks, stops>>
calls == <<pc, cli, again, applied, lost>>
vars == <<net, cur, mu, calls>>

Conn == 1 .. dials

\* dial: the daemon starts with a connection.
Init ==
    /\ server = TRUE /\ dials = 1 /\ cur = 1 /\ live = {1} /\ mute = {} /\ open = {1}
    /\ shut = FALSE
    /\ mu = None /\ breaks = 0 /\ stops = 0
    /\ pc = [p \in Caller |-> "failed"] /\ cli = [p \in Caller |-> 1]
    /\ again = [p \in Caller |-> FALSE] /\ applied = [p \in Caller |-> 0]
    /\ lost = [p \in Caller |-> FALSE]

-----------------------------------------------------------------------------
Goto(p, l) == pc' = [pc EXCEPT ![p] = l]
Between(p) == pc[p] \in {"ok", "failed"}

\* callDB loads the current connection.
Call(p) ==
    /\ Between(p)
    /\ Goto(p, "call")
    /\ cli' = [cli EXCEPT ![p] = cur] /\ again' = [again EXCEPT ![p] = FALSE]
    /\ applied' = [applied EXCEPT ![p] = 0] /\ lost' = [lost EXCEPT ![p] = FALSE]
    /\ UNCHANGED <<net, cur, mu>>

\* fn(cli) returns: the server's answer, or an error it reports.
Answer(p) ==
    /\ pc[p] = "call" /\ cli[p] \in live \ mute
    /\ \/ Goto(p, "ok") /\ applied' = [applied EXCEPT ![p] = @ + 1]
       \/ Goto(p, "failed") /\ UNCHANGED applied
    /\ UNCHANGED <<net, cur, mu, cli, again, lost>>

\* Mutant: a timeout counts as a dead connection.
AfterTimeout_Redial(p) == IF again[p] THEN "failed" ELSE "redial"

\* isConnDead: a timeout is not a dead connection, whether or not the server has
\* carried out the call, and whether or not the connection is half-open.
AfterTimeout(p) == "failed"

Timeout(p) ==
    /\ pc[p] = "call" /\ cli[p] \in live
    /\ Goto(p, AfterTimeout(p))
    /\ \E n \in IF cli[p] \in mute THEN {0} ELSE {0, 1} : applied' = [applied EXCEPT ![p] = @ + n]
    /\ UNCHANGED <<net, cur, mu, cli, again, lost>>

\* Mutant: the error is passed on.
DeadError_NoRedial(p) ==
    /\ pc[p] = "call" /\ cli[p] \notin live
    /\ Goto(p, "failed")
    /\ UNCHANGED <<net, cur, mu, cli, again, applied, lost>>

\* fn(cli) fails because the connection is dead: callDB redials once.
DeadError(p) ==
    /\ pc[p] = "call" /\ cli[p] \notin live
    /\ Goto(p, IF again[p] THEN "failed" ELSE "redial")
    /\ UNCHANGED <<net, cur, mu, cli, again, applied, lost>>

\* The connection breaks after the server has carried out the call.
AnswerLost(p) ==
    /\ pc[p] = "call" /\ cli[p] \in live \ mute /\ breaks < MaxBreaks
    /\ live' = live \ {cli[p]} /\ breaks' = breaks + 1
    /\ applied' = [applied EXCEPT ![p] = @ + 1] /\ lost' = [lost EXCEPT ![p] = TRUE]
    /\ UNCHANGED <<server, stops, dials, mute, open, shut, cur, mu, pc, cli, again>>

\* Mutant: the connection is dialled again by every caller that saw it fail.
Replaced_Never(p) == FALSE

\* reconnect, under the lock: another caller may have replaced the connection.
Replaced(p) == cur # cli[p]

Reconnect(p) ==
    /\ pc[p] = "redial" /\ mu = None
    /\ IF Replaced(p)
       THEN /\ Goto(p, "call") /\ UNCHANGED mu
            /\ cli' = [cli EXCEPT ![p] = cur] /\ again' = [again EXCEPT ![p] = TRUE]
       ELSE Goto(p, "dial") /\ mu' = p /\ UNCHANGED <<cli, again>>
    /\ UNCHANGED <<net, cur, applied, lost>>

Dial(p) ==
    /\ pc[p] = "dial" /\ server
    /\ dials' = dials + 1 /\ live' = live \cup {dials'} /\ open' = open \cup {dials'}
    /\ Goto(p, "close")
    /\ UNCHANGED <<server, stops, breaks, mute, shut, cur, mu, cli, again, applied, lost>>

\* defer c.mu.Unlock().
Unlock == mu' = None

\* No server, or one that does not answer in time.
DialFails(p) ==
    /\ pc[p] = "dial"
    /\ IF server THEN stops < MaxStops /\ stops' = stops + 1 ELSE UNCHANGED stops
    /\ Unlock /\ Goto(p, "failed")
    /\ UNCHANGED <<server, dials, live, mute, open, shut, breaks, cur, cli, again, applied, lost>>

\* Mutant: the connection that is replaced stays open.
ClosePrev_Leak(p) ==
    /\ pc[p] = "close"
    /\ Goto(p, "swap")
    /\ UNCHANGED <<net, cur, mu, cli, again, applied, lost>>

\* prev.Close(), seen by every caller that still uses prev.
ClosePrev(p) ==
    /\ pc[p] = "close"
    /\ open' = open \ {cli[p]} /\ live' = live \ {cli[p]} /\ mute' = mute \ {cli[p]}
    /\ Goto(p, "swap")
    /\ UNCHANGED <<server, stops, dials, shut, breaks, cur, mu, cli, again, applied, lost>>

\* cur.Store(fresh), unlock and retry.
Swap(p) ==
    /\ pc[p] = "swap"
    /\ cur' = dials /\ mu' = None
    /\ Goto(p, "call")
    /\ cli' = [cli EXCEPT ![p] = cur'] /\ again' = [again EXCEPT ![p] = TRUE]
    /\ UNCHANGED <<net, applied, lost>>

-----------------------------------------------------------------------------
\* dbClient.Close.  Nothing marks the client as closed.
Close ==
    /\ cur \in open /\ breaks < MaxBreaks
    /\ open' = open \ {cur} /\ live' = live \ {cur} /\ mute' = mute \ {cur}
    /\ shut' = TRUE /\ breaks' = breaks + 1
    /\ UNCHANGED <<server, stops, dials, cur, mu, calls>>

Break(c) ==
    /\ c \in live \ mute /\ breaks < MaxBreaks
    /\ live' = live \ {c} /\ breaks' = breaks + 1
    /\ UNCHANGED <<server, stops, dials, mute, open, shut, cur, mu, calls>>

\* A connection goes half-open, and in time the system prunes it.
Silence(c) ==
    /\ c \in live \ mute /\ breaks < MaxBreaks
    /\ mute' = mute \cup {c} /\ breaks' = breaks + 1
    /\ UNCHANGED <<server, stops, dials, live, open, shut, cur, mu, calls>>

Prune(c) ==
    /\ c \in mute
    /\ live' = live \ {c} /\ mute' = mute \ {c}
    /\ UNCHANGED <<server, stops, dials, breaks, open, shut, cur, mu, calls>>

\* Half-open connections hear nothing of it.
ServerStops ==
    /\ server /\ stops < MaxStops /\ breaks < MaxBreaks
    /\ server' = FALSE /\ live' = live \cap mute /\ stops' = stops + 1
    /\ breaks' = IF live \subseteq mute THEN breaks ELSE breaks + 1
    /\ UNCHANGED <<dials, mute, open, shut, cur, mu, calls>>

ServerStarts ==
    /\ ~server /\ server' = TRUE
    /\ UNCHANGED <<dials, live, mute, open, shut, breaks, stops, cur, mu, calls>>

-----------------------------------------------------------------------------
Step(p) == \/ Call(p) \/ Answer(p) \/ Timeout(p) \/ DeadError(p)
           \/ Reconnect(p) \/ Dial(p) \/ DialFails(p) \/ ClosePrev(p) \/ Swap(p)

Next == \/ \E p \in Caller : Step(p) \/ AnswerLost(p)
        \/ Close \/ ServerStops \/ ServerStarts
        \/ \E c \in Conn : Break(c) \/ Silence(c) \/ Prune(c)

Spec == Init /\ [][Next]_vars

\* Goroutines run, a stopped server is started again and a half-open connection pruned.
LiveSpec == /\ Spec /\ WF_vars(ServerStarts) /\ WF_vars(\E c \in Conn : Prune(c))
            /\ \A p \in Caller : WF_vars(Step(p))

-----------------------------------------------------------------------------
\* The state has its shape, and the lock is held exactly by the caller that dials.
TypeOK ==
    /\ server \in BOOLEAN /\ dials \in Nat /\ breaks \in 0 .. MaxBreaks
    /\ stops \in 0 .. MaxStops
    /\ cur \in Conn /\ live \subseteq Conn /\ mute \subseteq live /\ open \subseteq Conn
    /\ shut \in BOOLEAN
    /\ pc \in [Caller -> {"ok", "failed", "call", "redial", "dial", "close", "swap"}]
    /\ cli \in [Caller -> Conn] /\ again \in [Caller -> BOOLEAN]
    /\ applied \in [Caller -> 0 .. 2] /\ lost \in [Caller -> BOOLEAN]
    /\ mu \in Caller \cup {None}
    /\ \A p \in Caller : mu = p <=> pc[p] \in {"dial", "close", "swap"}

\* However many callers see a connection fail, it is replaced once: there are no more
\* connections than reasons for one ("a thundering herd ... redial at most once").
DialsExplained == dials <= 1 + breaks

\* No connection is leaked: what is open is the current connection, and besides it the
\* one that a caller is about to put in its place.
OneOpenConnection == open \subseteq {cur} \cup (IF mu = None THEN {} ELSE {dials})

\* A call is carried out twice only if its answer was lost with its connection; after a
\* timeout it is not sent again.
TwiceOnlyWhenLost == \A p \in Caller : applied[p] = 2 => lost[p]

\* A dead connection does not poison the client: until Close is called it is replaced
\* as long as there are callers, and in the end the current connection works for good.
Unpoisoned == <>[](shut \/ cur \in live \ mute)
=============================================================================
