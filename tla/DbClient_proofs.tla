-------------------------- MODULE DbClient_proofs --------------------------
(***************************************************************************)
(* Proofs about DbClient for any set of callers and any bounds.            *)
(***************************************************************************)
EXTENDS DbClient, TLAPS

Dialling == {"dial", "close", "swap"}

\* The newest connection is the current one, unless a caller has dialled its successor.
CurrentInv ==
    /\ mu = None => cur = dials /\ open \subseteq {cur}
    /\ \A p \in Caller :
         /\ pc[p] \in Dialling => cli[p] = cur
         /\ pc[p] = "dial" => cur = dials /\ open \subseteq {cur}
         /\ pc[p] = "close" => open \subseteq {cur, dials}
         /\ pc[p] = "swap" => open \subseteq {dials}

\* A caller redials a connection that no longer works, in its first attempt; a
\* connection that works has not yet carried out the attempt under way.
AttemptInv ==
    \A p \in Caller :
      /\ pc[p] \in Dialling \cup {"redial"} =>
           ~again[p] /\ cli[p] \notin live /\ applied[p] \in {0, 1}
      /\ pc[p] = "call" /\ ~again[p] =>
           applied[p] \in {0, 1} /\ (applied[p] = 1 => cli[p] \notin live)
      /\ pc[p] = "call" /\ again[p] => (applied[p] = 2 => cli[p] \notin live)
      /\ pc[p] \notin {"ok", "failed"} /\ applied[p] > 0 => lost[p]

\* Every connection but a newest one that works has its break.
CountInv == dials <= breaks + (IF dials \in live \ mute THEN 1 ELSE 0)

IInv == TypeOK /\ CurrentInv /\ AttemptInv /\ CountInv /\ TwiceOnlyWhenLost

-----------------------------------------------------------------------------
\* The client starts with one connection that works, and no calls under way.
LEMMA InitIInv == Init => IInv
<1> SUFFICES ASSUME Init PROVE IInv
  OBVIOUS
<1>1. TypeOK
  <2>1. server \in BOOLEAN /\ shut \in BOOLEAN
    BY Zenon DEF Init
  <2> QED BY <2>1, ClientAssumption DEF Init, TypeOK, Conn
<1>2. CurrentInv /\ AttemptInv /\ CountInv /\ TwiceOnlyWhenLost
  BY ClientAssumption DEF Init, CurrentInv, AttemptInv, CountInv, TwiceOnlyWhenLost, Dialling
<1> QED BY <1>1, <1>2 DEF IInv

\* The steps of a caller outside reconnect leave the connections alone, except that
\* one may break under it.
LEMMA CallSteps ==
  ASSUME IInv, NEW p \in Caller,
         Call(p) \/ Answer(p) \/ Timeout(p) \/ DeadError(p) \/ AnswerLost(p)
  PROVE  IInv'
<1> USE ClientAssumption DEF Goto, net, calls
<1>1. TypeOK'
  <2>1. CASE Call(p)
    BY <2>1 DEF IInv, TypeOK, Call, Between, Conn
  <2>2. CASE Answer(p)
    BY <2>2 DEF IInv, TypeOK, AttemptInv, Answer, Conn
  <2>3. CASE Timeout(p)
    BY <2>3 DEF IInv, TypeOK, AttemptInv, Timeout, AfterTimeout, Conn
  <2>4. CASE DeadError(p)
    BY <2>4 DEF IInv, TypeOK, DeadError, Conn
  <2>5. CASE AnswerLost(p)
    <3>1. applied[p] \in 0 .. 1
      BY <2>5 DEF IInv, TypeOK, AttemptInv, AnswerLost
    <3>2. applied' \in [Caller -> 0 .. 2] /\ lost' \in [Caller -> BOOLEAN]
      BY <2>5, <3>1 DEF IInv, TypeOK, AnswerLost
    <3>3. breaks' \in 0 .. MaxBreaks
      BY <2>5 DEF IInv, TypeOK, AnswerLost
    <3>4. live' \subseteq live
      BY <2>5 DEF AnswerLost
    <3> QED BY <2>5, <3>2, <3>3, <3>4 DEF IInv, TypeOK, AnswerLost, Conn
  <2> QED BY <2>1, <2>2, <2>3, <2>4, <2>5
<1>2. CurrentInv'
  BY DEF IInv, TypeOK, CurrentInv, Dialling, Call, Between, Answer, Timeout,
         AfterTimeout, DeadError, AnswerLost
<1>3. AttemptInv'
  <2>1. CASE Call(p)
    BY <2>1 DEF IInv, TypeOK, AttemptInv, Dialling, Call, Between
  <2>2. CASE Answer(p)
    BY <2>2 DEF IInv, TypeOK, AttemptInv, Dialling, Answer
  <2>3. CASE Timeout(p)
    BY <2>3 DEF IInv, TypeOK, AttemptInv, Dialling, Timeout, AfterTimeout
  <2>4. CASE DeadError(p)
    BY <2>4 DEF IInv, TypeOK, AttemptInv, Dialling, DeadError
  <2>5. CASE AnswerLost(p)
    BY <2>5 DEF IInv, TypeOK, AttemptInv, Dialling, AnswerLost, Conn
  <2> QED BY <2>1, <2>2, <2>3, <2>4, <2>5
<1>4. CountInv'
  BY DEF IInv, TypeOK, CountInv, Call, Answer, Timeout, DeadError, AnswerLost, Conn
<1>5. TwiceOnlyWhenLost'
  BY DEF IInv, TypeOK, AttemptInv, TwiceOnlyWhenLost, Call, Between, Answer, Timeout,
         DeadError, AnswerLost
<1> QED BY <1>1, <1>2, <1>3, <1>4, <1>5 DEF IInv

\* reconnect dials only when the current connection is the one that failed.
LEMMA ReconnectSteps ==
  ASSUME IInv, NEW p \in Caller,
         Reconnect(p) \/ Dial(p) \/ DialFails(p) \/ ClosePrev(p) \/ Swap(p)
  PROVE  IInv'
<1> USE ClientAssumption DEF Goto, net, calls
<1>1. TypeOK'
  <2>1. CASE Reconnect(p)
    <3>1. CASE Replaced(p)
      <4>1. /\ UNCHANGED <<net, cur, mu, applied, lost>> /\ pc' = [pc EXCEPT ![p] = "call"]
            /\ cli' = [cli EXCEPT ![p] = cur] /\ again' = [again EXCEPT ![p] = TRUE]
            /\ pc[p] = "redial"
        BY <2>1, <3>1 DEF Reconnect
      <4>2. /\ pc' \in [Caller -> {"ok", "failed", "call", "redial", "dial", "close", "swap"}]
            /\ cli' \in [Caller -> Conn] /\ again' \in [Caller -> BOOLEAN]
        BY <4>1 DEF IInv, TypeOK
      <4>3. \A q \in Caller : mu = q <=> pc'[q] \in {"dial", "close", "swap"}
        BY <4>1 DEF IInv, TypeOK
      <4> QED BY <4>1, <4>2, <4>3 DEF IInv, TypeOK, Conn
    <3>2. CASE ~Replaced(p)
      BY <2>1, <3>2 DEF IInv, TypeOK, Reconnect, Conn
    <3> QED BY <3>1, <3>2
  <2>2. CASE Dial(p)
    BY <2>2 DEF IInv, TypeOK, Dial, Conn
  <2>3. CASE DialFails(p)
    BY <2>3 DEF IInv, TypeOK, DialFails, Unlock, Conn
  <2>4. CASE ClosePrev(p)
    BY <2>4 DEF IInv, TypeOK, ClosePrev, Conn
  <2>5. CASE Swap(p)
    BY <2>5 DEF IInv, TypeOK, Swap, Conn
  <2> QED BY <2>1, <2>2, <2>3, <2>4, <2>5
<1>2. CurrentInv'
  <2>1. CASE Reconnect(p)
    BY <2>1 DEF IInv, TypeOK, CurrentInv, Dialling, Reconnect, Replaced
  <2>2. CASE Dial(p)
    BY <2>2 DEF IInv, TypeOK, CurrentInv, Dialling, Dial, Conn
  <2>3. CASE DialFails(p)
    BY <2>3 DEF IInv, TypeOK, CurrentInv, Dialling, DialFails, Unlock
  <2>4. CASE ClosePrev(p)
    BY <2>4 DEF IInv, TypeOK, CurrentInv, Dialling, ClosePrev, Conn
  <2>5. CASE Swap(p)
    BY <2>5 DEF IInv, TypeOK, CurrentInv, Dialling, Swap, Conn
  <2> QED BY <2>1, <2>2, <2>3, <2>4, <2>5
<1>3. AttemptInv'
  <2>1. CASE Reconnect(p)
    BY <2>1 DEF IInv, TypeOK, AttemptInv, Dialling, Reconnect, Replaced
  <2>2. CASE Dial(p)
    BY <2>2 DEF IInv, TypeOK, AttemptInv, Dialling, Dial, Conn
  <2>3. CASE DialFails(p)
    BY <2>3 DEF IInv, TypeOK, AttemptInv, Dialling, DialFails
  <2>4. CASE ClosePrev(p)
    BY <2>4 DEF IInv, TypeOK, AttemptInv, Dialling, ClosePrev
  <2>5. CASE Swap(p)
    BY <2>5 DEF IInv, TypeOK, AttemptInv, Dialling, Swap
  <2> QED BY <2>1, <2>2, <2>3, <2>4, <2>5
<1>4. CountInv'
  <2>1. CASE Reconnect(p) \/ DialFails(p) \/ Swap(p)
    BY <2>1 DEF IInv, CountInv, Reconnect, DialFails, Swap
  <2>2. CASE Dial(p)
    <3>1. cli[p] = dials /\ cli[p] \notin live
      BY <2>2 DEF IInv, CurrentInv, AttemptInv, Dialling, Dial
    <3> QED BY <2>2, <3>1 DEF IInv, TypeOK, CountInv, Dial, Conn
  <2>3. CASE ClosePrev(p)
    <3>1. cli[p] \notin live
      BY <2>3 DEF IInv, AttemptInv, Dialling, ClosePrev
    <3> QED BY <2>3, <3>1 DEF IInv, CountInv, ClosePrev
  <2> QED BY <2>1, <2>2, <2>3
<1>5. TwiceOnlyWhenLost'
  BY DEF IInv, TwiceOnlyWhenLost, Reconnect, Dial, DialFails, ClosePrev, Swap
<1> QED BY <1>1, <1>2, <1>3, <1>4, <1>5 DEF IInv

\* What happens to the connections and the server.
LEMMA NetSteps ==
  ASSUME IInv,
         Close \/ ServerStops \/ ServerStarts \/ (\E c \in Conn : Break(c) \/ Silence(c) \/ Prune(c))
  PROVE  IInv'
<1> USE ClientAssumption DEF net, calls
<1>1. TypeOK'
  <2>1. breaks' \in 0 .. MaxBreaks /\ stops' \in 0 .. MaxStops
    BY DEF IInv, TypeOK, Close, ServerStops, ServerStarts, Break, Silence, Prune
  <2>2. server' \in BOOLEAN /\ shut' \in BOOLEAN
    BY Zenon DEF IInv, TypeOK, Close, ServerStops, ServerStarts, Break, Silence, Prune
  <2>3. live' \subseteq live /\ open' \subseteq open /\ UNCHANGED <<dials, cur, mu, calls>>
    BY DEF Close, ServerStops, ServerStarts, Break, Silence, Prune
  <2>4. mute' \subseteq live'
    BY DEF IInv, TypeOK, Close, ServerStops, ServerStarts, Break, Silence, Prune
  <2> QED BY <2>1, <2>2, <2>3, <2>4 DEF IInv, TypeOK, Conn
<1>2. CurrentInv'
  BY DEF IInv, CurrentInv, Close, ServerStops, ServerStarts, Break, Silence, Prune
<1>3. AttemptInv'
  BY DEF IInv, AttemptInv, Close, ServerStops, ServerStarts, Break, Silence, Prune
<1>4. CountInv'
  BY DEF IInv, TypeOK, CountInv, Conn, Close, ServerStops, ServerStarts, Break, Silence, Prune
<1>5. TwiceOnlyWhenLost'
  BY DEF IInv, TwiceOnlyWhenLost, Close, ServerStops, ServerStarts, Break, Silence, Prune
<1> QED BY <1>1, <1>2, <1>3, <1>4, <1>5 DEF IInv

\* Every step of the specification, and stuttering, preserves the invariant.
LEMMA NextIInv == IInv /\ [Next]_vars => IInv'
<1> SUFFICES ASSUME IInv, [Next]_vars PROVE IInv'
  OBVIOUS
<1>1. CASE Next
  BY <1>1, CallSteps, ReconnectSteps, NetSteps DEF Next, Step
<1>2. CASE UNCHANGED vars
  BY <1>2 DEF vars, net, calls, IInv, TypeOK, CurrentInv, AttemptInv, CountInv,
              TwiceOnlyWhenLost, Conn
<1> QED BY <1>1, <1>2

-----------------------------------------------------------------------------
\* In every behaviour of dbClient, however many goroutines call, the invariant holds.
THEOREM Invariance == Spec => []IInv
BY InitIInv, NextIInv, PTL DEF Spec

\* The state has its shape and the lock is held exactly by the caller that dials.
THEOREM TypeCorrect == Spec => []TypeOK
<1>1. IInv => TypeOK
  BY DEF IInv
<1> QED BY <1>1, Invariance, PTL

\* reconnect dials once for a connection that fails, however many callers saw it fail.
THEOREM RedialOnce == Spec => []DialsExplained
<1>1. IInv => DialsExplained
  BY DEF IInv, TypeOK, CountInv, DialsExplained
<1> QED BY <1>1, Invariance, PTL

\* reconnect leaks no connection.
THEOREM NoLeak == Spec => []OneOpenConnection
<1>1. IInv => OneOpenConnection
  BY DEF IInv, TypeOK, CurrentInv, Dialling, OneOpenConnection
<1> QED BY <1>1, Invariance, PTL

\* callDB has a call carried out twice only if the first answer was lost.
THEOREM RetryExplained == Spec => []TwiceOnlyWhenLost
<1>1. IInv => TwiceOnlyWhenLost
  BY DEF IInv
<1> QED BY <1>1, Invariance, PTL
=============================================================================
