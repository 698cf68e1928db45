------------------------- MODULE WebSession_proofs -------------------------
(***************************************************************************)
(* Proofs about WebSession for any clients, addresses and thresholds.      *)
(***************************************************************************)
EXTENDS WebSession, FiniteSetTheorems, TLAPS

\* What a key may still have recorded against it.
Budget(k) ==
    bucket[k].count + Cardinality(Pending(k)) <= Threshold[k] - 1 + Cardinality(Client)

IInv == TypeOK /\ OldSessionsExplained /\ BudgetHolds

-----------------------------------------------------------------------------
(* The operators of LoginLimiter.                                          *)

\* Time that has passed counts for a number of ticks.
LEMMA ElapsedNat == ASSUME NEW b \in Bucket PROVE Elapsed(b) \in Nat
<1>1. CASE b.due > 0
  BY <1>1 DEF Elapsed
<1>2. CASE ~(b.due > 0)
  <2>1. 0 - b.due \in Nat
    BY <1>2 DEF Bucket
  <2>2. (0 - b.due) \div Decay \in Nat
    BY <2>1, DecayAssumption
  <2> QED BY <1>2, <2>2 DEF Elapsed
<1> QED BY <1>1, <1>2

\* Draining never adds a failure.
LEMMA DrainedCount ==
  ASSUME NEW b \in Bucket
  PROVE  Drained(b) \in Bucket /\ Drained(b).count <= b.count
<1>1. Drains(b) \in 0 .. b.count
  BY ElapsedNat DEF Drains, Bucket
<1>2. Drains(b) * Decay \in Int
  BY <1>1, DecayAssumption
<1>3. b.due + Drains(b) * Decay \in Int
  BY <1>2 DEF Bucket
<1> HIDE DEF Drains
<1> QED BY <1>1, <1>3 DEF Drained, Bucket, Empty

\* Recording a failure adds at most one.
LEMMA RecordedCount ==
  ASSUME NEW b \in Bucket
  PROVE  Recorded(b) \in Bucket /\ Recorded(b).count <= b.count + 1
BY DrainedCount, DecayAssumption DEF Recorded, Bucket

\* The passing of time alone changes no count.
LEMMA AgedCount ==
  ASSUME NEW b \in Bucket
  PROVE  Aged(b) \in Bucket /\ Aged(b).count = b.count
<1>1. b.due - 1 \in Int
  BY DEF Bucket
<1> QED BY <1>1 DEF Aged, Bucket

-----------------------------------------------------------------------------
(* The budget of a key.                                                    *)

\* At most every client has a request in flight.
LEMMA PendingFinite ==
  ASSUME NEW k
  PROVE  /\ IsFiniteSet(Pending(k)) /\ Cardinality(Pending(k)) \in Nat
         /\ Cardinality(Pending(k)) <= Cardinality(Client)
         /\ Cardinality(Client) \in Nat
<1>1. Pending(k) \subseteq Client
  BY DEF Pending
<1> QED BY <1>1, SessionAssumption, FS_Subset, FS_CardinalityType

\* The same in the next state.
LEMMA PendingFiniteNext ==
  ASSUME NEW k
  PROVE  /\ IsFiniteSet(Pending(k)') /\ Cardinality(Pending(k)') \in Nat
         /\ Cardinality(Pending(k)') <= Cardinality(Client)
<1>1. Pending(k)' \subseteq Client
  BY DEF Pending
<1> QED BY <1>1, SessionAssumption, FS_Subset, FS_CardinalityType

\* A step after which k has no more failures and no more requests in flight.
LEMMA BudgetKept ==
  ASSUME NEW k \in Key, TypeOK, Budget(k), bucket'[k] \in Bucket,
         bucket'[k].count <= bucket[k].count, Pending(k)' \subseteq Pending(k)
  PROVE  Budget(k)'
<1>1. Cardinality(Pending(k)') <= Cardinality(Pending(k))
  BY PendingFinite, FS_Subset
<1>2. bucket[k].count \in Nat /\ bucket'[k].count \in Nat /\ Threshold[k] \in Nat
  BY SessionAssumption DEF TypeOK, Bucket
<1> QED BY <1>1, <1>2, PendingFinite, PendingFiniteNext DEF Budget

\* A request that passes the limiter has found the count below the threshold.
LEMMA BudgetChecked ==
  ASSUME NEW k \in Key, TypeOK, bucket'[k] \in Bucket,
         ~AtThreshold(bucket'[k], Threshold[k])
  PROVE  Budget(k)'
<1>1. bucket'[k].count \in Nat /\ Threshold[k] \in Nat
  BY SessionAssumption DEF TypeOK, Bucket
<1>2. bucket'[k].count <= Threshold[k] - 1
  BY <1>1 DEF AtThreshold
<1>3. Cardinality(Pending(k)') \in Nat /\ Cardinality(Client) \in Nat
      /\ Cardinality(Pending(k)') <= Cardinality(Client)
  BY PendingFinite, PendingFiniteNext
<1> QED BY <1>1, <1>2, <1>3 DEF Budget

\* A failure is recorded by a request that was counted as in flight.
LEMMA BudgetSpent ==
  ASSUME NEW k \in Key, NEW c \in Pending(k), TypeOK, Budget(k), bucket'[k] \in Bucket,
         bucket'[k].count <= bucket[k].count + 1, Pending(k)' \subseteq Pending(k) \ {c}
  PROVE  Budget(k)'
<1>1. /\ IsFiniteSet(Pending(k) \ {c})
      /\ Cardinality(Pending(k) \ {c}) = Cardinality(Pending(k)) - 1
  BY PendingFinite, FS_RemoveElement
<1>2. Cardinality(Pending(k)') <= Cardinality(Pending(k) \ {c})
  BY <1>1, FS_Subset
<1>3. bucket[k].count \in Nat /\ bucket'[k].count \in Nat /\ Threshold[k] \in Nat
  BY SessionAssumption DEF TypeOK, Bucket
<1> QED BY <1>1, <1>2, <1>3, PendingFinite, PendingFiniteNext DEF Budget

\* Blocked, by a request that is in flight afterwards only if it passed.
LEMMA CheckKeeps ==
  ASSUME NEW c \in Client, NEW k \in Key, NEW label \in Label, TypeOK, Budget(k),
         CheckBlocked(c, k, label)
  PROVE  Budget(k)' /\ bucket' \in [Key -> Bucket]
<1>1. bucket' = [bucket EXCEPT ![k] = Drained(bucket[k])]
  BY DEF CheckBlocked
<1>2. bucket[k] \in Bucket
  BY DEF TypeOK
<1>3. Drained(bucket[k]) \in Bucket /\ Drained(bucket[k]).count <= bucket[k].count
  BY <1>2, DrainedCount
<1>4. bucket'[k] = Drained(bucket[k]) /\ bucket' \in [Key -> Bucket]
  BY <1>1, <1>3 DEF TypeOK
<1>5. CASE AtThreshold(Drained(bucket[k]), Threshold[k])
  <2>1. pc' = [pc EXCEPT ![c] = "idle"]
    BY <1>5 DEF CheckBlocked, Goto
  <2>2. Pending(k)' \subseteq Pending(k)
    BY <2>1 DEF Pending, TypeOK
  <2> QED BY <1>3, <1>4, <2>2, BudgetKept
<1>6. CASE ~AtThreshold(Drained(bucket[k]), Threshold[k])
  BY <1>3, <1>4, <1>6, BudgetChecked
<1> QED BY <1>4, <1>5, <1>6

-----------------------------------------------------------------------------
(* Type correctness.                                                       *)

\* The types hold at first.
LEMMA TypeInit == Init => TypeOK
BY SessionAssumption DEF Init, TypeOK, Bucket, Empty, Label

\* The tests of the limiter.
LEMMA TypeCheck ==
  ASSUME TypeOK, NEW c \in Client, StartLogin(c) \/ LoginCheckAccount(c) \/ ChangeCheck(c)
  PROVE  TypeOK'
<1> USE SessionAssumption
<1>1. ASSUME NEW k \in Key, NEW label \in Label, CheckBlocked(c, k, label)
      PROVE  bucket' \in [Key -> Bucket] /\ pc' \in [Client -> Label]
  <2>1. bucket' = [bucket EXCEPT ![k] = Drained(bucket[k])] /\ bucket[k] \in Bucket
    BY <1>1 DEF CheckBlocked, TypeOK
  <2>2. Drained(bucket[k]) \in Bucket
    BY <2>1, DrainedCount
  <2>3. bucket' \in [Key -> Bucket]
    BY <2>1, <2>2 DEF TypeOK
  <2>4. pc' \in [Client -> Label]
    BY <1>1 DEF CheckBlocked, Goto, TypeOK, Label
  <2> QED BY <2>3, <2>4
<1>2. Acct \in Key /\ IpOf[c] \in Key
  BY DEF Key
<1>3. {"l_acct", "l_auth", "p_auth"} \subseteq Label
  BY DEF Label
<1>4. bucket' \in [Key -> Bucket] /\ pc' \in [Client -> Label]
  BY <1>1, <1>2, <1>3 DEF StartLogin, LoginCheckAccount, ChangeCheck
<1>5. typed' \in [Client -> Nat]
  BY DEF TypeOK, StartLogin, LoginCheckAccount, ChangeCheck
<1> QED BY <1>4, <1>5, Zenon DEF TypeOK, StartLogin, LoginCheckAccount, ChangeCheck

\* The steps that record a failure.
LEMMA TypeRecord ==
  ASSUME TypeOK, NEW c \in Client, LoginRecordIp(c) \/ RecordAccount(c)
  PROVE  TypeOK'
<1> USE SessionAssumption
<1>1. ASSUME NEW k \in Key, RecordFailure(k) PROVE bucket' \in [Key -> Bucket]
  <2>1. bucket' = [bucket EXCEPT ![k] = Recorded(bucket[k])] /\ bucket[k] \in Bucket
    BY <1>1 DEF RecordFailure, TypeOK
  <2>2. Recorded(bucket[k]) \in Bucket
    BY <2>1, RecordedCount
  <2> QED BY <2>1, <2>2 DEF TypeOK
<1>2. Acct \in Key /\ IpOf[c] \in Key
  BY DEF Key
<1>3. bucket' \in [Key -> Bucket]
  BY <1>1, <1>2 DEF LoginRecordIp, RecordAccount
<1> QED BY <1>3, Zenon DEF TypeOK, LoginRecordIp, RecordAccount, Goto, Label

\* The steps of a request that leave the limiter alone.
LEMMA TypeRequest ==
  ASSUME TypeOK, NEW c \in Client,
         \/ LoginAuthenticate(c) \/ CreateSession(c) \/ StartRequest(c) \/ Logout(c)
         \/ ChangeAuthenticate(c) \/ ChangeStore(c) \/ ChangeRevoke(c)
  PROVE  TypeOK'
<1> USE SessionAssumption DEF TypeOK, Goto, Label, Token
<1>1. CASE LoginAuthenticate(c)
  BY <1>1 DEF LoginAuthenticate
<1>2. CASE CreateSession(c)
  <2>1. pc' \in [Client -> Label]
    BY <1>2 DEF CreateSession
  <2>2. UNCHANGED <<bucket, password, typed, kept>>
    BY <1>2 DEF CreateSession
  <2>3. CASE logins < MaxLogins /\ Issue(c, logins + 1)
    <3>1. logins + 1 \in Token /\ {0, logins + 1} \subseteq 0 .. MaxLogins
      BY <2>3
    <3>2. logins' \in 0 .. MaxLogins
      BY <2>3, <3>1 DEF Issue
    <3>3. session' \in [Token -> {"none", "live", "expired"}] /\ gen' \in [Token -> Nat]
      BY <2>3, <3>1 DEF Issue
    <3>4. PICK received \in {0, logins + 1} : token' = [token EXCEPT ![c] = received]
      BY <2>3, Zenon DEF Issue
    <3>5. token' \in [Client -> 0 .. MaxLogins]
      BY <3>1, <3>4
    <3>6. stale' \subseteq stale \cup {logins + 1}
      BY <2>3 DEF Issue
    <3>7. stale' \subseteq Token
      BY <3>1, <3>6
    <3> QED BY <2>1, <2>2, <3>2, <3>3, <3>5, <3>7
  <2>4. CASE UNCHANGED <<logins, session, token, gen, stale>>
    BY <2>1, <2>2, <2>4
  <2> QED BY <1>2, <2>3, <2>4 DEF CreateSession
<1>3. CASE StartRequest(c)
  <2>1. session' \in [Token -> {"none", "live", "expired"}]
    BY <1>3 DEF StartRequest, LookedUp
  <2>2. pc' \in [Client -> Label] /\ typed' \in [Client -> Nat]
    BY <1>3 DEF StartRequest
  <2> QED BY <1>3, <2>1, <2>2 DEF StartRequest
<1>4. CASE Logout(c)
  <2>1. session' \in [Token -> {"none", "live", "expired"}]
    BY <1>4, Zenon DEF Logout
  <2>2. pc' \in [Client -> Label] /\ token' \in [Client -> 0 .. MaxLogins]
    BY <1>4 DEF Logout
  <2> QED BY <1>4, <2>1, <2>2 DEF Logout
<1>5. CASE ChangeAuthenticate(c)
  <2>1. pc' \in [Client -> Label]
    BY <1>5 DEF ChangeAuthenticate
  <2> QED BY <1>5, <2>1 DEF ChangeAuthenticate
<1>6. CASE ChangeStore(c)
  <2>1. PICK label \in {"p_revoke", "idle"} : pc' = [pc EXCEPT ![c] = label]
    BY <1>6 DEF ChangeStore
  <2>2. password' \in Nat
    BY <1>6 DEF ChangeStore
  <2>3. pc' \in [Client -> Label]
    BY <2>1
  <2>4. Token \subseteq 0 .. MaxLogins
    BY DEF Token
  <2>5. kept' \subseteq 0 .. MaxLogins
    BY <1>6, <2>4, Zenon DEF ChangeStore
  <2> QED BY <1>6, <2>2, <2>3, <2>5 DEF ChangeStore
<1>7. CASE ChangeRevoke(c)
  <2>1. session' \in [Token -> {"none", "live", "expired"}]
    BY <1>7 DEF ChangeRevoke
  <2>2. pc' \in [Client -> Label]
    BY <1>7 DEF ChangeRevoke
  <2>3. kept' = kept \cup {token[c]} /\ token[c] \in 0 .. MaxLogins
    BY <1>7 DEF ChangeRevoke
  <2>4. kept' \subseteq 0 .. MaxLogins
    BY <2>3, Zenon
  <2> QED BY <1>7, <2>1, <2>2, <2>4 DEF ChangeRevoke
<1> QED BY <1>1, <1>2, <1>3, <1>4, <1>5, <1>6, <1>7, Zenon

\* Time and the server.
LEMMA TypeServer ==
  ASSUME TypeOK,
         (\E t \in Token : Expire(t)) \/ SweepSessions \/ SweepLimiters \/ Tick \/ Restart
  PROVE  TypeOK'
<1>1. CASE \E t \in Token : Expire(t)
  BY <1>1 DEF TypeOK, Expire
<1>2. CASE SweepSessions
  BY <1>2 DEF TypeOK, SweepSessions
<1>3. CASE SweepLimiters
  BY <1>3, DrainedCount DEF TypeOK, SweepLimiters
<1>4. CASE Tick
  BY <1>4, AgedCount DEF TypeOK, Tick
<1>5. CASE Restart
  BY <1>5 DEF TypeOK, Restart, Bucket, Empty, Label
<1> QED BY <1>1, <1>2, <1>3, <1>4, <1>5

\* Every step keeps the types.
LEMMA TypeNext == TypeOK /\ [Next]_vars => TypeOK'
<1> SUFFICES ASSUME TypeOK, [Next]_vars PROVE TypeOK'
  OBVIOUS
<1>1. CASE UNCHANGED vars
  BY <1>1 DEF TypeOK, vars
<1>2. CASE \E c \in Client : Request(c)
  BY <1>2, TypeCheck, TypeRecord, TypeRequest DEF Request
<1>3. CASE (\E t \in Token : Expire(t)) \/ SweepSessions \/ SweepLimiters \/ Tick \/ Restart
  BY <1>3, TypeServer
<1> QED BY <1>1, <1>2, <1>3 DEF Next

-----------------------------------------------------------------------------
(* The invariants.                                                         *)

\* A session opened with an older password has its reason after every step.
LEMMA OldSessionsNext ==
  ASSUME TypeOK, OldSessionsExplained, [Next]_vars
  PROVE  OldSessionsExplained'
<1> USE SessionAssumption DEF TypeOK, OldSessionsExplained, Goto, Token
<1>1. CASE UNCHANGED vars
  BY <1>1 DEF vars
<1>2. ASSUME NEW c \in Client, Request(c) PROVE OldSessionsExplained'
  <2>1. CASE StartLogin(c) \/ LoginCheckAccount(c) \/ ChangeCheck(c)
    BY <2>1 DEF StartLogin, LoginCheckAccount, ChangeCheck, CheckBlocked
  <2>2. CASE LoginAuthenticate(c) \/ LoginRecordIp(c) \/ RecordAccount(c) \/ ChangeAuthenticate(c)
    BY <2>2 DEF LoginAuthenticate, LoginRecordIp, RecordAccount, ChangeAuthenticate
  <2>3. CASE CreateSession(c)
    <3>1. \A d \in Client : pc[d] = "p_revoke" => pc'[d] = "p_revoke"
      BY <2>3 DEF CreateSession
    <3>2. UNCHANGED <<password, kept>>
      BY <2>3 DEF CreateSession
    <3>3. CASE logins < MaxLogins /\ Issue(c, logins + 1)
      <4>1. stale \subseteq stale' /\ logins + 1 \in Token
        BY <3>3 DEF Issue
      <4>2. \A t \in Token \ {logins + 1} : session'[t] = session[t] /\ gen'[t] = gen[t]
        BY <3>3 DEF Issue
      <4>3. gen'[logins + 1] = typed[c]
        BY <3>3, <4>1 DEF Issue
      <4>4. typed[c] # password => logins + 1 \in stale'
        BY <3>3 DEF Issue
      <4>5. typed[c] \in Nat /\ password \in Nat
        OBVIOUS
      <4> QED BY <3>1, <3>2, <4>1, <4>2, <4>3, <4>4, <4>5
    <3>4. CASE UNCHANGED <<logins, session, token, gen, stale>>
      BY <3>1, <3>2, <3>4
    <3> QED BY <2>3, <3>3, <3>4 DEF CreateSession
  <2>4. CASE StartRequest(c)
    <3>1. \A t \in Token : session'[t] = "live" => session[t] = "live"
      BY <2>4 DEF StartRequest, LookedUp
    <3>2. \A d \in Client : pc[d] = "p_revoke" => pc'[d] = "p_revoke"
      BY <2>4 DEF StartRequest
    <3>3. UNCHANGED <<password, gen, stale, kept>>
      BY <2>4 DEF StartRequest
    <3> QED BY <3>1, <3>2, <3>3
  <2>5. CASE Logout(c)
    BY <2>5 DEF Logout
  <2>6. CASE ChangeStore(c)
    BY <2>6 DEF ChangeStore
  <2>7. CASE ChangeRevoke(c)
    BY <2>7 DEF ChangeRevoke, Revoked
  <2> QED BY <1>2, <2>1, <2>2, <2>3, <2>4, <2>5, <2>6, <2>7 DEF Request
<1>3. CASE (\E t \in Token : Expire(t)) \/ SweepSessions \/ SweepLimiters \/ Tick \/ Restart
  BY <1>3 DEF Expire, SweepSessions, SweepLimiters, Tick, Restart
<1> QED BY <1>1, <1>2, <1>3 DEF Next

\* No step overdraws the budget of a key.
LEMMA BudgetNext ==
  ASSUME TypeOK, TypeOK', BudgetHolds, [Next]_vars
  PROVE  BudgetHolds'
<1> USE SessionAssumption
<1> SUFFICES ASSUME NEW k \in Key PROVE Budget(k)'
  BY DEF BudgetHolds, Budget
<1>0. Budget(k) /\ bucket[k] \in Bucket /\ bucket'[k] \in Bucket
  BY DEF BudgetHolds, Budget, TypeOK
<1>1. CASE UNCHANGED vars
  BY <1>0, <1>1, BudgetKept DEF vars, Pending, Bucket
<1>2. ASSUME NEW c \in Client, Request(c) PROVE Budget(k)'
  <2> DEFINE same == bucket'[k] = bucket[k] /\ Pending(k)' \subseteq Pending(k)
  <2>0. same => Budget(k)'
    BY <1>0, BudgetKept DEF Bucket
  <2>1. CASE StartLogin(c)
    <3>1. CASE k = IpOf[c]
      BY <1>0, <2>1, <3>1, CheckKeeps DEF StartLogin, Label
    <3>2. CASE k # IpOf[c]
      BY <2>0, <2>1, <3>2 DEF StartLogin, CheckBlocked, Goto, Pending, TypeOK
    <3> QED BY <3>1, <3>2
  <2>2. CASE LoginCheckAccount(c) \/ ChangeCheck(c)
    <3>1. CASE k = Acct
      BY <1>0, <2>2, <3>1, CheckKeeps DEF LoginCheckAccount, ChangeCheck, Label
    <3>2. CASE k # Acct
      BY <2>0, <2>2, <3>2 DEF LoginCheckAccount, ChangeCheck, CheckBlocked, Goto, Pending, TypeOK
    <3> QED BY <3>1, <3>2
  <2>3. CASE LoginRecordIp(c)
    <3>1. CASE k = IpOf[c]
      <4>1. k # Acct
        BY <3>1
      <4>2. c \in Pending(k) /\ Pending(k)' \subseteq Pending(k) \ {c}
        BY <2>3, <3>1, <4>1 DEF LoginRecordIp, Goto, Pending, TypeOK
      <4>3. bucket'[k] = Recorded(bucket[k])
        BY <2>3, <3>1 DEF LoginRecordIp, RecordFailure, TypeOK
      <4> QED BY <1>0, <4>2, <4>3, RecordedCount, BudgetSpent
    <3>2. CASE k # IpOf[c]
      BY <2>0, <2>3, <3>2 DEF LoginRecordIp, RecordFailure, Goto, Pending, TypeOK
    <3> QED BY <3>1, <3>2
  <2>4. CASE RecordAccount(c)
    <3>1. CASE k = Acct
      <4>1. c \in Pending(k) /\ Pending(k)' \subseteq Pending(k) \ {c}
        BY <2>4, <3>1 DEF RecordAccount, Goto, Pending, TypeOK
      <4>2. bucket'[k] = Recorded(bucket[k])
        BY <2>4, <3>1 DEF RecordAccount, RecordFailure, TypeOK
      <4> QED BY <1>0, <4>1, <4>2, RecordedCount, BudgetSpent
    <3>2. CASE k # Acct
      BY <2>0, <2>4, <3>2 DEF RecordAccount, RecordFailure, Goto, Pending, TypeOK
    <3> QED BY <3>1, <3>2
  <2>5. CASE LoginAuthenticate(c) \/ ChangeAuthenticate(c)
    BY <2>0, <2>5 DEF LoginAuthenticate, ChangeAuthenticate, Goto, Pending, TypeOK
  <2>6. CASE CreateSession(c) \/ StartRequest(c) \/ Logout(c)
    BY <2>0, <2>6 DEF CreateSession, StartRequest, Logout, Goto, Pending, TypeOK
  <2>7. CASE ChangeStore(c) \/ ChangeRevoke(c)
    BY <2>0, <2>7 DEF ChangeStore, ChangeRevoke, Goto, Pending, TypeOK
  <2> QED BY <1>2, <2>1, <2>2, <2>3, <2>4, <2>5, <2>6, <2>7 DEF Request
<1>3. CASE (\E t \in Token : Expire(t)) \/ SweepSessions
  <2>1. UNCHANGED <<bucket, pc>>
    BY <1>3 DEF Expire, SweepSessions
  <2>2. Pending(k)' = Pending(k) /\ bucket[k].count \in Nat
    BY <1>0, <2>1 DEF Pending, Bucket
  <2> QED BY <1>0, <2>1, <2>2, BudgetKept
<1>4. CASE SweepLimiters
  BY <1>0, <1>4, BudgetKept, DrainedCount DEF SweepLimiters, Pending
<1>5. CASE Tick
  <2>1. bucket'[k].count = bucket[k].count /\ bucket[k].count \in Nat
    BY <1>0, <1>5, AgedCount DEF Tick, Bucket
  <2> QED BY <1>0, <1>5, <2>1, BudgetKept DEF Tick, Pending
<1>6. CASE Restart
  <2>1. bucket'[k].count = 0 /\ bucket[k].count \in Nat
    BY <1>0, <1>6 DEF Restart, Empty, Bucket
  <2>2. Pending(k)' = {}
    BY <1>6 DEF Restart, Pending
  <2> QED BY <1>0, <2>1, <2>2, BudgetKept
<1> QED BY <1>1, <1>2, <1>3, <1>4, <1>5, <1>6 DEF Next

\* The inductive invariant holds at first.
LEMMA InvInit == Init => IInv
<1> SUFFICES ASSUME Init PROVE OldSessionsExplained /\ BudgetHolds
  BY TypeInit DEF IInv
<1>1. OldSessionsExplained
  BY DEF Init, OldSessionsExplained
<1>2. ASSUME NEW k \in Key PROVE Budget(k)
  <2>1. bucket[k].count = 0 /\ Pending(k) = {} /\ Threshold[k] \in Nat \ {0}
    BY SessionAssumption DEF Init, Empty, Pending
  <2> QED BY <2>1, FS_EmptySet, PendingFinite DEF Budget
<1> QED BY <1>1, <1>2 DEF BudgetHolds, Budget

\* It holds in every state of every behaviour.
LEMMA Invariance == Spec => []IInv
<1>1. IInv /\ [Next]_vars => IInv'
  BY TypeNext, OldSessionsNext, BudgetNext DEF IInv
<1> QED BY InvInit, <1>1, PTL DEF Spec

-----------------------------------------------------------------------------
(* The theorems.                                                           *)

\* Buckets, sessions and requests keep their types.
THEOREM TypeCorrect == Spec => []TypeOK
BY Invariance, PTL DEF IInv

\* After a change of password has been answered no session of an older password
\* remains but those it spares or those whose login it overtook, however
\* logins, changes, logouts and restarts interleave (handleChangePassword).
THEOREM OldSessionsAreExplained == Spec => []OldSessionsExplained
BY Invariance, PTL DEF IInv

\* A key is never charged more than its threshold and one failure for every
\* other client, although the limiter is checked and charged in two steps.
THEOREM BudgetIsKept == Spec => []BudgetHolds
BY Invariance, PTL DEF IInv
============================================================================
