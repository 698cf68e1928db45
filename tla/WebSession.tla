----------------------------- MODULE WebSession -----------------------------
(***************************************************************************)
(* Logging in to the webmail server: internal/webmail/auth.go, session.go  *)
(* and the failure limiters, for one account.                              *)
(*                                                                         *)
(* A client is a browser that makes one request at a time; requests of     *)
(* different clients run in goroutines of their own.  The limiter and the  *)
(* session store each do one operation under their mutex, and between two  *)
(* of them, and around each call of the database, others run: pc[c] is the *)
(* next of these steps of c's request.  A password is the number of the    *)
(* change that set it.                                                     *)
(***************************************************************************)
EXTENDS LoginLimiter, FiniteSets

CONSTANTS
    Client,       \* browsers
    IP,           \* addresses they connect from
    IpOf,         \* IpOf[c]: the address of client c
    Acct,         \* the account's key in the account limiter
    Threshold,    \* Threshold[k]: failures at which key k is blocked
    MaxLogins,    \* bound: successful logins
    MaxChanges    \* bound: changes of the password

Key == IP \cup {Acct}
Token == 1 .. MaxLogins

ASSUME SessionAssumption ==
    /\ IsFiniteSet(Client)
    /\ IpOf \in [Client -> IP]
    /\ Acct \notin IP
    /\ Threshold \in [Key -> Nat \ {0}]
    /\ MaxLogins \in Nat /\ MaxChanges \in Nat

VARIABLES
    bucket,    \* bucket[k]: the limiter's bucket of key k
    password,  \* the account's password
    session,   \* session[t]: "none", "live" or "expired" (past its TTL)
    logins,    \* tokens issued so far
    pc,        \* pc[c]: the next step of c's request, "idle" between requests
    typed,     \* typed[c]: the password in c's request
    token,     \* token[c]: the token c holds and sends, 0 for none
    gen,       \* history: gen[t], the password that the login of t had checked
    stale,     \* history: tokens issued after the password they were checked
               \* against had been replaced
    kept       \* history: tokens spared by the change of password they made, or
               \* by one that was stored and reported as failed

vars == <<bucket, password, session, logins, pc, typed, token, gen, stale, kept>>

Label == {"idle", "l_acct", "l_auth", "l_rec", "l_create",
          "r_acct", "p_check", "p_auth", "p_set", "p_revoke", "o_delete"}

Init ==
    /\ bucket = [k \in Key |-> Empty]
    /\ password = 0
    /\ session = [t \in Token |-> "none"]
    /\ logins = 0
    /\ pc = [c \in Client |-> "idle"]
    /\ typed = [c \in Client |-> 0]
    /\ token = [c \in Client |-> 0]
    /\ gen = [t \in Token |-> 0]
    /\ stale = {}
    /\ kept = {}

-----------------------------------------------------------------------------
Goto(c, label) == pc' = [pc EXCEPT ![c] = label]

\* Blocked(k): drain, then compare; a blocked request is answered 429.
CheckBlocked(c, k, label) ==
    /\ bucket' = [bucket EXCEPT ![k] = Drained(@)]
    /\ Goto(c, IF AtThreshold(Drained(bucket[k]), Threshold[k]) THEN "idle" ELSE label)

RecordFailure(k) == bucket' = [bucket EXCEPT ![k] = Recorded(@)]

\* Authenticate: the password of this moment, unless the database fails.
Authentic(c) == {ok \in BOOLEAN : ok => typed[c] = password}

-----------------------------------------------------------------------------
(* handleLogin.                                                            *)

\* The password in the request: any that the account has or had.
StartLogin(c) ==
    /\ pc[c] = "idle" /\ logins < MaxLogins
    /\ \E p \in 0 .. password : typed' = [typed EXCEPT ![c] = p]
    /\ CheckBlocked(c, IpOf[c], "l_acct")
    /\ UNCHANGED <<password, session, logins, token, gen, stale, kept>>

LoginCheckAccount(c) ==
    /\ pc[c] = "l_acct"
    /\ CheckBlocked(c, Acct, "l_auth")
    /\ UNCHANGED <<password, session, logins, typed, token, gen, stale, kept>>

LoginAuthenticate(c) ==
    /\ pc[c] = "l_auth"
    /\ \E ok \in Authentic(c) : Goto(c, IF ok THEN "l_create" ELSE "l_rec")
    /\ UNCHANGED <<bucket, password, session, logins, typed, token, gen, stale, kept>>

\* Any error of Authenticate is a failure of the address, then of the account.
LoginRecordIp(c) ==
    /\ pc[c] = "l_rec"
    /\ RecordFailure(IpOf[c])
    /\ Goto(c, "r_acct")
    /\ UNCHANGED <<password, session, logins, typed, token, gen, stale, kept>>

\* The check that follows only decides on a log line.
RecordAccount(c) ==
    /\ pc[c] = "r_acct"
    /\ RecordFailure(Acct)
    /\ Goto(c, "idle")
    /\ UNCHANGED <<password, session, logins, typed, token, gen, stale, kept>>

\* sessions.create: a fresh token for whoever has passed Authenticate, unless the
\* random source fails.  The answer that carries it may be lost, or not be made.
Issue(c, t) ==
    /\ logins' = t
    /\ session' = [session EXCEPT ![t] = "live"]
    /\ \E received \in {0, t} : token' = [token EXCEPT ![c] = received]
    /\ gen' = [gen EXCEPT ![t] = typed[c]]
    /\ stale' = IF typed[c] = password THEN stale ELSE stale \cup {t}

CreateSession(c) ==
    /\ pc[c] = "l_create"
    /\ \/ logins < MaxLogins /\ Issue(c, logins + 1)
       \/ UNCHANGED <<logins, session, token, gen, stale>>
    /\ Goto(c, "idle")
    /\ UNCHANGED <<bucket, password, typed, kept>>

-----------------------------------------------------------------------------
(* auth: look the token up, then run the handler.                          *)

\* lookup: a token past its TTL is removed.
Valid(c) == token[c] # 0 /\ session[token[c]] = "live"

LookedUp(c) ==
    IF token[c] # 0 /\ session[token[c]] = "expired"
    THEN [session EXCEPT ![token[c]] = "none"] ELSE session

\* A request for the change of password, or for logging out; it ends here when
\* the token, the CSRF pair or the account is not accepted.
StartRequest(c) ==
    /\ pc[c] = "idle" /\ token[c] # 0
    /\ session' = LookedUp(c)
    /\ \E label \in {"p_check", "o_delete", "idle"}, p \in 0 .. password :
          /\ label = "p_check" => password < MaxChanges
          /\ Goto(c, IF Valid(c) THEN label ELSE "idle")
          /\ typed' = [typed EXCEPT ![c] = p]
    /\ UNCHANGED <<bucket, password, logins, token, gen, stale, kept>>

\* handleLogout.
Logout(c) ==
    /\ pc[c] = "o_delete"
    /\ session' = [session EXCEPT ![token[c]] = "none"]
    /\ token' = [token EXCEPT ![c] = 0]
    /\ Goto(c, "idle")
    /\ UNCHANGED <<bucket, password, logins, typed, gen, stale, kept>>

-----------------------------------------------------------------------------
(* handleChangePassword.                                                   *)

ChangeCheck(c) ==
    /\ pc[c] = "p_check"
    /\ CheckBlocked(c, Acct, "p_auth")
    /\ UNCHANGED <<password, session, logins, typed, token, gen, stale, kept>>

\* The current password is wrong, or the new one is not acceptable, or it is
\* hashed and stored next.
ChangeAuthenticate(c) ==
    /\ pc[c] = "p_auth"
    /\ \E ok \in Authentic(c), label \in {"idle", "p_set"} :
          Goto(c, IF ok THEN label ELSE "r_acct")
    /\ UNCHANGED <<bucket, password, session, logins, typed, token, gen, stale, kept>>

\* SetAccountPassword; on an error the request ends, and no session is revoked,
\* even if the new password is in the database.
ChangeStore(c) ==
    /\ pc[c] = "p_set"
    /\ \/ password < MaxChanges /\ password' = password + 1 /\ Goto(c, "p_revoke") /\ UNCHANGED kept
       \/ Goto(c, "idle") /\ UNCHANGED <<password, kept>>
       \/ /\ password < MaxChanges /\ password' = password + 1 /\ Goto(c, "idle")
          /\ kept' = kept \cup {t \in Token : session[t] = "live"}
    /\ UNCHANGED <<bucket, session, logins, typed, token, gen, stale>>

\* deleteByAccount: the sessions that a change by c removes.
Revoked_Own(c) == {token[c]}
Revoked(c) == Token \ {token[c]}

ChangeRevoke(c) ==
    /\ pc[c] = "p_revoke"
    /\ session' = [t \in Token |-> IF t \in Revoked(c) THEN "none" ELSE session[t]]
    /\ kept' = kept \cup {token[c]}
    /\ Goto(c, "idle")
    /\ UNCHANGED <<bucket, password, logins, typed, token, gen, stale>>

-----------------------------------------------------------------------------
(* Time and the server.                                                    *)

\* A session reaches its TTL.
Expire(t) ==
    /\ session[t] = "live"
    /\ session' = [session EXCEPT ![t] = "expired"]
    /\ UNCHANGED <<bucket, password, logins, pc, typed, token, gen, stale, kept>>

SweepSessions ==
    /\ session' = [t \in Token |-> IF session[t] = "expired" THEN "none" ELSE session[t]]
    /\ UNCHANGED <<bucket, password, logins, pc, typed, token, gen, stale, kept>>

SweepLimiters ==
    /\ bucket' = [k \in Key |-> Drained(bucket[k])]
    /\ UNCHANGED <<password, session, logins, pc, typed, token, gen, stale, kept>>

Tick ==
    /\ bucket' = [k \in Key |-> Aged(bucket[k])]
    /\ UNCHANGED <<password, session, logins, pc, typed, token, gen, stale, kept>>

\* Sessions and limiters are in memory only: a restart forgets them.
Restart ==
    /\ bucket' = [k \in Key |-> Empty]
    /\ session' = [t \in Token |-> "none"]
    /\ pc' = [c \in Client |-> "idle"]
    /\ UNCHANGED <<password, logins, typed, token, gen, stale, kept>>

Request(c) ==
    \/ StartLogin(c) \/ LoginCheckAccount(c) \/ LoginAuthenticate(c)
    \/ LoginRecordIp(c) \/ RecordAccount(c) \/ CreateSession(c)
    \/ StartRequest(c) \/ Logout(c)
    \/ ChangeCheck(c) \/ ChangeAuthenticate(c) \/ ChangeStore(c) \/ ChangeRevoke(c)

Next ==
    \/ \E c \in Client : Request(c)
    \/ \E t \in Token : Expire(t)
    \/ SweepSessions
    \/ SweepLimiters
    \/ Tick
    \/ Restart

Spec == Init /\ [][Next]_vars

\* Time passes; nothing else is assumed.
FairSpec == Spec /\ WF_vars(Tick)

-----------------------------------------------------------------------------
(* Properties.                                                             *)

TypeOK ==
    /\ bucket \in [Key -> Bucket]
    /\ password \in Nat
    /\ session \in [Token -> {"none", "live", "expired"}]
    /\ logins \in 0 .. MaxLogins
    /\ pc \in [Client -> Label]
    /\ typed \in [Client -> Nat]
    /\ token \in [Client -> 0 .. MaxLogins]
    /\ gen \in [Token -> Nat]
    /\ stale \subseteq Token
    /\ kept \subseteq 0 .. MaxLogins

\* Once a change of password has been answered, a session that was opened with
\* an older password is the one that made a change, or its login had been
\* checked before the change and was completed after it (handleChangePassword:
\* "Revoke any OTHER sessions for this account").  Only a change that is stored
\* although the database reports an error spares the others.
OldSessionsExplained ==
    \A t \in Token :
        session[t] = "live" /\ gen[t] < password
            => t \in stale \cup kept \/ \E c \in Client : pc[c] = "p_revoke"

\* The requests of key k that have passed the limiter and may still fail.
Pending(k) ==
    IF k = Acct THEN {c \in Client : pc[c] \in {"l_auth", "l_rec", "r_acct", "p_auth"}}
    ELSE {c \in Client : IpOf[c] = k /\ pc[c] \in {"l_acct", "l_auth", "l_rec"}}

\* Checking the limiter and recording a failure are separate steps; still the
\* failures of a key, counted with those in flight, never exceed its threshold
\* by the number of clients (Blocked and RecordFailure, ratelimit.go).
BudgetHolds ==
    \A k \in Key :
        bucket[k].count + Cardinality(Pending(k)) <= Threshold[k] - 1 + Cardinality(Client)

\* Nobody is locked out for good: whatever the clients try, and however often,
\* each key is unblocked again and again (drain).
Unblocks == \A k \in Key : []<>(~AtThreshold(Drained(bucket[k]), Threshold[k]))
=============================================================================
