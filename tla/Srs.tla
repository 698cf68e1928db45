--------------------------------- MODULE Srs ---------------------------------
(***************************************************************************)
(* Sender rewriting, internal/srs/srs.go.  A local part is the sequence of *)
(* its pieces between "=" signs; the hash is an injective function of what *)
(* it covers.  Time is in hours.                                           *)
(***************************************************************************)
EXTENDS Integers, Sequences

CONSTANTS
    Forwarder,   \* the domain of this server
    MaxAge       \* hours for which a rewritten address is accepted

ASSUME SrsAssumption == MaxAge \in Nat

Wrap == 1024     \* the day stamp has ten bits
Day == 24

Address(local, domain) == [local |-> local, domain |-> domain]

\* hmacShort
Hash(payload) == <<"hash", payload>>

\* timestamp: the two base32 characters of the day.
Stamp(now) == LET d == (now \div Day) % Wrap IN <<"stamp", d \div 32, d % 32>>

Encode(a, now) ==
    LET payload == <<Stamp(now), a.domain>> \o a.local
    IN Address(<<"SRS0", Hash(payload)>> \o payload, Forwarder)

\* decodeAge: the latest day that has the stamp.
Age_NoWrap(stamp, now) ==
    LET today == now \div Day
        day == stamp[2] * 32 + stamp[3]
    IN now - (today - ((today % Wrap) - day)) * Day

Age(stamp, now) ==
    LET today == now \div Day
        day == stamp[2] * 32 + stamp[3]
    IN now - (today - ((today - day) % Wrap)) * Day

Is(a) == Head(a.local) = "SRS0" /\ Len(a.local) > 1

\* The errors of Decode, which are no addresses.
NotSrs == Address(<<>>, "not SRS")
SrsError == Address(<<>>, "refused")

\* Decode: SplitN leaves all that follows the domain in one piece.
Decode(a, now) ==
    IF ~Is(a) THEN NotSrs
    ELSE IF Len(a.local) < 5 THEN SrsError
    ELSE LET payload == SubSeq(a.local, 3, Len(a.local)) IN
         IF a.local[2] # Hash(payload) THEN SrsError
         ELSE IF MaxAge > 0 /\ Age(a.local[3], now) > MaxAge THEN SrsError
         ELSE Address(SubSeq(a.local, 5, Len(a.local)), a.local[4])
=============================================================================
