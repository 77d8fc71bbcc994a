----------------------------- MODULE JwksCache ------------------------------
(***************************************************************************)
(* id_token verification against an issuer's published keys                *)
(* (packages/auth/src/providers/jwks.ts): a cache with a lifetime, a forced *)
(* refetch when a key id is missing, several verifications at once.  Time  *)
(* is kept as ages, counted up to where they stop mattering.               *)
(***************************************************************************)
EXTENDS Integers, FiniteSets, FiniteSetsExt

CONSTANTS
    Verifications,
    Kids,               \* key ids the issuer may publish; "none" is a JWT without one
    Ttl, MinRefresh,    \* ttlMs, MIN_REFRESH_MS
    FetchTime           \* bound: the longest a fetch takes to answer or give up

ASSUME JwksAssumption == Ttl \in Nat /\ MinRefresh \in 1 .. Ttl /\ FetchTime \in Nat

VARIABLES
    jwksKeys,           \* the issuer's keys: published or not, and since when
    jwksCache,          \* the entry of this issuer's URI, or NoEntry
    verification        \* [Verifications -> a call of verifyIdToken]
jwksVars == <<jwksKeys, jwksCache, verification>>

NoEntry == [keys |-> {}, age |-> -1]
Published == {k \in Kids : jwksKeys[k].published}
MaxJwksAge == Ttl + FetchTime + 1
Fresh == [phase |-> "idle", kid |-> "none", keys |-> {}, took |-> 0, forced |-> FALSE]

JwksInit ==
    /\ jwksKeys \in [Kids -> [published : BOOLEAN, since : {MaxJwksAge}]]
    /\ jwksCache = NoEntry
    /\ verification = [v \in Verifications |-> Fresh]

\* match(): the named key, or the only one when the token names none
Matches(keys, kid) == IF kid = "none" THEN Cardinality(keys) = 1 ELSE kid \in keys

\* May a miss fetch again?  Not when the entry was stored a moment ago
RefetchWhenStale == jwksCache = NoEntry \/ jwksCache.age >= Ttl
MayRefetch == jwksCache = NoEntry \/ jwksCache.age >= MinRefresh

\* After a look at the cached or fetched keys: found, refused, or fetched again
Selected(v, kid, keys, again) ==
    IF Matches(keys, kid) THEN [Fresh EXCEPT !.phase = "found", !.kid = kid]
    ELSE IF again THEN [Fresh EXCEPT !.phase = "asked", !.kid = kid, !.forced = TRUE]
    ELSE [Fresh EXCEPT !.phase = "no key", !.kid = kid]

\* verifyIdToken(): a fresh entry is used, anything else is fetched
Verify(v) ==
    /\ verification[v].phase \in {"idle", "found", "no key", "failed"}
    /\ \E kid \in Kids \cup {"none"} :
         verification' = [verification EXCEPT ![v] =
             IF jwksCache # NoEntry /\ jwksCache.age < Ttl
             THEN Selected(v, kid, jwksCache.keys, MayRefetch)
             ELSE [Fresh EXCEPT !.phase = "asked", !.kid = kid]]
    /\ UNCHANGED <<jwksKeys, jwksCache>>

\* The issuer reads its keys at some moment of the request ...
IssuerReads(v) ==
    /\ verification[v].phase = "asked"
    /\ verification' = [verification EXCEPT ![v].phase = "answering", ![v].keys = Published]
    /\ UNCHANGED <<jwksKeys, jwksCache>>

\* ... and the answer is stored when it arrives, whatever was stored meanwhile.
\* The second look after a first fetch finds the entry just stored.
FetchArrives(v) ==
    LET w == verification[v]
    IN  /\ w.phase = "answering"
        /\ jwksCache' = [keys |-> w.keys, age |-> 0]
        /\ verification' = [verification EXCEPT ![v] = Selected(v, w.kid, w.keys, FALSE)]
        /\ UNCHANGED jwksKeys

FetchGivesUp(v) ==
    /\ verification[v].phase \in {"asked", "answering"}
    /\ verification' = [verification EXCEPT ![v] = [Fresh EXCEPT !.phase = "failed"]]
    /\ UNCHANGED <<jwksKeys, jwksCache>>

ClearCache ==
    /\ jwksCache' = NoEntry
    /\ UNCHANGED <<jwksKeys, verification>>

\* The issuer publishes a key or withdraws one
IssuerRotates ==
    /\ \E k \in Kids :
         jwksKeys' = [jwksKeys EXCEPT ![k] = [published |-> ~@.published, since |-> 0]]
    /\ UNCHANGED <<jwksCache, verification>>

Older(age) == IF age < 0 THEN age ELSE Min({age + 1, MaxJwksAge})
InFlight(v) == verification[v].phase \in {"asked", "answering"}

JwksTick ==
    /\ \A v \in Verifications : InFlight(v) => verification[v].took < FetchTime
    /\ jwksKeys' = [k \in Kids |-> [jwksKeys[k] EXCEPT !.since = Older(@)]]
    /\ jwksCache' = [jwksCache EXCEPT !.age = Older(@)]
    /\ verification' = [v \in Verifications |->
           IF InFlight(v) THEN [verification[v] EXCEPT !.took = @ + 1] ELSE Fresh]

JwksNext ==
    \/ \E v \in Verifications :
         Verify(v) \/ IssuerReads(v) \/ FetchArrives(v) \/ FetchGivesUp(v)
    \/ ClearCache \/ IssuerRotates \/ JwksTick

JwksSpec == JwksInit /\ [][JwksNext]_jwksVars

-----------------------------------------------------------------------------
(* Properties. *)

\* How stale the answer of a verification can be, fetches that overtake each
\* other included: a key published for longer than a refetch may be held off and
\* a fetch may take is found, and one withdrawn for longer than a cache entry
\* and a fetch may last is not.
JwksStaleness ==
    \A v \in Verifications :
        LET w == verification[v]
            key == jwksKeys[w.kid]
        IN  w.kid # "none" =>
            /\ w.phase = "no key" /\ key.published => key.since <= MinRefresh + FetchTime
            /\ w.phase = "found" /\ ~key.published => key.since <= Ttl + FetchTime

=============================================================================
