----------------------------- MODULE CloudKeys ------------------------------
(***************************************************************************)
(* The key providers of @nuraljs/auth (kms/) under the token engine: a     *)
(* fleet of servers signs and verifies with keys each keeps in memory.  A  *)
(* "cloud" server polls a vault (cloud-provider.ts); a "local" or "static" *)
(* one keeps what it was built with.                                       *)
(*                                                                         *)
(* Time is kept as ages, counted up to where they stop mattering: how long *)
(* ago a key was retired, how long ago the token was signed, how long      *)
(* until the poll timer fires.                                             *)
(***************************************************************************)
EXTENDS TokenEngine, FiniteSetsExt

CONSTANTS
    Servers,
    Versions,           \* version ids the vault may hold, the highest primary
    Secret,             \* the secret of each version
    Engine,             \* engine options of each server
    Skew,               \* how far each server's clock is ahead
    OverlapWindow, PollInterval, BackoffInitial, BackoffMax,
    MaxFailures,        \* bound: failures counted, past which the delay is BackoffMax
    MaxAge,             \* bound: a token's age past every expiry and the overlap window
    LocalKeys,          \* the list a local provider is built with
    Alterations         \* what may happen to a token between two servers

ASSUME KeysAssumption ==
    /\ Versions \subseteq Nat
    /\ \A v \in Versions : Secret[v] # ""
    /\ Engine \in [Servers -> Engines] /\ Skew \in [Servers -> Int]
    /\ OverlapWindow \in Nat /\ PollInterval \in Nat \ {0}
    /\ BackoffInitial \in Nat \ {0} /\ BackoffMax \in Nat \ {0}
    /\ MaxFailures \in Nat \ {0}
    /\ BackoffInitial * 2 ^ (MaxFailures - 1) >= BackoffMax
    /\ MaxAge \in Nat /\ MaxAge > OverlapWindow
    /\ \A s, t \in Servers :
          MaxAge > Engine[s].expiresIn + Engine[s].tolerance + Skew[t] - Skew[s]
    /\ Alterations \subseteq {"none", "version", "key id", "bits", "cut"}

VARIABLES
    vault,              \* the versions the vault holds
    provider,           \* [Servers -> the closure of its key provider]
    token,              \* the latest token of the fleet, or NoToken
    call                \* the sign or verify in progress, or how the last one ended
keyVars == <<vault, provider, token, call>>

NotCached == -2         \* states of a key that are not a retirement age
InVault == -1
Off == -1
NoToken == [age |-> -1]

-----------------------------------------------------------------------------
(* Providers. *)

Cached(p) == {v \in Versions : p.keys[v] # NotCached}
Retired(p) == {v \in Versions : p.keys[v] >= 0}

\* live(): a retired key is still handed out through the overlap window
Live(p, v) == v \in Versions /\ p.keys[v] # NotCached /\ p.keys[v] <= OverlapWindow

FixedProvider(kind, list) ==
    [kind |-> kind, primary |-> list[1],
     keys |-> [v \in Versions |-> IF v \in {list[i] : i \in DOMAIN list}
                                  THEN InVault ELSE NotCached],
     fetch |-> "idle", snapshot |-> {}, polls |-> FALSE,
     due |-> Off, disposed |-> FALSE, failures |-> 0]
LocalProvider == FixedProvider("local", LocalKeys)
StaticProvider == FixedProvider("static", <<1>>)
CloudProvider ==
    [kind |-> "cloud", primary |-> 0, keys |-> [v \in Versions |-> NotCached],
     fetch |-> "idle", snapshot |-> {}, polls |-> FALSE,
     due |-> PollInterval, disposed |-> FALSE, failures |-> 0]

\* No call in progress: the status the guard gave the last one, 200 for a sign
Done(status) == [op |-> "none", at |-> "none", phase |-> "done", status |-> status]
Return(verdict) == call' = Done(GuardStatus("Bearer <token>", verdict))

KeyInit ==
    /\ vault \in {V \in SUBSET Versions : V # {}}
    /\ provider \in [Servers -> {CloudProvider, LocalProvider, StaticProvider}]
    /\ token = NoToken
    /\ call = Done(200)

-----------------------------------------------------------------------------
(* Refreshing. *)

\* refresh(): join the fetch in flight, or start one
Refresh(p, polls) ==
    [p EXCEPT !.fetch = IF @ = "idle" THEN "reading" ELSE @,
              !.polls = @ \/ polls]

\* scheduleNext(): nothing after dispose()
ScheduleAlways(p, delay) == [p EXCEPT !.due = delay]
ScheduleNext(p, delay) == [p EXCEPT !.due = IF p.disposed THEN Off ELSE delay]

\* backoffDelay(): equal jitter below a doubling ceiling
BackoffDelays(attempt) ==
    LET ceiling == Min({BackoffMax, BackoffInitial * 2 ^ (attempt - 1)})
    IN  (ceiling \div 2) .. ceiling

\* doRefresh(): the vault's keys, and those that vanished from it not long ago
RetiredAnew(age) == IF age = NotCached THEN NotCached ELSE 0
CarriedOverOnce(age) == IF age = InVault THEN 0 ELSE NotCached
CarriedOver(age) ==
    LET retired == IF age = InVault THEN 0 ELSE age
    IN  IF age # NotCached /\ retired <= OverlapWindow THEN retired ELSE NotCached

Refreshed(p) ==
    [p EXCEPT !.keys = [v \in Versions |-> IF v \in p.snapshot THEN InVault
                                           ELSE CarriedOver(@[v])],
              !.primary = Max(p.snapshot),
              !.fetch = "idle", !.snapshot = {}, !.polls = FALSE]

\* Calls that waited for a cold cache go on, or fail with the refresh
Loading(s) == call.at = s /\ call.phase = "loading"

PollFires(s) ==
    /\ provider[s].due = 0
    /\ provider' = [provider EXCEPT ![s] = Refresh([@ EXCEPT !.due = Off], TRUE)]
    /\ UNCHANGED <<vault, token, call>>

RefreshNow(s) ==
    /\ provider[s].kind = "cloud" /\ provider[s].fetch = "idle"
    /\ provider' = [provider EXCEPT ![s] = Refresh(@, FALSE)]
    /\ UNCHANGED <<vault, token, call>>

\* The vault reads its versions at some moment of the fetch ...
VaultReads(s) ==
    /\ provider[s].fetch = "reading"
    /\ provider' = [provider EXCEPT ![s].fetch = "read", ![s].snapshot = vault]
    /\ UNCHANGED <<vault, token, call>>

\* ... and the answer arrives later: parsed, sorted and swapped in at once
FetchResolves(s) ==
    LET p == provider[s]
        fresh == Refreshed(p)
    IN  /\ p.fetch = "read"
        /\ p.snapshot # {}
        /\ provider' = [provider EXCEPT ![s] =
               IF p.polls THEN ScheduleNext([fresh EXCEPT !.failures = 0], PollInterval)
               ELSE fresh]
        /\ IF Loading(s) THEN call' = [call EXCEPT !.phase = "ready"] ELSE UNCHANGED call
        /\ UNCHANGED <<vault, token>>

\* The fetch rejects, or the vault's answer does not parse
FetchFails(s) ==
    LET p == [provider[s] EXCEPT !.fetch = "idle", !.snapshot = {}, !.polls = FALSE]
        attempt == Min({p.failures + 1, MaxFailures})
    IN  /\ provider[s].fetch # "idle"
        /\ IF provider[s].polls
           THEN \E delay \in BackoffDelays(attempt) :
                  provider' = [provider EXCEPT ![s] =
                      ScheduleNext([p EXCEPT !.failures = attempt], delay)]
           ELSE provider' = [provider EXCEPT ![s] = p]
        /\ IF Loading(s) THEN Return("unavailable") ELSE UNCHANGED call
        /\ UNCHANGED <<vault, token>>

Dispose(s) ==
    /\ provider[s].kind = "cloud" /\ ~provider[s].disposed
    /\ provider' = [provider EXCEPT ![s].disposed = TRUE, ![s].due = Off]
    /\ UNCHANGED <<vault, token, call>>

-----------------------------------------------------------------------------
(* Signing and verifying. *)

\* ensureLoaded(): only an empty cache waits for the vault
Begin(s, op) ==
    LET cold == Cached(provider[s]) = {}
    IN  /\ call.phase = "done"
        /\ call' = [op |-> op, at |-> s, status |-> 0,
                    phase |-> IF cold THEN "loading" ELSE "ready"]
        /\ provider' = IF cold THEN [provider EXCEPT ![s] = Refresh(@, FALSE)] ELSE provider
        /\ UNCHANGED <<vault, token>>
Pending(s, op, phase) == call.at = s /\ call.op = op /\ call.phase = phase

SignCall(s) == Begin(s, "sign")

\* getPrimaryKey() answers; the claims are stamped and sealed
Sign(s) ==
    LET p == provider[s]
        key == DeriveKeyMaterial(Secret[p.primary], p.primary)
    IN  /\ Pending(s, "sign", "ready")
        /\ IF Live(p, p.primary)
           THEN /\ token' = [age |-> 0, signer |-> s,
                             strangers |-> {t \in Servers : provider[t].keys[p.primary] # InVault},
                             packet |-> SignPacket(Engine[s], p.primary, key)]
                /\ Return("ok")
           ELSE Return("unavailable") /\ UNCHANGED token
        /\ UNCHANGED <<vault, provider>>

VerifyCall(s) == token # NoToken /\ Begin(s, "verify")

\* The hook is asked before anything else and may deny
RateLimited(s) ==
    /\ token # NoToken /\ call.phase = "done"
    /\ Return("rate_limited")
    /\ UNCHANGED <<vault, provider, token>>

\* What reaches the verifier of a signed packet
Altered(packet, alteration) ==
    CASE alteration = "none" -> packet
      [] alteration = "version" -> [packet EXCEPT !.version = @ + 1]
      [] alteration = "key id" -> [packet EXCEPT !.keyId = @ + 1]
      [] alteration = "bits" -> [packet EXCEPT !.intact = FALSE]
      [] alteration = "cut" -> [packet EXCEPT !.bytes = HEADER_LENGTH - 1]

\* The reader's clock on the token's scale
Now(s) == token.age + Skew[s] - Skew[token.signer]

Checked(s, packet) ==
    VerifyPacket(Engine[s], packet, Live(provider[s], packet.keyId),
                 IF packet.keyId \in Versions
                 THEN DeriveKeyMaterial(Secret[packet.keyId], packet.keyId) ELSE <<>>,
                 Now(s))

\* getKey() answers; decryption and the claims, then the revocation hook
VerifyOpens(s) ==
    /\ Pending(s, "verify", "ready")
    /\ \E a \in Alterations :
         LET packet == Altered(token.packet, a)
             error == Checked(s, packet)
         IN  IF error # "ok" THEN Return(error)
             ELSE IF Engine[s].revocation THEN call' = [call EXCEPT !.phase = "revocation"]
             ELSE Return(ParseClaims(Engine[s], packet.claims))
    /\ UNCHANGED <<vault, provider, token>>

\* The hook answers with what the revocation store held then, or rejects
RevocationAnswers(s) ==
    /\ Pending(s, "verify", "revocation")
    /\ \E revoked \in BOOLEAN :
         Return(IF revoked THEN "token_revoked"
                ELSE ParseClaims(Engine[s], token.packet.claims))
    /\ UNCHANGED <<vault, provider, token>>
RevocationRejects(s) ==
    /\ Pending(s, "verify", "revocation")
    /\ Return("unavailable")
    /\ UNCHANGED <<vault, provider, token>>

-----------------------------------------------------------------------------
(* The environment: the operator's vault, and time. *)

\* A version is added, removed, or put back by a rollback.  An empty vault is
\* one whose answers do not parse: FetchFails.
VaultChanges ==
    /\ \E v \in Versions : vault' = IF v \in vault THEN vault \ {v} ELSE vault \cup {v}
    /\ vault' # {}
    /\ UNCHANGED <<provider, token, call>>

Aged(age) == IF age < 0 THEN age ELSE Min({age + 1, OverlapWindow + 1})

\* Timers fire on time: no instant passes one that is due
Tick ==
    /\ \A s \in Servers : provider[s].due # 0
    /\ provider' = [s \in Servers |-> [provider[s] EXCEPT
           !.due = IF @ = Off THEN Off ELSE @ - 1,
           !.keys = [v \in Versions |-> Aged(@[v])]]]
    /\ token' = IF token = NoToken THEN token
                ELSE [token EXCEPT !.age = Min({@ + 1, MaxAge})]
    /\ UNCHANGED <<vault, call>>

KeyNext ==
    \/ \E s \in Servers :
         \/ PollFires(s) \/ RefreshNow(s) \/ VaultReads(s)
         \/ FetchResolves(s) \/ FetchFails(s) \/ Dispose(s)
         \/ SignCall(s) \/ Sign(s)
         \/ VerifyCall(s) \/ RateLimited(s) \/ VerifyOpens(s)
         \/ RevocationAnswers(s) \/ RevocationRejects(s)
    \/ VaultChanges \/ Tick

KeySpec == KeyInit /\ [][KeyNext]_keyVars

\* Time passes and timers fire; a vault asked again and again answers in the end
KeyFairness(s) ==
    /\ SF_keyVars(Tick) /\ WF_keyVars(PollFires(s))
    /\ SF_keyVars(VaultReads(s)) /\ SF_keyVars(FetchResolves(s))

-----------------------------------------------------------------------------
(* Properties. *)

\* A token signed while a server counted its key among the vault's is not
\* refused there for its key before it expires, whatever is rotated, polled or
\* missed meanwhile: the overlap window covers a token's whole life.
TokenOutlivesRotation ==
    \A s \in Servers :
        (/\ token # NoToken
         /\ token.age < Engine[token.signer].expiresIn
         /\ s \notin token.strangers)
        => Checked(s, token.packet) # "unknown_key"

\* dispose() ends polling for good, also when it falls into a poll under way
NoPollAfterDispose == \A s \in Servers : provider[s].disposed => provider[s].due = Off

\* Once the vault settles, every server that is not disposed comes to hold just
\* its keys and to sign with the highest: no failure ends polling, and no key
\* that left the vault stays accepted.
Follows(s) ==
    /\ provider[s].primary = Max(vault)
    /\ {v \in Versions : Live(provider[s], v)} = vault
Polls(s) == provider[s].kind = "cloud" /\ ~provider[s].disposed
CacheFollowsVault ==
    \A s \in Servers :
        (<>[][FALSE]_vault /\ <>[]Polls(s)) => <>[]Follows(s)

\* What the inspector shows of a packet explains what verify() does with it: an
\* accepted one decodes as neither expired nor early (tolerance aside), and a
\* refusal on time or on the version shows in the report.
InspectorExplains ==
    \A s \in Servers, a \in Alterations :
        (token # NoToken /\ token.packet.keyId + 1 \in Versions) =>
        LET packet == Altered(token.packet, a)
            error == Checked(s, packet)
            report == DecodeToken(packet, Secret[packet.keyId], Now(s))
        IN  /\ error = "ok" =>
                 /\ report.decoded /\ report.header.versionAccepted
                 /\ report.temporal.expired \/ report.temporal.notYetValid
                    => Engine[s].tolerance > 0
            /\ error = "token_expired" => report.decoded /\ report.temporal.expired
            /\ error = "token_not_yet_valid" => report.decoded /\ report.temporal.notYetValid
            /\ a = "version" => report.decoded /\ ~report.header.versionAccepted

=============================================================================
