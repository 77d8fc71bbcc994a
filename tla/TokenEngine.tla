---------------------------- MODULE TokenEngine -----------------------------
(***************************************************************************)
(* The binary tokens of @nuraljs/auth: what sign() puts in a packet, what  *)
(* verify() checks and in which order (token/binary-token-engine.ts), what *)
(* the inspector reports of the same packet (token/inspect.ts), and what   *)
(* the guard answers (auth.ts).  ChaCha20-Poly1305 is taken at its word: a *)
(* packet opens with the key it was sealed with and with no other.         *)
(*                                                                         *)
(* Time is relative: a token's claims are counted from the moment its      *)
(* signer read its clock, and `now` is the reader's clock on that scale.   *)
(***************************************************************************)
EXTENDS Integers, Sequences, FiniteSets

HEADER_LENGTH == 33
TOKEN_VERSION == 2
ACCEPTED_VERSIONS == {TOKEN_VERSION}
NoClaim == -1

\* An engine's options; maxTokenBytes = 0 and notBefore = 0 switch them off
Engines == [expiresIn : Nat \ {0}, notBefore : Nat, tolerance : Nat,
            issuer : STRING, audience : STRING, revocation : BOOLEAN,
            maxTokenBytes : Nat, schema : STRING]

\* The wire key of a secret and a key id: equal secrets differ by their id
DeriveKeyMaterial(secret, keyId) == <<secret, keyId>>

-----------------------------------------------------------------------------
(* Signing. *)

Claims(engine) ==
    [iat |-> 0,
     exp |-> engine.expiresIn,
     nbf |-> IF engine.notBefore > 0 THEN engine.notBefore ELSE NoClaim,
     iss |-> engine.issuer,
     aud |-> engine.audience,
     shape |-> engine.schema]

SignPacket(engine, keyId, wireKey) ==
    [bytes |-> 2 * HEADER_LENGTH, version |-> TOKEN_VERSION, keyId |-> keyId,
     sealedWith |-> wireKey, intact |-> TRUE, claims |-> Claims(engine)]

-----------------------------------------------------------------------------
(* Verifying. *)

\* The error of the first check that fails, "ok" when none does
FirstFailure(checks) ==
    LET failing == {i \in DOMAIN checks : checks[i][1]}
    IN  IF failing = {} THEN "ok"
        ELSE checks[CHOOSE i \in failing : \A j \in failing : i <= j][2]

\* What is refused before a key is looked up
EnvelopeError(engine, packet) ==
    FirstFailure(<<
        <<engine.maxTokenBytes > 0 /\ packet.bytes > engine.maxTokenBytes, "too_long">>,
        <<packet.bytes < HEADER_LENGTH, "too_short">>,
        <<packet.version \notin ACCEPTED_VERSIONS, "version">> >>)

\* AEAD: the tag covers the ciphertext; the key id is bound by the derived key
Opens(packet, wireKey) == packet.intact /\ packet.sealedWith = wireKey

\* The temporal and binding claims of an opened packet, in the code's order
ClaimError(engine, claims, now) ==
    FirstFailure(<<
        <<claims.exp = NoClaim, "token_invalid">>,
        <<now >= claims.exp + engine.tolerance, "token_expired">>,
        <<claims.nbf # NoClaim /\ now + engine.tolerance < claims.nbf,
          "token_not_yet_valid">>,
        <<engine.issuer # "" /\ claims.iss # engine.issuer, "token_invalid">>,
        <<engine.audience # "" /\ claims.aud # engine.audience, "token_invalid">> >>)

\* verify() up to its revocation hook, with the wire key the provider returned
VerifyPacket(engine, packet, known, wireKey, now) ==
    FirstFailure(<<
        <<EnvelopeError(engine, packet) # "ok", "token_invalid">>,
        <<~known, "unknown_key">>,
        <<~Opens(packet, wireKey), "token_invalid">>,
        <<ClaimError(engine, packet.claims, now) # "ok",
          ClaimError(engine, packet.claims, now)>> >>)

\* verify() after the hook: the schema has the last word
ParseClaims(engine, claims) ==
    IF claims.shape = engine.schema THEN "ok" ELSE "zod_error"

-----------------------------------------------------------------------------
(* Inspecting. *)

TemporalPast(claims, now) ==
    [expired |-> claims.exp # NoClaim /\ now > claims.exp,
     notYetValid |-> claims.nbf # NoClaim /\ now < claims.nbf]
Temporal(claims, now) ==
    [expired |-> claims.exp # NoClaim /\ now >= claims.exp,
     notYetValid |-> claims.nbf # NoClaim /\ now < claims.nbf]

InspectTokenHeader(packet) ==
    [keyId |-> packet.keyId,
     versionAccepted |-> packet.version \in ACCEPTED_VERSIONS]

\* What decodeToken reports: it decrypts whatever the version byte says
DecodeToken(packet, secret, now) ==
    IF packet.bytes < HEADER_LENGTH \/ secret = ""
       \/ ~Opens(packet, DeriveKeyMaterial(secret, packet.keyId))
    THEN [decoded |-> FALSE]
    ELSE [decoded |-> TRUE, header |-> InspectTokenHeader(packet),
          temporal |-> Temporal(packet.claims, now)]

-----------------------------------------------------------------------------
(* The guard. *)

AuthStatus(code) ==
    CASE code \in {"token_invalid", "unknown_key", "token_expired",
                   "token_not_yet_valid", "token_revoked",
                   "oauth_exchange_failed"} -> 401
      [] code = "invalid_state" -> 400
      [] code = "auth_config_invalid" -> 500
      [] code = "rate_limited" -> 429

\* The HTTP status of a request with this Authorization header; 200 when the
\* handler sees the user.  Whatever else goes wrong (the vault, the revocation
\* store, a schema that moved) is wrapped as 401.
GuardStatus(header, verdict) ==
    CASE header # "Bearer <token>" -> 401
      [] verdict = "ok" -> 200
      [] verdict \in {"zod_error", "unavailable"} -> 401
      [] OTHER -> AuthStatus(verdict)

=============================================================================
