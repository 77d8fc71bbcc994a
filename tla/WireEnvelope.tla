---------------------------- MODULE WireEnvelope ----------------------------
(***************************************************************************)
(* What crosses the wire (packages/microservices/src/transports/           *)
(* wire-envelope.ts, src/signing.ts and the inbound read of                *)
(* base.transport.ts): a payload is wrapped in an envelope that names its  *)
(* kind, signed when the transport has a secret, and read back under a     *)
(* size cap.  A JSON value is a record of its type, its text or its fields *)
(* and its size; serialising is one to one on these.                       *)
(***************************************************************************)
EXTENDS Integers, FiniteSets, FiniteSetsExt

NoFields == [f \in {} |-> 0]
Value(type, is, fields, size) == [type |-> type, is |-> is, fields |-> fields, size |-> size, ts |-> 0]
Text(s) == Value("string", s, NoFields, 1)
Blob(size) == Value("string", "blob", NoFields, size)
Number == Value("number", "1", NoFields, 1)
Bytes == Value("bytes", "", NoFields, 1)           \* not JSON
Undefined == Value("undefined", "", NoFields, 0)
Obj(fields) ==
    Value("object", "", fields, 1 + Max({0} \cup {fields[f].size : f \in DOMAIN fields}))

IsRecord(v) == v.type \in {"object", "signed"}
Field(v, f) == IF f \in DOMAIN v.fields THEN v.fields[f] ELSE Undefined

\* The discriminated envelope; "none" is an absent member
Envelope(k, d, r, c, h) == [k |-> k, d |-> d, r |-> r, c |-> c, h |-> h]
Refused(code) == Envelope("refused", Undefined, code, "none", NoFields)

WrapEvent(data) == Obj([k |-> Text("evt"), d |-> data])
WrapRpc(data, replyTo, correlationId, headers) ==
    Obj([k |-> Text("rpc"), d |-> data, r |-> Text(replyTo), c |-> Text(correlationId),
         h |-> Obj(headers)])

AsString(v) == IF v.type = "string" THEN v.is ELSE "none"
AsHeaders(v) ==
    [f \in {g \in DOMAIN v.fields : IsRecord(v) /\ v.fields[g].type = "string"} |-> v.fields[f]]

RpcOf(v, d, r, c, h) ==
    Envelope("rpc", Field(v, d), AsString(Field(v, r)), AsString(Field(v, c)),
             AsHeaders(Field(v, h)))

\* A message of a peer older than the envelope: told apart by its shape
ClassifyLegacy(v) ==
    IF IsRecord(v) /\ "replyTo" \in DOMAIN v.fields
    THEN RpcOf(v, "data", "replyTo", "correlationId", "headers")
    ELSE Envelope("evt", v, "none", "none", NoFields)

SniffWire(v, acceptLegacy) ==   \* mutant: the shape of the payload decides again
    IF Field(v, "k") = Text("rpc") THEN RpcOf(v, "d", "r", "c", "h")
    ELSE IF Field(v, "k") = Text("evt") THEN ClassifyLegacy(Field(v, "d"))
    ELSE Refused("invalid_envelope")

ParseWire(v, acceptLegacy) ==
    IF v.type = "bytes" THEN Refused("invalid_json")
    ELSE IF Field(v, "k") = Text("evt") THEN Envelope("evt", Field(v, "d"), "none", "none", NoFields)
    ELSE IF Field(v, "k") = Text("rpc") THEN RpcOf(v, "d", "r", "c", "h")
    ELSE IF Field(v, "k") # Undefined \/ ~acceptLegacy THEN Refused("invalid_envelope")
    ELSE ClassifyLegacy(v)

-----------------------------------------------------------------------------
(* Signing with a shared secret, "none" being the identity signer; the tag *)
(* names the secret and the moment it was made.                            *)

Sign(v, secret, now) ==
    IF secret = "none" THEN v
    ELSE [Value("signed", secret, [payload |-> v], v.size + 1) EXCEPT !.ts = now]

\* "" when the signature of v is good, else why it is not
VerifySig(v, secret, now, maxAge) ==
    IF secret = "none" THEN ""
    ELSE IF v.type # "signed" THEN "signature_missing"
    ELSE IF v.is # secret THEN "signature_invalid"
    ELSE IF maxAge > 0 /\ now - v.ts > maxAge THEN "signature_expired"
    ELSE ""

\* The options of a reader: its secret, replay window, size cap and legacy window
TooLarge(v, reader) == reader.maxBytes # 0 /\ v.size > reader.maxBytes

VerifyWire(v, reader, now) ==
    IF TooLarge(v, reader) THEN "message_too_large"
    ELSE VerifySig(v, reader.secret, now, reader.maxAge)

Unwrapped(v, reader) == IF reader.secret = "none" THEN v ELSE v.fields.payload

ReadWire(v, reader, now) ==
    LET fault == VerifyWire(v, reader, now)
    IN  IF fault # "" THEN Refused(fault)
        ELSE ParseWire(Unwrapped(v, reader), reader.legacy)
=============================================================================
