--------------------------- MODULE HttpDecisions ----------------------------
(***************************************************************************)
(* The decisions packages/core takes once, from configuration and schemas, *)
(* or per request without keeping state: the boot-time schema compiler,    *)
(* the CORS and Helmet headers and the mapping of a thrown error to a      *)
(* response.                                                               *)
(*                                                                         *)
(* A Zod schema is the set of the kinds of its nodes; what matters is      *)
(* whether JSON Schema can express them all.  A submitted value is "ok",   *)
(* "shape" (against what JSON Schema can say) or "rule" (only against a    *)
(* refinement).                                                            *)
(***************************************************************************)
EXTENDS Naturals, FiniteSets, SequencesExt

-----------------------------------------------------------------------------
(* core/schema-compiler.ts                                                 *)

NodeKinds == {"object", "custom", "transform", "unrepresentable", "lazyThrows"}
NoSchema == {}
ValueKinds == {"ok", "shape", "rule"}

\* The walk finds a transform node, a custom check or a getter that throws
\* anywhere in the tree, through every wrapper.
SchemaNeedsRuntimeZod(schema) ==
    schema \cap {"transform", "custom", "lazyThrows"} # {}

\* z.toJSONSchema throws on these and silently drops custom checks
ToJsonSchemaThrows(schema) ==
    schema \cap {"transform", "unrepresentable", "lazyThrows"} # {}

CompileOnThrow(schema) ==   \* mutant: the tree is not walked for refinements
    IF ToJsonSchemaThrows(schema) THEN "runtime" ELSE "compiled"

\* compileSlot, with the slots that have no schema left to the caller
CompileSlot(schema) ==
    IF SchemaNeedsRuntimeZod(schema) \/ ToJsonSchemaThrows(schema)
    THEN "runtime" ELSE "compiled"

\* compileRouteSchema: where each slot of a route is checked. A slot is in
\* fastifySchema or in runtimeSchemas, never in both.
CompileRouteSchema(slots) ==
    [slot \in DOMAIN slots |->
        IF slots[slot] = NoSchema THEN "raw" ELSE CompileSlot(slots[slot])]

\* What ajv, and what the Zod schema itself, accept
AjvAccepts(value) == value # "shape"
ZodAccepts(schema, value) ==
    value # "shape" /\ (value = "rule" => "custom" \notin schema)
SlotAccepts(mode, schema, value) ==
    CASE mode = "raw" -> TRUE
      [] mode = "compiled" -> AjvAccepts(value)
      [] mode = "runtime" -> ZodAccepts(schema, value)

-----------------------------------------------------------------------------
(* types/error.ts                                                          *)

\* ajvErrorToZodIssue: the issue code each ajv keyword becomes
IssueCode(keyword) ==
    CASE keyword \in {"required", "type"} -> "invalid_type"
      [] keyword \in {"enum", "const"} -> "invalid_value"
      [] keyword \in {"pattern", "format"} -> "invalid_format"
      [] keyword \in {"minimum", "exclusiveMinimum", "minLength", "minItems",
                      "minProperties"} -> "too_small"
      [] keyword \in {"maximum", "exclusiveMaximum", "maxLength", "maxItems",
                      "maxProperties"} -> "too_big"
      [] keyword = "multipleOf" -> "not_multiple_of"
      [] keyword = "additionalProperties" -> "unrecognized_keys"
      [] OTHER -> "custom"

\* defaultErrorHandler: class first, then a numeric status property, then the
\* words of the message in this order
DefaultErrorStatus(err) ==
    CASE err.class = "ZodError" -> 400
      [] err.class \in {"HttpException", "status"} -> err.status
      [] err.class = "Error" /\ err.words \cap {"unauthorized", "authentication"} # {} -> 401
      [] err.class = "Error" /\ err.words \cap {"forbidden", "permission"} # {} -> 403
      [] err.class = "Error" /\ "not found" \in err.words -> 404
      [] OTHER -> 500

\* resolveErrorHandlerConfig, of the input's shape
ResolveErrorHandler(config) ==
    LET default == [handler |-> "default", logErrors |-> TRUE]
    IN CASE config = "false" -> [default EXCEPT !.logErrors = FALSE]
         [] config = "function" -> [default EXCEPT !.handler = "custom"]
         [] config = "object" -> [handler |-> "custom", logErrors |-> FALSE]
         [] OTHER -> default

-----------------------------------------------------------------------------
(* types/middleware.ts and middleware/cors.ts. An origin setting is {"*"}  *)
(* (or true), or the set of origins that a string, an array or a           *)
(* function allows.                                                        *)

CorsOff == [on |-> FALSE]

\* resolveCorsConfig with assertSafeCorsConfig: "throws" ends the constructor
ResolveCorsConfig(config) ==
    IF ~config.on THEN CorsOff
    ELSE IF config.credentials /\ config.origin = {"*"} THEN [throws |-> TRUE]
    ELSE config

IsOriginAllowed(origin, config) ==
    CASE origin = "none" -> "false"
      [] origin # "none" /\ config.origin = {"*"} ->
            IF config.credentials THEN origin ELSE "*"
      [] OTHER -> IF origin \in config.origin THEN origin ELSE "false"

NoCorsHeaders == [allowOrigin |-> "false", vary |-> FALSE, credentials |-> FALSE,
                  preflight |-> FALSE]

\* buildCorsHeaders over the precomputed headers
BuildCorsHeaders(origin, config, isPreflight) ==
    LET allowed == IsOriginAllowed(origin, config)
    IN IF allowed = "false" THEN NoCorsHeaders
       ELSE [allowOrigin |-> allowed, vary |-> allowed # "*",
             credentials |-> config.credentials, preflight |-> isPreflight]

-----------------------------------------------------------------------------
(* middleware/helmet.ts. A setting is "unset", "true", "false" or "object".*)

HelmetSwitches == {"crossOriginEmbedderPolicy", "noSniff", "xssFilter"}
HelmetPolicies == {"crossOriginOpenerPolicy", "crossOriginResourcePolicy",
                   "dnsPrefetchControl", "frameguard", "hsts",
                   "permittedCrossDomainPolicies", "referrerPolicy"}
HelmetFields == HelmetSwitches \cup HelmetPolicies \cup {"contentSecurityPolicy"}

\* resolveHelmetConfig: a switch keeps its Boolean; a policy that is not an
\* object gets its default, whatever Boolean was given.
ResolveHelmetConfig(config) ==
    [f \in HelmetFields |->
        CASE f \in HelmetSwitches ->
                 IF config[f] = "unset" THEN (IF f = "noSniff" THEN "true" ELSE "false")
                 ELSE config[f]
          [] f \in HelmetPolicies ->
                 IF config[f] = "object" THEN "object" ELSE "default"
          [] OTHER -> IF config[f] = "unset" THEN "false" ELSE config[f]]

\* getSecurityHeaders: the fields whose header is sent, and for the legacy
\* XSS header whether the filter is asked for
SecurityHeaders(resolved) ==
    {f \in HelmetFields :
        \/ f \in HelmetPolicies \cup {"xssFilter"}
        \/ f = "contentSecurityPolicy" /\ resolved[f] = "object"
        \/ f \in HelmetSwitches /\ resolved[f] = "true"}
=============================================================================
