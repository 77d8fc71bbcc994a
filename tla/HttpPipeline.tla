---------------------------- MODULE HttpPipeline ----------------------------
(***************************************************************************)
(* One request through a registered route, in both engines:                *)
(* packages/core/src/adapters/express.ts and adapters/fastify.ts, with the *)
(* global hooks of middleware/cors.ts and the route a module builds in     *)
(* core/nural.ts.                                                          *)
(*                                                                         *)
(* The route, the request and the configuration are chosen in the initial  *)
(* state and never change; run[e] is the progress of the request in engine *)
(* e.  Requests share nothing but the compiled route, so one request at a  *)
(* time is enough.                                                         *)
(*                                                                         *)
(* Express and Fastify themselves are external: their order of steps (body *)
(* parsing, hooks, ajv) is modelled from how the adapters rely on it.      *)
(***************************************************************************)
EXTENDS HttpDecisions

CONSTANTS
    Cases       \* the (route, request, configuration) records to explore

\* A middleware contributes to the bag, answers by itself, throws, or reads
\* what an earlier one contributed and refuses without it
MiddlewareKinds == {"adds", "responds", "throws", "reads"}
\* The slots, in the order the Express handler checks them and in the order
\* Fastify runs ajv over the compiled ones
ExpressOrder == <<"params", "query", "body">>
FastifyOrder == <<"params", "body", "query">>
Slots == {"params", "query", "body"}

ASSUME CasesAssumption ==
    \A c \in Cases :
        /\ DOMAIN c.slots = Slots
        /\ {c.baseMiddleware, c.builder, c.middleware} \subseteq Seq(MiddlewareKinds)

\* Names registerModule refuses for a module's providers
ReservedKeys == {"req", "res", "body", "query", "params", "next", "status"}
\* Names the adapters assign to the handler context themselves
ContextKeys == Slots \cup {"req", "res", "status"}

VARIABLES
    case,       \* the case under way
    run         \* per engine: pc, at (middleware index), ctx (who set each
                \* context key), err, sent (the response), ran (handler called),
                \* cors (the CORS headers set)

httpVars == <<case, run>>
HttpEngines == {"express", "fastify"}

NoError == [class |-> "none"]
NotSent == [by |-> "nobody"]
ZodError(slot, code) == [class |-> "ZodError", slot |-> slot, code |-> code]
HttpError(status) == [class |-> "HttpException", status |-> status]
PlainError(words) == [class |-> "Error", words |-> words]

FreshRun == [pc |-> "onRequest", at |-> 1, ctx |-> [k \in {} |-> ""],
             err |-> NoError, sent |-> NotSent, ran |-> FALSE,
             cors |-> NoCorsHeaders, helmet |-> {}]

\* A configuration that resolveCorsConfig refuses, or a module with a provider
\* of a reserved name, throws at boot and never serves a request.
Boots(c) ==
    /\ "throws" \notin DOMAIN ResolveCorsConfig(c.cors)
    /\ c.providers \cap ReservedKeys = {}

HttpInit ==
    /\ case \in {c \in Cases : Boots(c)}
    /\ run = [e \in HttpEngines |-> FreshRun]

\* createBuilder puts its middleware before the route's own, registerModule the
\* module's before both; the module's providers go over the route's inject.
RouteMiddleware == case.builder \o case.middleware
ModuleMiddleware == case.baseMiddleware \o RouteMiddleware
Injected == case.inject \cup case.providers

Modes == CompileRouteSchema(case.slots)
Bad(slot) == ~SlotAccepts(Modes[slot], case.slots[slot], case.values[slot])

\* The first bad slot of an order among those checked in one of the modes
FirstBad(order, modes) ==
    LET bad == {i \in DOMAIN order : Modes[order[i]] \in modes /\ Bad(order[i])}
    IN IF bad = {} THEN "none" ELSE order[Min(bad)]

\* Object.assign(ctx, ...): the last writer of a key is the one that shows
Assign(ctx, keys, who) == [k \in keys |-> who] @@ ctx

\* One engine at a time: Fastify's run begins when the Express one is over.
At(e, pc) ==
    /\ run[e].pc = pc
    /\ e = "fastify" => run["express"].pc = "done"
Become(e, r) == run' = [run EXCEPT ![e] = r] /\ UNCHANGED case
Fail(r, err) == [r EXCEPT !.err = err, !.pc = "error"]
Send(r, reply) == [r EXCEPT !.sent = IF @ = NotSent THEN reply ELSE @]
Done(r) == [r EXCEPT !.pc = "done"]

\* ajv's error becomes an issue of its keyword; Zod names its own
SlotError(slot) ==
    ZodError(slot, IF Modes[slot] = "compiled" THEN IssueCode(case.keyword) ELSE "zod")

-----------------------------------------------------------------------------
HelmetHeaders == SecurityHeaders(ResolveHelmetConfig(case.helmet))

\* The global layers: the security headers, then the CORS headers, and a
\* preflight is answered here unless it is to be continued.
OnRequest(e) ==
    /\ At(e, "onRequest")
    /\ LET preflight == case.method = "OPTIONS"
           cors == IF case.cors.on
                   THEN BuildCorsHeaders(case.origin, case.cors, preflight)
                   ELSE NoCorsHeaders
           answered == case.cors.on /\ preflight /\ ~case.cors.preflightContinue
           r == [run[e] EXCEPT !.cors = cors,
                                    !.helmet = HelmetHeaders]
       IN Become(e, IF answered THEN Done(Send(r, [by |-> "cors", status |-> 204]))
                    ELSE [r EXCEPT !.pc = "parsing"])

\* What req.nuralCtx shows a middleware of what the earlier ones contributed:
\* Fastify publishes its bag there, Express keeps the bag to itself.
NuralCtx(e) == IF e = "fastify" THEN DOMAIN run[e].ctx ELSE {}

\* One middleware may contribute keys to the bag, answer by itself, or throw;
\* the loops of both adapters go on after an answer. One that needs the user
\* of an earlier one, as requirePolicy does, refuses when it sees none.
MiddlewareEffect(r, mw, seen) ==
    LET next == [r EXCEPT !.at = @ + 1]
    IN CASE mw = "adds" -> [next EXCEPT !.ctx =
                               Assign(@, {"user", "body", "status"}, "middleware")]
         [] mw = "responds" -> Send(next, [by |-> "middleware", status |-> 429])
         [] mw = "reads" /\ "user" \in seen -> next
         [] mw = "reads" /\ "user" \notin seen -> Fail(next, HttpError(403))
         [] mw = "throws" -> Fail(next, HttpError(401))

\* The handler of a module's route assigns the providers, then runs.
HandlerEffect(r) ==
    LET called == [r EXCEPT !.ran = TRUE, !.ctx = Assign(@, Injected, "provider"),
                            !.pc = "reply"]
    IN CASE case.handler = "throws" -> Fail(called, HttpError(404))
         [] case.handler = "fails" -> Fail(called, PlainError(case.words))
         [] case.handler = "sends" -> Send(called, [by |-> "handler", status |-> 202])
         [] OTHER -> called

\* The errorConfig's handler chooses the status; its own failure gives 500.
ErrorStatus(err) ==
    CASE ResolveErrorHandler(case.errorHandler).handler = "default" -> DefaultErrorStatus(err)
      [] case.customThrows -> 500
      [] OTHER -> 503
Reply == [by |-> "handler", status |-> 200]
ResponseMode == CompileRouteSchema([r |-> case.response])["r"]
ResultFits == SlotAccepts(ResponseMode, case.response, case.result)

-----------------------------------------------------------------------------
(* Express: the JSON parser is attached to the route, everything else is   *)
(* one async handler with a try/catch around it.                           *)

\* A body the parser refuses goes to Express's own error page.
ExpressParse ==
    /\ At("express", "parsing")
    /\ Become("express",
         IF case.values["body"] = "malformed"
         THEN Done(Send(run["express"], [by |-> "framework", status |-> 400]))
         ELSE [run["express"] EXCEPT !.pc = "middleware"])

ExpressMiddleware ==
    /\ At("express", "middleware")
    /\ LET r == run["express"]
       IN Become("express",
            IF r.at <= Len(ModuleMiddleware)
            THEN MiddlewareEffect(r, ModuleMiddleware[r.at], NuralCtx("express"))
            ELSE [r EXCEPT !.pc = "validate"])

\* Each slot in turn by ajv, by Zod or not at all, then the context keys the
\* adapter sets after the middleware's bag
ExpressValidate ==
    /\ At("express", "validate")
    /\ LET bad == FirstBad(ExpressOrder, {"compiled", "runtime"})
       IN Become("express",
            IF bad # "none" THEN Fail(run["express"], SlotError(bad))
            ELSE [run["express"] EXCEPT !.ctx = Assign(@, ContextKeys, "adapter"),
                                        !.pc = "handler"])

ExpressHandler ==
    /\ At("express", "handler")
    /\ Become("express", HandlerEffect(run["express"]))

SendUnparsed ==   \* mutant: no fallback for responses flagged for runtime Zod
    /\ At("express", "reply")
    /\ Become("express",
         IF run["express"].sent # NotSent \/ case.handler = "bare"
            \/ AjvAccepts(case.result)
         THEN Done(Send(run["express"], Reply))
         ELSE Fail(run["express"], PlainError({})))

\* A response that has gone out is left alone; otherwise the result is
\* stringified by the compiled schema of its status or parsed by Zod.
ExpressReply ==
    /\ At("express", "reply")
    /\ Become("express",
         IF run["express"].sent # NotSent \/ case.handler = "bare" \/ ResultFits
         THEN Done(Send(run["express"], Reply))
         ELSE Fail(run["express"], IF ResponseMode = "runtime" THEN ZodError("response", "zod")
                                   ELSE PlainError({})))

\* res.json throws once a response has gone out, and so does the fallback.
ExpressError ==
    /\ At("express", "error")
    /\ LET r == run["express"]
       IN Become("express", Done(Send(r,
            [by |-> "error", status |-> ErrorStatus(r.err), body |-> "full", of |-> r.err])))

-----------------------------------------------------------------------------
(* Fastify: middleware in a preValidation hook, ajv in the framework, the  *)
(* flagged slots in the handler, errors in the instance's error handler.   *)

\* The parser's error carries statusCode but no status.
FastifyParse ==
    /\ At("fastify", "parsing")
    /\ Become("fastify",
         IF case.values["body"] = "malformed" THEN Fail(run["fastify"], PlainError({}))
         ELSE [run["fastify"] EXCEPT !.pc = "middleware"])

\* The hook runs all middleware; a reply that was sent in it ends the request.
FastifyPreValidation ==
    /\ At("fastify", "middleware")
    /\ LET r == run["fastify"]
       IN Become("fastify",
            IF r.at <= Len(ModuleMiddleware)
            THEN MiddlewareEffect(r, ModuleMiddleware[r.at], NuralCtx("fastify"))
            ELSE IF r.sent # NotSent THEN Done(r) ELSE [r EXCEPT !.pc = "validate"])

\* The framework's validation of the compiled slots
FastifyAjv ==
    /\ At("fastify", "validate")
    /\ LET bad == FirstBad(FastifyOrder, {"compiled"})
       IN Become("fastify", IF bad # "none" THEN Fail(run["fastify"], SlotError(bad))
                            ELSE [run["fastify"] EXCEPT !.pc = "handler"])

\* The flagged slots are parsed, the context keys set, the handler called.
FastifyHandler ==
    /\ At("fastify", "handler")
    /\ LET bad == FirstBad(ExpressOrder, {"runtime"})
       IN Become("fastify",
            IF bad # "none" THEN Fail(run["fastify"], SlotError(bad))
            ELSE HandlerEffect(
                   [run["fastify"] EXCEPT !.ctx = Assign(@, ContextKeys, "adapter")]))

FastifyReply ==
    /\ At("fastify", "reply")
    /\ LET r == run["fastify"]
       IN Become("fastify",
            CASE r.sent # NotSent -> Done(r)
              [] r.sent = NotSent /\ (case.handler = "bare" \/ ResultFits) -> Done(Send(r, Reply))
              [] OTHER -> Fail(r, IF ResponseMode = "runtime" THEN ZodError("response", "zod")
                                  ELSE PlainError({})))

\* The body of an error is serialized by the schema the route declares for
\* its status, as any other body is.
FastifyError ==
    /\ At("fastify", "error")
    /\ LET r == run["fastify"]
           status == ErrorStatus(r.err)
           body == IF status \in case.declares THEN "declared" ELSE "full"
       IN Become("fastify", Done(Send(r,
            [by |-> "error", status |-> status, body |-> body, of |-> r.err])))

HttpNext ==
    \/ \E e \in HttpEngines : OnRequest(e)
    \/ ExpressParse \/ ExpressMiddleware \/ ExpressValidate \/ ExpressHandler
    \/ ExpressReply \/ ExpressError
    \/ FastifyParse \/ FastifyPreValidation \/ FastifyAjv \/ FastifyHandler
    \/ FastifyReply \/ FastifyError

HttpSpec == HttpInit /\ [][HttpNext]_httpVars

-----------------------------------------------------------------------------
(* Properties                                                              *)

\* The handler only ever runs on values its route's Zod schemas accept,
\* refinements included, though ajv alone does most of the checking
\* (schema-compiler.ts:16-28, express.ts:263-277, fastify.ts:286-288).
HandlerSeesValid ==
    \A e \in HttpEngines : run[e].ran =>
        /\ case.values["body"] # "malformed"
        /\ \A s \in Slots : case.slots[s] # NoSchema =>
              ZodAccepts(case.slots[s], case.values[s])

\* The two engines give the same answer and agree on whether the handler ran,
\* but for five kinds of request: a body the parser refuses, a middleware that
\* answers by itself, two bad slots at once, an error whose status the route
\* declares a response for (express.ts:81-83 promises the issues per slot), and
\* a middleware that reads what an earlier one contributed (UpstreamIsSeen).
ReadsUpstream ==
    \E i, j \in DOMAIN ModuleMiddleware :
        j < i /\ ModuleMiddleware[j] = "adds" /\ ModuleMiddleware[i] = "reads"
EnginesDiffer ==
    \/ case.values["body"] = "malformed"
    \/ "responds" \in ToSet(ModuleMiddleware)
    \/ Cardinality({s \in Slots : Bad(s)}) > 1
    \/ case.declares # {}
    \/ ReadsUpstream
EnginesAgree ==
    (~EnginesDiffer /\ \A e \in HttpEngines : run[e].pc = "done") =>
        /\ run["express"].sent = run["fastify"].sent
        /\ run["express"].ran = run["fastify"].ran

\* A middleware finds on req.nuralCtx what an earlier one contributed: none is
\* refused for want of a user that a middleware before it returned
\* (core/middleware.ts:14-17 says a downstream middleware reads it there).
UpstreamIsSeen ==
    \A e \in HttpEngines : run[e].err = HttpError(403) =>
        "adds" \notin ToSet(SubSeq(ModuleMiddleware, 1, run[e].at - 2))
=============================================================================
