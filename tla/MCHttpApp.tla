----------------------------- MODULE MCHttpApp ------------------------------
(***************************************************************************)
(* TLC instance for packages/core: either the life of one application      *)
(* process (AppLifecycle) or one request through both engines              *)
(* (HttpPipeline); `part` says which of the two a behaviour is about.      *)
(***************************************************************************)
EXTENDS AppLifecycle, HttpPipeline

VARIABLE part
mcVars == <<part, appVars, httpVars>>

MCRoutes == {"r1", "r2"}
MCBatches == {<<"r1">>, <<"r1", "bad">>, <<"bad", "r2">>}

Plain == {"object"}
Refined == {"object", "custom"}
Piped == {"object", "transform"}
Dated == {"object", "unrepresentable"}

\* Slot schemas with the values that tell them apart
SlotCases == {<<NoSchema, "ok">>, <<Plain, "ok">>, <<Plain, "shape">>,
              <<Refined, "ok">>, <<Refined, "rule">>, <<Piped, "shape">>,
              <<Dated, "ok">>}
Middlewares == {<<>>, <<"adds">>, <<"throws">>, <<"adds", "throws">>,
                <<"responds">>, <<"responds", "throws">>, <<"reads">>,
                <<"adds", "reads">>, <<"reads", "adds">>}
Answers == {[handler |-> "returns", response |-> NoSchema, result |-> "ok"],
            [handler |-> "returns", response |-> Plain, result |-> "shape"],
            [handler |-> "returns", response |-> Refined, result |-> "rule"],
            [handler |-> "bare", response |-> Plain, result |-> "ok"],
            [handler |-> "sends", response |-> Plain, result |-> "ok"],
            [handler |-> "throws", response |-> Plain, result |-> "ok"],
            [handler |-> "fails", response |-> Plain, result |-> "ok"]}

CorsConfigs ==
    {CorsOff} \cup
    [on : {TRUE}, origin : {{"*"}, {"home"}}, credentials : BOOLEAN,
     preflightContinue : BOOLEAN]

SimpleCase ==
    [baseMiddleware |-> <<>>, builder |-> <<>>, middleware |-> <<>>, inject |-> {}, providers |-> {},
     slots |-> [s \in Slots |-> NoSchema], values |-> [s \in Slots |-> "ok"],
     handler |-> "returns", response |-> NoSchema, result |-> "ok",
     words |-> {"permission", "not found"}, keyword |-> "minLength",
     declares |-> {}, errorHandler |-> "undefined", customThrows |-> FALSE,
     method |-> "POST", origin |-> "none", cors |-> CorsOff,
     helmet |-> [f \in HelmetFields |-> "unset"]]

\* Requests that differ in their slots, middleware and answer
RequestCases ==
    {[SimpleCase EXCEPT
        !.builder = SelectSeq(mw, LAMBDA m : m # "throws"),
        !.middleware = SelectSeq(mw, LAMBDA m : m = "throws"),
        !.slots = [params |-> p[1], query |-> q[1], body |-> b[1]],
        !.values = [params |-> p[2], query |-> q[2], body |-> b[2]],
        !.handler = a.handler, !.response = a.response, !.result = a.result,
        !.inject = {"db"},
        !.providers = {"mailer"}] :
     mw \in Middlewares, a \in Answers,
     p \in {c \in SlotCases : c[1] \notin {Piped, Dated}}, q \in SlotCases,
     b \in SlotCases \cup {<<Plain, "malformed">>}}

\* Requests that differ in the cross-origin layer and the error handling
CrossOriginCases ==
    {[SimpleCase EXCEPT !.baseMiddleware = mw, !.cors = c, !.origin = o,
                        !.method = m, !.declares = d,
                        !.errorHandler = h[1], !.customThrows = h[2],
                        !.helmet = [SimpleCase.helmet EXCEPT !["hsts"] = x,
                            !["contentSecurityPolicy"] = x, !["noSniff"] = x]] :
     mw \in {<<>>, <<"throws">>}, c \in CorsConfigs, o \in {"none", "home", "other"},
     m \in {"POST", "OPTIONS"}, d \in {{}, {401}}, x \in {"unset", "false"},
     h \in {<<"false", FALSE>>, <<"function", FALSE>>, <<"object", TRUE>>}}

MCCases == RequestCases \cup CrossOriginCases

MCInit ==
    \/ part = "app" /\ AppInit /\ case = SimpleCase
          /\ run = [e \in HttpEngines |-> FreshRun]
    \/ part = "http" /\ HttpInit
          /\ AppInit /\ engine = "express" /\ production /\ docs /\ taken = {}

\* The port search and the providers do not touch each other's state, so a
\* behaviour explores one of them: a provider is registered only while the
\* server is off, and routes are tried before providers. The docs switch is
\* about routes alone.
MCApp ==
    \/ server = "off" /\ listing = <<>> /\ docs /\ ProviderNext
    \/ (\A p \in Providers : boot[p] = "unregistered") /\
          \/ PortNext
          \/ \E b \in MCBatches, reserved \in BOOLEAN :
                Len(listing) + Len(b) <= 3 /\ RegisterModule(b, reserved)

MCNext ==
    \/ part = "app" /\ MCApp /\ UNCHANGED <<part, httpVars>>
    \/ part = "http" /\ HttpNext /\ UNCHANGED <<part, appVars>>

MCSpec == MCInit /\ [][MCNext]_mcVars /\ AppFairness
=============================================================================
