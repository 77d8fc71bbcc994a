---------------------------- MODULE AppLifecycle ----------------------------
(***************************************************************************)
(* The life of one Nuraljs application process:                            *)
(* packages/core/src/core/nural.ts with core/provider.ts, core/module.ts   *)
(* and adapters/find-port.ts.                                              *)
(*                                                                         *)
(*  - providers: registerProvider runs setup, appends the provider and     *)
(*    arms one handler per shutdown signal; a signal starts a sweep that   *)
(*    tears the registered providers down, last first, one await each,     *)
(*    and then re-raises the signal, which ends the process;               *)
(*  - routes: register and registerModule push a route on the listing,     *)
(*    hand it to the engine, then to the documentation;                    *)
(*  - the port: outside production the first free port of a window is      *)
(*    looked for before binding, and the two are separate steps.           *)
(*                                                                         *)
(* Left out: the messages logged, the documentation pages' content and     *)
(* what a provider's client does.                                          *)
(***************************************************************************)
EXTENDS Naturals, FiniteSets, SequencesExt

CONSTANTS
    Providers,      \* the descriptors built by defineProvider
    NoTeardown,     \* those whose config has no teardown
    Signals,        \* SIGINT and SIGTERM
    Routes,         \* route objects
    Unservable,     \* routes the engine refuses when they are registered
    BasePort,       \* the port given to start()
    MaxAttempts     \* findAvailablePort's maxAttempts

ASSUME AppAssumption ==
    /\ NoTeardown \subseteq Providers
    /\ Unservable \subseteq Routes
    /\ BasePort \in Nat /\ MaxAttempts \in Nat

Ports == BasePort .. (BasePort + MaxAttempts)
Engines == {"express", "fastify"}

VARIABLES
    process,        \* "up", "exited" (signal re-raised), "killed", "crashed"
    engine,         \* config.framework
    production,     \* NODE_ENV = production
    boot,           \* progress of registerProvider for each provider
    instance,       \* the closure variable of defineProvider: "null" or "live"
    providers,      \* this.providers
    handlers,       \* signals whose once-handler is still attached
    sweeps,         \* per signal, the providers its sweep has yet to dispose
    awaiting,       \* signals whose sweep is inside `await teardown(instance)`
    faulty,         \* providers one of whose teardowns rejected
    promised,       \* providers registered before the first signal
    listing,        \* this.routes
    served,         \* routes the engine accepted
    documented,     \* docsGenerator.routes
    docs,           \* docsConfig.enabled
    server,         \* where start() stands
    port,           \* the port being probed or bound
    taken           \* ports held by other processes

providerVars == <<boot, instance, providers, handlers, sweeps, awaiting,
                  faulty, promised>>
routeVars == <<listing, served, documented, docs>>
portVars == <<server, port, taken>>
appVars == <<process, engine, production, providerVars, routeVars, portVars>>

AppInit ==
    /\ process = "up"
    /\ engine \in Engines /\ production \in BOOLEAN
    /\ boot = [p \in Providers |-> "unregistered"]
    /\ instance = [p \in Providers |-> "null"]
    /\ providers = <<>>
    /\ handlers = {}
    /\ sweeps = [s \in Signals |-> <<>>]
    /\ awaiting = {} /\ faulty = {} /\ promised = {}
    /\ listing = <<>> /\ served = <<>> /\ documented = <<>> /\ docs \in BOOLEAN
    /\ server = "off" /\ port = BasePort /\ taken \in SUBSET Ports

-----------------------------------------------------------------------------
(* Providers. A signal whose handler was used up has the default action.   *)

\* The handlers are armed by the first registration and each runs once, so a
\* signal without one left has a sweep exactly when it was armed before.
HooksAttached == \E p \in Providers : boot[p] = "registered"
Sweeping(s) == HooksAttached /\ s \notin handlers

\* registerProvider up to `await provider.init()`
RegisterProvider(p) ==
    /\ process = "up" /\ boot[p] = "unregistered"
    /\ boot' = [boot EXCEPT ![p] = "setup"]
    /\ UNCHANGED <<process, engine, production, instance, providers, handlers,
                   sweeps, awaiting, faulty, promised, routeVars, portVars>>

\* setup resolves: the instance is kept, the provider listed, the hooks armed
SetupResolves(p) ==
    /\ process = "up" /\ boot[p] = "setup"
    /\ boot' = [boot EXCEPT ![p] = "registered"]
    /\ instance' = [instance EXCEPT ![p] = "live"]
    /\ providers' = Append(providers, p)
    /\ handlers' = IF HooksAttached THEN handlers ELSE Signals
    /\ promised' = IF \E s \in Signals : Sweeping(s) THEN promised
                   ELSE promised \cup {p}
    /\ UNCHANGED <<process, engine, production, sweeps, awaiting, faulty,
                   routeVars, portVars>>

\* setup rejects: registerProvider rejects and lists nothing
SetupRejects(p) ==
    /\ process = "up" /\ boot[p] = "setup"
    /\ boot' = [boot EXCEPT ![p] = "failed"]
    /\ UNCHANGED <<process, engine, production, instance, providers, handlers,
                   sweeps, awaiting, faulty, promised, routeVars, portVars>>

SweepInOrder(s) ==   \* mutant: the sweep copies the list without reversing it
    /\ process = "up" /\ s \in handlers
    /\ handlers' = handlers \ {s}
    /\ sweeps' = [sweeps EXCEPT ![s] = providers]
    /\ UNCHANGED <<process, engine, production, boot, instance, providers,
                   awaiting, faulty, promised, routeVars, portVars>>

\* The first delivery of an armed signal starts a sweep over a reversed copy
\* of the list; any other delivery ends the process.
Signal(s) ==
    /\ process = "up"
    /\ IF s \in handlers
       THEN /\ handlers' = handlers \ {s}
            /\ sweeps' = [sweeps EXCEPT ![s] = Reverse(providers)]
            /\ UNCHANGED process
       ELSE /\ process' = "killed"
            /\ UNCHANGED <<handlers, sweeps>>
    /\ UNCHANGED <<engine, production, boot, instance, providers, awaiting,
                   faulty, promised, routeVars, portVars>>

\* provider.destroy() of the next provider: nothing to do without an instance
\* or a teardown, otherwise its teardown is called and awaited.
DestroyNext(s) ==
    /\ process = "up" /\ sweeps[s] # <<>> /\ s \notin awaiting
    /\ LET p == Head(sweeps[s])
       IN IF instance[p] = "live" /\ p \notin NoTeardown
          THEN awaiting' = awaiting \cup {s} /\ UNCHANGED sweeps
          ELSE sweeps' = [sweeps EXCEPT ![s] = Tail(@)] /\ UNCHANGED awaiting
    /\ UNCHANGED <<process, engine, production, boot, instance, providers,
                   handlers, faulty, promised, routeVars, portVars>>

StopsAtRejection(s, ok) ==   \* mutant: no try/catch around one provider's teardown
    /\ process = "up" /\ s \in awaiting
    /\ LET p == Head(sweeps[s])
       IN IF ok
          THEN instance' = [instance EXCEPT ![p] = "null"] /\ UNCHANGED faulty
          ELSE faulty' = faulty \cup {p} /\ UNCHANGED instance
    /\ sweeps' = [sweeps EXCEPT ![s] = IF ok THEN Tail(@) ELSE <<>>]
    /\ awaiting' = awaiting \ {s}
    /\ UNCHANGED <<process, engine, production, boot, providers, handlers,
                   promised, routeVars, portVars>>

\* The teardown settles. Its rejection is logged and leaves the instance.
TeardownSettles(s, ok) ==
    /\ process = "up" /\ s \in awaiting
    /\ LET p == Head(sweeps[s])
       IN IF ok
          THEN instance' = [instance EXCEPT ![p] = "null"] /\ UNCHANGED faulty
          ELSE faulty' = faulty \cup {p} /\ UNCHANGED instance
    /\ sweeps' = [sweeps EXCEPT ![s] = Tail(@)]
    /\ awaiting' = awaiting \ {s}
    /\ UNCHANGED <<process, engine, production, boot, providers, handlers,
                   promised, routeVars, portVars>>

ReRaiseHandled(s) ==   \* mutant: process.on instead of process.once
    /\ process = "up" /\ Sweeping(s) /\ sweeps[s] = <<>>
    /\ providers' = <<>>
    /\ UNCHANGED <<process, engine, production, boot, instance, handlers, sweeps,
                   awaiting, faulty, promised, routeVars, portVars>>

\* A sweep that is through empties the list and re-raises its signal, whose
\* handler is gone.
SweepEnds(s) ==
    /\ process = "up" /\ Sweeping(s) /\ sweeps[s] = <<>>
    /\ providers' = <<>>
    /\ process' = "exited"
    /\ UNCHANGED <<engine, production, boot, instance, handlers, sweeps,
                   awaiting, faulty, promised, routeVars, portVars>>

-----------------------------------------------------------------------------
(* Routes. All of it is synchronous; a throw leaves what was done before.  *)

\* Fastify refuses every route once its instance listens.
Refused(r) == r \in Unservable \/ (engine = "fastify" /\ server = "bound")

DocumentsFirst(batch) ==   \* mutant: addRoute before adapter.registerRoute
    LET bad == {i \in DOMAIN batch : Refused(batch[i])}
        first == IF bad = {} THEN Len(batch) + 1
                 ELSE CHOOSE i \in bad : \A j \in bad : i <= j
        tried == SelectSeq(batch, LAMBDA r : \E i \in 1 .. first :
                                      i \in DOMAIN batch /\ batch[i] = r)
    IN /\ listing' = listing \o tried
       /\ served' = served \o SubSeq(batch, 1, first - 1)
       /\ documented' = IF docs THEN documented \o tried ELSE documented
       /\ UNCHANGED docs

\* The loops of register and registerModule over a batch of routes: each is
\* listed, then given to the engine, then, with the docs on, documented; the
\* first refusal throws.
RegisterAll(batch) ==
    LET bad == {i \in DOMAIN batch : Refused(batch[i])}
        good == IF bad = {} THEN batch
                ELSE SubSeq(batch, 1, (CHOOSE i \in bad : \A j \in bad : i <= j) - 1)
        tried == IF bad = {} THEN batch ELSE SubSeq(batch, 1, Len(good) + 1)
    IN /\ listing' = listing \o tried
       /\ served' = served \o good
       /\ documented' = IF docs THEN documented \o good ELSE documented
       /\ UNCHANGED docs

\* registerModule with a provider of a reserved name throws before the loop.
RegisterModule(batch, reserved) ==
    /\ process = "up"
    /\ IF reserved THEN UNCHANGED routeVars ELSE RegisterAll(batch)
    /\ UNCHANGED <<process, engine, production, providerVars, portVars>>

-----------------------------------------------------------------------------
(* start() and findAvailablePort                                           *)

Start ==
    /\ process = "up" /\ server = "off"
    /\ server' = IF production THEN "binding" ELSE "probing"
    /\ UNCHANGED <<process, engine, production, providerVars, routeVars, port, taken>>

\* One throwaway server: a free port is the answer and a taken one moves on
\* while attempts are left. When none is, or on any error but EADDRINUSE (a
\* port the process may not bind), the requested port is the answer.
Probe ==
    /\ process = "up" /\ server = "probing"
    /\ \/ port \notin taken /\ server' = "binding" /\ UNCHANGED port
       \/ /\ port \in taken /\ port < BasePort + MaxAttempts
          /\ port' = port + 1 /\ UNCHANGED server
       \/ port' = BasePort /\ server' = "binding"
    /\ UNCHANGED <<process, engine, production, providerVars, routeVars, taken>>

\* listen: a taken port ends the process, by process.exit(1) in the Fastify
\* adapter and by the server's unhandled error event in the Express one.
Bind ==
    /\ process = "up" /\ server = "binding"
    /\ IF port \in taken
       THEN process' = "crashed" /\ UNCHANGED server
       ELSE server' = "bound" /\ UNCHANGED process
    /\ UNCHANGED <<engine, production, providerVars, routeVars, port, taken>>

\* Another process takes or frees a port.
OthersMove(p) ==
    /\ process = "up" /\ server \in {"probing", "binding"}
    /\ taken' = IF p \in taken THEN taken \ {p} ELSE taken \cup {p}
    /\ UNCHANGED <<process, engine, production, providerVars, routeVars, server, port>>

-----------------------------------------------------------------------------
ProviderNext ==
    \/ \E p \in Providers :
          RegisterProvider(p) \/ SetupResolves(p) \/ SetupRejects(p)
    \/ \E s \in Signals :
          \/ Signal(s) \/ DestroyNext(s) \/ SweepEnds(s)
          \/ \E ok \in BOOLEAN : TeardownSettles(s, ok)
PortNext == Start \/ Probe \/ Bind \/ \E p \in Ports : OthersMove(p)
RouteNext == \E batch \in Seq(Routes), reserved \in BOOLEAN : RegisterModule(batch, reserved)

AppSpec == AppInit /\ [][ProviderNext \/ RouteNext \/ PortNext]_appVars

\* The sweep runs on the event loop, and teardowns are taken to settle.
AppFairness ==
    \A s \in Signals :
        /\ WF_appVars(DestroyNext(s)) /\ WF_appVars(SweepEnds(s))
        /\ WF_appVars(\E ok \in BOOLEAN : TeardownSettles(s, ok))

-----------------------------------------------------------------------------
(* Properties                                                              *)

\* A process that ends by a graceful sweep has disposed of every provider that
\* was registered before the first signal, unless its own teardown rejected:
\* whichever of two overlapping sweeps ends first, and though one provider's
\* rejection is only logged (nural.ts:246-258).
GracefulExitDisposes ==
    process = "exited" =>
        \A p \in (promised \ NoTeardown) \ faulty : instance[p] = "null"

\* A teardown begins only when every provider registered later (and before the
\* signal) is disposed of or has failed to be: last in, first out, also when
\* a second signal's sweep overtakes the first (nural.ts:242-247).
TeardownsAreLifo ==
    \A s \in awaiting' \ awaiting :
        LET p == Head(sweeps[s])
            after == {providers[i] : i \in {i \in DOMAIN providers :
                        \E j \in 1 .. (i - 1) : providers[j] = p}}
        IN \A q \in (after \cap promised) \ NoTeardown :
               instance[q] = "null" \/ q \in faulty
LifoTeardown == [][TeardownsAreLifo]_appVars

\* What the documentation and the engine hold is the same list (with the docs
\* off nothing is documented), and together with what was refused it is the
\* listing: a throw half-way through a module leaves no route documented but
\* not served (nural.ts:138-146, 202-208).
RoutesAgree ==
    /\ documented = IF docs THEN served ELSE <<>>
    /\ ToSet(served) \subseteq ToSet(listing)
    /\ \A r \in ToSet(listing) \ ToSet(served) :
          r \in Unservable \/ (engine = "fastify" /\ server = "bound")

\* A signal ends the process: no sweep is left half-way, whatever the teardowns
\* answer, provided each of them settles (nural.ts:264-276).
SignalEndsProcess ==
    \A s \in Signals : Sweeping(s) ~> process # "up"
=============================================================================
