SPECIFICATION MCSpec
CONSTANTS
    Providers = {p1, p2, p3}
    NoTeardown = {p2}
    Signals = {SIGINT, SIGTERM}
    Routes = {"r1", "r2", "bad"}
    Unservable = {"bad"}
    BasePort = 3
    MaxAttempts = 2
    Cases <- MCCases
INVARIANTS
    GracefulExitDisposes
    RoutesAgree
    HandlerSeesValid
    EnginesAgree
PROPERTIES
    LifoTeardown
    SignalEndsProcess
CHECK_DEADLOCK FALSE
