SPECIFICATION MCSpec
CONSTANTS
    s1 = s1
    s2 = s2
    Servers = {s1, s2}
    Versions = {1, 2}
    Secret <- MCSecret
    Engine <- MCEngines
    Skew <- MCSkew
    OverlapWindow = 1
    PollInterval = 2
    BackoffInitial = 1
    BackoffMax = 2
    MaxFailures = 2
    MaxAge = 3
    LocalKeys <- MCLocalKeys
    Alterations = {"none", "version", "key id", "bits", "cut"}
    Users <- MCUsers
    Policies <- MCPolicies
INVARIANTS
    TokenOutlivesRotation
    NoPollAfterDispose
    InspectorExplains
    MalformedClaimsRefused
PROPERTIES
    CacheFollowsVault
CHECK_DEADLOCK FALSE
