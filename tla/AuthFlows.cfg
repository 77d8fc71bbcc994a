SPECIFICATION MCSpec
CONSTANTS
    Verifications = {w1, w2}
    Kids = {k1, k2}
    Ttl = 3
    MinRefresh = 1
    FetchTime = 1
    Flows = {"tab1", "tab2"}
    Retries = 1
    Accounts <- MCAccounts
    Tabs = {t1, t2}
    MaxTokens = 3
    Tokens = {1, 2, 3, 4}
    Families = {1, 2, 3}
    Users = {u1}
    TTLs = {2}
    Cap = 2
    MaxNow = 4
    Nil = Nil
INVARIANTS
    JwksStaleness
    LoginProven
    HonestClientStaysIn
    EndedStaysEnded
    CapHolds
    ReplayDetectable
PROPERTIES
    CallbackAnswered
CHECK_DEADLOCK FALSE
