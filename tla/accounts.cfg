\* Two tabs of a customer: codes, registrations, logins and refreshes overlap, fail
\* half way, come late and expire.
SPECIFICATION Spec
CONSTANTS
    None = None
    Tabs = {t1, t2}
    Jobs = {j1, j2}
    Offered = {"refresh"}
    MaxCodes = 2
    MaxTokens = 2
    MaxExpired = 1
SYMMETRY TabSymmetry
INVARIANTS TypeOK OneLiveSession OneWelcome  BlockedAwaitsRefresh
