\* A request refused for an expired access token is not followed by a refresh.
SPECIFICATION Spec
CONSTANTS
    None = None
    Tabs = {t1}
    Jobs = {j1}
    Offered = {}
    MaxCodes = 2
    MaxTokens = 2
    MaxExpired = 1
INVARIANTS ExpiredIsRefreshed
