\* The paywall tells a customer whose account is paused that the subscription is active.
SPECIFICATION Spec
CONSTANTS
    None = None
    MaxRows = 3
    Sessions = {s1}
    Periods = {1}
    Monthly = 1
    LastDay = 0
    Horizon = 9
PROPERTIES AlreadyActiveAdmits
