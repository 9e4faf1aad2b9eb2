SPECIFICATION SpecInput
CONSTANTS
    Requests <- MCRequests
    Underscored <- MCUnderscored
    ValidNames = {"a", "b_c", "r", "req"}
    Names <- MCNames
    Values <- MCValues
    CookieNames = {"x", "y", "y/"}
    OddNames = {"y/"}
    MaxCookies = 3
    MaxSteps = 4
    MaxQuery = 3
INVARIANTS
    ParamsRight
    SearchAsPlain
    CookiesSent
