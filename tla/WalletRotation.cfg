SPECIFICATION Spec
CONSTANTS
    Calls = {"first", "again", "other"}
    Ids = {"first", "again", "other"}
    Currency = {"USD"}
    Window = {"daily", "weekly"}
    Length <- MCLength
    Limits <- MCLimits
    Legacy <- NoLegacy
    Protocol <- MCProtocol
    ByHand = {}
    KeyOf <- MCKeyOf
    Price <- MCPrice
    Total <- MCTotal
    Home = "USD"
    MaxTime = 0
    MaxRotations = 1
    MasterKey = {0, 1}
    MaxMishaps = 1
    Fault = {}
INVARIANT
    SettledCounts
