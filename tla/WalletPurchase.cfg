SPECIFICATION Spec
CONSTANTS
    Calls = {"first", "again", "other"}
    Ids = {"first", "again", "other", "old"}
    Currency = {"USD"}
    Window = {"daily", "weekly"}
    Length <- MCLength
    Limits <- MCLimits
    Legacy <- MCLegacy
    Protocol <- MCProtocol
    ByHand = {"other"}
    KeyOf <- MCKeyOf
    Price <- MCPrice
    Total <- MCTotal
    Home = "USD"
    MaxTime = 1
    MaxRotations = 1
    MasterKey = {0, 1}
    MaxMishaps = 1
    Fault = {"answer", "merchant", "settle"}
INVARIANTS
    ChargeIsBooked
    ChargesWithinCap
    ReceiptIsKept
PROPERTIES
    IsReservationBook
