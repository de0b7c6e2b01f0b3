\* Two packets of any clients for any PDP, whole, damaged or mixed.
CONSTANTS
    Identities <- TheIdentities
    Registered <- TheRegistered
    NoPSK = "none"
    Nothing = Nothing
    PDPs = {"pdp", "other"}
    Self = "pdp"
    Payloads = {"x", "y"}
    Times <- TheTimes
    Skew = 1
    Ephemerals = {"e1", "e2"}
SPECIFICATION Spec
CHECK_DEADLOCK FALSE
INVARIANTS OpensExactlyGenuine SidesAgree
