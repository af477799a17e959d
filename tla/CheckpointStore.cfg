SPECIFICATION Spec
CONSTANTS
    m1 = m1
    m2 = m2
    c1 = c1
    c2 = c2
    c3 = c3
    op1 = op1
    same = same
    other = other
    LastId = 4
    Messages = {m1, m2}
    Items = {"old"}
    Gone = "gone"
    Lists <- TwoMessages
    Calls <- ThreeCalls
    OpOf <- OneOp
    IdentityOf <- Identities
    NoOp = NoOp
    NoReceipt = NoReceipt
    Starts <- Situations
INVARIANTS StoreSound ReadsWhatWasPut CompactsOnce
PROPERTIES NothingOvertaken
CHECK_DEADLOCK FALSE
