SPECIFICATION Spec
CONSTANTS
    Browsers = {b1, b2}
    Sessions = {s1, s2, s3}
    Tokens = {"t1", "t2", "empty"}
    TTL = 2
    Horizon = 5
SYMMETRY MCSymmetry
INVARIANT TypeOK
INVARIANT IndInv
INVARIANT AdmissionPolicy
INVARIANT SessionsPruned
INVARIANT CookieOutlives
