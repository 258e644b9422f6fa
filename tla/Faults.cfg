SPECIFICATION Spec
CONSTANTS
    Hosts = {"api", "web"}
    Zone = "local.test"
    Nobody = Nobody
    Requests = {r1, r2}
    Digests = {}
    Imports = {}
    Ids = {i1, i2}
    Inputs <- MCInputs
    Ops = {"create", "update", "delete"}
    Faults = {"reject", "timeout", "store", "cancel", "crash", "stop", "proxy"}
    MaxFaults = 2
    MaxRev = 2
SYMMETRY MCSymmetry
INVARIANT TypeOK
INVARIANT SerializedWrites
INVARIANT NoUnexplainedDrift
INVARIANT KeepsPromise
PROPERTY RevisionAdvances
PROPERTY CommitFollowsAccept
PROPERTY ImplementsRegistry
