SPECIFICATION Spec
CONSTANTS
    Hosts = {"api", "web"}
    Zone = "local.test"
    Nobody = Nobody
    Requests = {r1, r2}
    Ids = {i1, i2}
    Digests = {d1, d2}
    Inputs <- MCInputs
    Imports <- MCImports
    Ops = {"create", "delete", "preview"}
    Faults = {"store"}
    MaxFaults = 1
    MaxRev = 3
SYMMETRY MCSymmetry
INVARIANT IndInv
INVARIANT HostsUnique
INVARIANT NoResurrection
INVARIANT ExportRoundTrip
PROPERTY ImportExact
PROPERTY ImplementsRegistry
