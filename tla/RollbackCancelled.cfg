SPECIFICATION Spec
CONSTANTS
    Hosts = {"api", "web"}
    Zone = "local.test"
    Nobody = Nobody
    Requests = {r1}
    Ids = {i1}
    Inputs <- MCInputs
    MaxFaults = 1
    MaxRev = 2
    Digests = {}
    Imports = {}
    Ops = {"create", "delete"}
    Faults = {"cancel"}
INVARIANT RollbackRestores
