SPECIFICATION LiveSpec
CONSTANTS
    Hosts = {"api", "web"}
    Zone = "local.test"
    Nobody = Nobody
    Requests = {r1, r2}
    Ids = {i1, i2}
    Digests = {d1}
    Inputs <- MCInputs
    Imports <- MCOneImport
    Ops = {"create", "delete", "preview"}
    Faults = {"cancel", "crash", "stop", "proxy"}
    MaxFaults = 1
    MaxRev = 2
PROPERTY EveryRequestReturns
PROPERTY StartupConverges
