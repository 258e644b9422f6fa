SPECIFICATION HealthSpec
CONSTANTS
    Hosts = {"api"}
    Zone = "local.test"
    Nobody = Nobody
    Requests = {r1}
    Digests = {}
    Imports = {}
    Ids = {i1}
    Inputs <- MCInputs
    Ops = {"create", "update", "delete"}
    Faults = {"crash", "stop"}
    MaxFaults = 1
    MaxRev = 3
    Limit = 1
    IPv4 <- MCIPv4
    IPv6 <- MCIPv6
    DNSNames <- MCDNSNames
    BadNames <- MCBadNames
    Ports <- MCPorts
INVARIANT SweepInv
PROPERTY VerdictsInOrder
PROPERTY VerdictCatchesUp
