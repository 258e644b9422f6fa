SPECIFICATION HealthSpec
CONSTANTS
    Hosts = {"api", "web"}
    Zone = "local.test"
    Nobody = Nobody
    Requests = {r1}
    Digests = {}
    Imports = {}
    Ids = {i1, i2}
    Inputs <- MCInputs
    Ops = {"create", "delete"}
    Faults = {"stop"}
    MaxFaults = 1
    MaxRev = 2
    Limit = 1
    IPv4 <- MCIPv4
    IPv6 <- MCIPv6
    DNSNames <- MCDNSNames
    BadNames <- MCBadNames
    Ports <- MCPorts
INVARIANT HealthTypeOK
INVARIANT ProbeMatchesProxy
PROPERTY SweepFinishes
