SPECIFICATION Spec
CONSTANTS
    Systems = {"linux"}
    Zones = {"local.test", "dev.test"}
    Ports = {"7400"}
    DefaultZone = "local.test"
    DefaultPort = "7400"
    Tags = {v1}
    Tokens = {t1, t2, t3}
    Authorities = {ca1}
    Attempts = 1
    Faults = {}
    MaxFaults = 0
INVARIANT ZoneServed
