SPECIFICATION LiveSpec
CONSTANTS
    Systems = {"linux", "darwin"}
    Zones = {"local.test", "dev.test"}
    Ports = {"7400"}
    DefaultZone = "local.test"
    DefaultPort = "7400"
    Tags = {v1}
    Tokens = {t1, t2, t3}
    Authorities = {ca1, ca2}
    Attempts = 1
    Faults = {"step", "write", "reboot"}
    MaxFaults = 1
INVARIANT TypeOK
INVARIANT IndInv
INVARIANT InstallEstablishes
INVARIANT UpgradeConverges
INVARIANT SkewExplained
INVARIANT NothingLeftBehind
INVARIANT TrustFresh
INVARIANT Gated
PROPERTY CommandEnds
