------------------------------ MODULE MCHealth ------------------------------
(* Instances of HealthChecker for TLC.                                      *)
EXTENDS HealthChecker

MCUpstream == [scheme |-> "http", host |-> "localhost", port |-> 3000,
               skipTlsVerify |-> FALSE]

MCInputs == {[hostname |-> h, spelling |-> "normal", publicMode |-> "http",
              upstream |-> MCUpstream] : h \in Hosts}

\* Loopback and other names of each kind, and ports at and beyond both ends.
MCIPv4     == {"127.0.0.1", "10.0.0.5"}
MCIPv6     == {"::1", "2001:db8::1"}
MCDNSNames == {"localhost", "host.docker.internal", "app"}
MCBadNames == {"", "App", "a b"}
MCPorts    == {0, 1, 3000, 65535, 65536}
=============================================================================
