----------------------------- MODULE Upstreams ------------------------------
(***************************************************************************)
(* Two translations of an upstream into the address that is dialled: the   *)
(* one Caddy is configured with (caddy/config.go) and the one the health   *)
(* checker probes (controller/health.go), for the upstreams that the       *)
(* validator lets through (domain/route.go).  A host is a name and the     *)
(* square brackets it may be written with; what tells names apart is how   *)
(* net.ParseIP and validDNSName judge them.                                *)
(***************************************************************************)
EXTENDS Integers

CONSTANTS
    IPv4, IPv6,     \* names that net.ParseIP accepts
    DNSNames,       \* other names that validDNSName accepts
    BadNames,       \* names that neither accepts, the empty one among them
    Ports           \* the ports clients send

Host == [name: IPv4 \cup IPv6 \cup DNSNames \cup BadNames, left: BOOLEAN, right: BOOLEAN]

Upstream == [scheme: {"http", "https", "ftp"}, host: Host, port: Ports,
             skipTlsVerify: BOOLEAN]

Plain(name) == [name |-> name, left |-> FALSE, right |-> FALSE]

Trim(h) == Plain(h.name)

ParseIP(h) == h \in {Plain(n) : n \in IPv4 \cup IPv6}

\* An IPv4 address is a valid DNS name too.
validDNSName(h) == h \in {Plain(n) : n \in IPv4 \cup DNSNames}

ValidateUpstream(u) ==
    /\ u.scheme \in {"http", "https"}
    /\ ParseIP(Trim(u.host)) \/ validDNSName(u.host)
    /\ u.port \in 1..65535
    /\ u.skipTlsVerify => u.scheme = "https"

-----------------------------------------------------------------------------
(* host:port                                                               *)

Gateway == "host.docker.internal"

LoopbackNames == {"localhost", "127.0.0.1", "::1"}

\* net.JoinHostPort puts brackets around a host with a colon.
JoinHostPort(name, port) ==
    [name |-> name, left |-> name \in IPv6, right |-> name \in IPv6, port |-> port]

\* fmt.Sprintf("%s:%d") leaves the host as it is.
Sprintf(h, port) == [name |-> h.name, left |-> h.left, right |-> h.right, port |-> port]

\* Mutant of reverseProxyDial: addresses are never joined, only formatted.
reverseProxyDialUnjoined(u) ==
    LET loopback == {Plain(n) : n \in LoopbackNames}
                    \cup {[name |-> "::1", left |-> TRUE, right |-> TRUE]}
    IN  Sprintf(IF u.host \in loopback THEN Plain(Gateway) ELSE u.host, u.port)

reverseProxyDial(u) ==
    LET loopback == {Plain(n) : n \in LoopbackNames}
                    \cup {[name |-> "::1", left |-> TRUE, right |-> TRUE]}
        h == IF u.host \in loopback THEN Plain(Gateway) ELSE u.host
    IN  IF ParseIP(h) THEN JoinHostPort(h.name, u.port) ELSE Sprintf(h, u.port)

healthAddress(u) ==
    LET name == Trim(u.host).name
    IN  JoinHostPort(IF name \in LoopbackNames THEN Gateway ELSE name, u.port)

\* What net.Dial can split into host and port: brackets come in pairs, and an
\* IPv6 address needs them.
WellFormed(a) == a.left = a.right /\ (a.name \in IPv6 => a.left)

-----------------------------------------------------------------------------
(* What the two have to agree about                                        *)

\* The accepted upstreams whose host is written without brackets or as a
\* bracketed IPv6 address.
Conventional ==
    {u \in Upstream : /\ ValidateUpstream(u)
                      /\ u.host.left = u.host.right
                      /\ u.host.left => u.host.name \in IPv6}

SameAddress(u) ==
    LET proxied == reverseProxyDial(u)
        probed  == healthAddress(u)
    IN  /\ WellFormed(proxied) /\ WellFormed(probed)
        /\ proxied.name = probed.name /\ proxied.port = probed.port
=============================================================================
