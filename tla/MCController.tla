---------------------------- MODULE MCController ----------------------------
(* Instances of Controller for TLC.                                        *)
EXTENDS ControllerRegistry, TLC

Up(host) == [scheme |-> "http", host |-> host, port |-> 3000, skipTlsVerify |-> FALSE]

In(h, s, mode, up) ==
    [hostname |-> h, spelling |-> s, publicMode |-> mode, upstream |-> up]

Port(h, s, on, mode, up) ==
    [hostname |-> h, spelling |-> s, enabled |-> on, publicMode |-> mode,
     upstream |-> up]

\* Two valid inputs, between which an update renames a route onto another, and
\* one that does not validate.
MCInputs == {In("api", "normal", "http", Up("localhost")),
             In("web", "normal", "https", Up("10.0.0.5")),
             In("web", "invalid", "http", Up("10.0.0.5"))}

\* A name with another mode; a respelt and a disabled one; a document with two
\* spellings of a name.
MCImports == {<<Port("api", "normal", TRUE, "https", Up("localhost"))>>,
              <<Port("web", "variant", TRUE, "https", Up("10.0.0.5")),
                Port("api", "normal", FALSE, "http", Up("localhost"))>>,
              <<Port("api", "normal", TRUE, "http", Up("localhost")),
                Port("api", "variant", TRUE, "http", Up("localhost"))>>}

MCOneImport == {<<Port("web", "variant", TRUE, "https", Up("10.0.0.5"))>>}

MCSymmetry ==
    Permutations(Ids) \cup Permutations(Requests) \cup Permutations(Digests)
=============================================================================
