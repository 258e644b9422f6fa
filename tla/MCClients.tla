----------------------------- MODULE MCClients ------------------------------
(* Instances of Clients for TLC.                                            *)
EXTENDS Clients, TLC

Up(host) == [scheme |-> "http", host |-> host, port |-> 3000, skipTlsVerify |-> FALSE]

\* One name, two targets.
MCInputs == {[hostname |-> "api", spelling |-> "normal", publicMode |-> "http",
              upstream |-> Up("localhost")]}

\* A document that respells the name the pages edit and adds another.
MCImports == {<<[hostname |-> "api", spelling |-> "variant", enabled |-> TRUE,
                 publicMode |-> "http", upstream |-> Up("localhost")],
                [hostname |-> "web", spelling |-> "normal", enabled |-> TRUE,
                 publicMode |-> "http", upstream |-> Up("10.0.0.5")]>>}

MCSymmetry == Permutations(Ids) \cup Permutations(Pages)
=============================================================================
