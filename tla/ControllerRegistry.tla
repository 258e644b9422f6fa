------------------------- MODULE ControllerRegistry -------------------------
(***************************************************************************)
(* The controller implements the registry.  What is published and not yet  *)
(* stored is the snapshot of the handler that is at its statement, or that *)
(* still has to roll a failed statement back.                              *)
(***************************************************************************)
EXTENDS Controller

Registry == INSTANCE RouteRegistry WITH
    table    <- db,
    gone     <- retired,
    served   <- caddy,
    open     <- {Proposed(r) : r \in {q \in Requests : Exposed(q)}},
    diverged <- drift # {}

\* Whatever the handlers, Caddy, clients and operators do, each step of the
\* controller publishes, stores or undoes one whole change, or is a failure
\* that the causes of divergence name (service.go and config.go: list, apply,
\* persist and roll back under Service.mu).
ImplementsRegistry == Registry!Spec

\* At every moment, between the points of a mutation too, the controller keeps
\* what the registry promises: without a cause of divergence Caddy serves what is
\* published and not yet stored, or else the stored table; there is one such change
\* at most, and neither table has a deleted route (service.go, apply and persist).
KeepsPromise == Registry!Promise
=============================================================================
