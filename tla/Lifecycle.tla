----------------------------- MODULE Lifecycle -----------------------------
(***************************************************************************)
(* The lifecycles of agents and printers (src/lib/lifecycle.ts).           *)
(***************************************************************************)

Lifecycles == {"active", "disabled", "retired"}

CanTransitionLifecycle(current, next) ==
  \/ current = next
  \/ current \in {"active", "disabled"} /\ next \in Lifecycles
=============================================================================
