----------------------------- MODULE MCNodeNet -----------------------------
(* The instance of NodeNet that TLC checks. *)
EXTENDS NodeNet, TLC

CONSTANTS v1, v2

\* Two VMs may have been left by the last agent, on the first two slots.
Left == v1 :> 1 @@ v2 :> 2

\* Requests and tenants are interchangeable.
Interchangeable == Permutations(Handlers) \cup Permutations(Tenants)
=============================================================================
