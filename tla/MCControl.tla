----------------------------- MODULE MCControl -----------------------------
EXTENDS ControlPlane, TLC

\* Sandboxes and client requests are interchangeable.
Interchangeable == Permutations(Ids) \cup Permutations(Reqs)
=============================================================================
