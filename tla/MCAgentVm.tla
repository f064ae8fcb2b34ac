----------------------------- MODULE MCAgentVm -----------------------------
(* The instances of AgentVm that TLC checks. *)
EXTENDS AgentVm, TLC

\* VM ids and request tasks are interchangeable; pids and slots are ordered.
Interchangeable == Permutations(Ids) \cup Permutations(Reqs)
=============================================================================
