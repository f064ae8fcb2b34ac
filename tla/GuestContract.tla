--------------------------- MODULE GuestContract ---------------------------
(***************************************************************************)
(* The exec of GuestExec as its caller sees it: the output is what reached *)
(* the caller, the answer what the call ended with.                        *)
(***************************************************************************)
EXTENDS GuestExec

\* For its caller an exec is the one of the contract: a prefix of the output,
\* all of it when the answer is the command's own exit code, and nothing after
\* the answer; for both modes and under every fault.
Contract == INSTANCE ExecContract WITH
    Calls <- Execs,
    produced <- [c \in Execs |-> cmd[c].written],
    delivered <- [c \in Execs |-> host[c].got],
    answer <- [c \in Execs |-> host[c].answer]

KeepsContract == Contract!Spec
=============================================================================
