---------------------------- MODULE ExecContract ----------------------------
(***************************************************************************)
(* What an exec promises its caller, whatever runs in the guest, whatever  *)
(* is lost on the way and whoever gives up first: the output that arrives  *)
(* is a prefix of what the command wrote, and an answer with the command's *)
(* own exit code comes after all of its output, when nothing is left that  *)
(* could write more.  (docs/adr/ADR-0009: "chunk frames, then exactly one  *)
(* terminal" frame; "the missing done frame is the consumer's error        *)
(* signal".)                                                               *)
(***************************************************************************)
EXTENDS Naturals, FiniteSetsExt

CONSTANTS Calls, Streams,
          Cap,   \* the bytes of a stream that are kept (STREAM_MAX_OUTPUT_BYTES)
          None

VARIABLES produced,   \* bytes written to each stream
          delivered,  \* bytes that reached the caller
          answer      \* how the call ended for the caller

Kept(c, s) == Min({Cap, produced[c][s]})

Init ==
    /\ produced = [c \in Calls |-> [s \in Streams |-> 0]]
    /\ delivered = [c \in Calls |-> [s \in Streams |-> 0]]
    /\ answer = [c \in Calls |-> None]

Produce(c, s) ==
    /\ answer[c] \notin {"exit", "killed"}
    /\ produced' = [produced EXCEPT ![c][s] = @ + 1]
    /\ UNCHANGED <<delivered, answer>>

Deliver(c, s) ==
    /\ answer[c] = None
    /\ \E n \in delivered[c][s] .. Kept(c, s) : delivered' = [delivered EXCEPT ![c][s] = n]
    /\ UNCHANGED <<produced, answer>>

\* The command's own exit code.
Complete(c) ==
    /\ answer[c] = None
    /\ answer' = [answer EXCEPT ![c] = "exit"]
    /\ delivered' = [delivered EXCEPT ![c] = [s \in Streams |-> Kept(c, s)]]
    /\ UNCHANGED produced

\* Exit code 124: the command was killed, and what was read by then arrives.
Expire(c) ==
    /\ answer[c] = None
    /\ answer' = [answer EXCEPT ![c] = "killed"]
    /\ \E d \in [Streams -> 0 .. Cap] :
          /\ \A s \in Streams : delivered[c][s] <= d[s] /\ d[s] <= Kept(c, s)
          /\ delivered' = [delivered EXCEPT ![c] = d]
    /\ UNCHANGED produced

\* An error, or a stream that ends without its done frame.
Fail(c) ==
    /\ answer[c] = None
    /\ answer' = [answer EXCEPT ![c] = "failed"]
    /\ UNCHANGED <<produced, delivered>>

Next ==
    \E c \in Calls :
        \/ \E s \in Streams : Produce(c, s) \/ Deliver(c, s)
        \/ Complete(c) \/ Expire(c) \/ Fail(c)

Spec == Init /\ [][Next]_<<produced, delivered, answer>>
=============================================================================
