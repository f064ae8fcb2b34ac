---------------------------- MODULE MCEnrollment ----------------------------
(* The instances of Enrollment that TLC checks. *)
EXTENDS Enrollment, TLC

\* Workers and join tokens are interchangeable; addresses, credentials and
\* node ids are ordered.
Interchangeable == Permutations(Workers) \cup Permutations(Tokens)
=============================================================================
