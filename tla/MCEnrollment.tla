--------------------------- MODULE MCEnrollment ---------------------------
(***************************************************************************)
(* Small instances of Enrollment for TLC.                                  *)
(***************************************************************************)
EXTENDS Enrollment

\* Every machine is configured with the same token.
SharedToken == [h \in Hosts |-> CHOOSE t \in Tokens : TRUE]
============================================================================
