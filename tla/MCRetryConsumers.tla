--------------------------- MODULE MCRetryConsumers ---------------------------
(***************************************************************************)
(* Small instances of RetryConsumers for TLC.                              *)
(***************************************************************************)
EXTENDS RetryConsumers

CONSTANTS m1, m2

\* A message of any kind beside an ordinary one.
OneOfAnyKind ==
    {k \in [Messages -> {"fine", "pair", "notJson", "invalid", "rejected", "poison"}] :
        k[m2] = "fine"}
=============================================================================
