----------------------------- MODULE ErrorCodes -----------------------------
(***************************************************************************)
(* Broker error codes and what the client does about each of them          *)
(* (barnabas-core/src/lib.rs).  A code is named after its constant in the  *)
(* source; OTHER stands for every code the source has no constant for, and *)
(* for the constants that share its fate.                                  *)
(***************************************************************************)

ErrorCode ==
  { "NONE", "OFFSET_OUT_OF_RANGE", "UNKNOWN_TOPIC_OR_PARTITION",
    "LEADER_NOT_AVAILABLE", "NOT_LEADER_OR_FOLLOWER", "REQUEST_TIMED_OUT",
    "COORDINATOR_LOAD_IN_PROGRESS", "COORDINATOR_NOT_AVAILABLE",
    "NOT_COORDINATOR", "OUT_OF_ORDER_SEQUENCE_NUMBER",
    "DUPLICATE_SEQUENCE_NUMBER", "INVALID_PRODUCER_EPOCH",
    "CONCURRENT_TRANSACTIONS", "PRODUCER_FENCED", "OTHER" }

Disposition == { "Ok", "Retry", "RefreshMetadata", "FindCoordinator", "Fatal" }

(* How to react.  Whatever is not listed is fatal, unknown codes included. *)
disposition(code) ==
  CASE code = "NONE" -> "Ok"
    [] code \in { "LEADER_NOT_AVAILABLE", "NOT_LEADER_OR_FOLLOWER",
                  "UNKNOWN_TOPIC_OR_PARTITION" } -> "RefreshMetadata"
    [] code \in { "COORDINATOR_LOAD_IN_PROGRESS",
                  "COORDINATOR_NOT_AVAILABLE" } -> "Retry"
    [] code = "NOT_COORDINATOR" -> "FindCoordinator"
    [] code \in { "REQUEST_TIMED_OUT", "CONCURRENT_TRANSACTIONS" } -> "Retry"
    [] OTHER -> "Fatal"
=============================================================================
