------------------------ MODULE MCTransactionTracker ------------------------
(* The instance of TransactionTracker that TLC checks: its constants are   *)
(* in the configuration.                                                   *)
EXTENDS TransactionTracker
=============================================================================
