------------------------- MODULE MCScannerScheduler -------------------------
(* Two instances compete for the lock.                                      *)
EXTENDS ScannerScheduler
=============================================================================
