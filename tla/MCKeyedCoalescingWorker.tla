---------------------- MODULE MCKeyedCoalescingWorker ----------------------
(* Two keys for TLC.                                                       *)
EXTENDS KeyedCoalescingWorker

CONSTANTS k1, k2

MCKey == {k1, k2}
=============================================================================
