---------------------------- MODULE MCDeferredWork ----------------------------
(* All the drivers, one interrupt line; the list driver has two writers.    *)
EXTENDS DeferredWork

MCExplored == AllDrivers
MCTimer    == {"timer"}
MCValues   == {1, 2}
=============================================================================
