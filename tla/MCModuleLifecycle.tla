-------------------------- MODULE MCModuleLifecycle --------------------------
(* All the drivers, each loaded and unloaded once.                          *)
EXTENDS ModuleLifecycle

MCExplored == DOMAIN Drivers
=============================================================================
