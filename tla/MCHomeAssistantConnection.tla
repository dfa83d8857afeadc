----------------------- MODULE MCHomeAssistantConnection -----------------------
(* The instance for TLC needs no definition beyond the constants of its .cfg: *)
(* no symmetry, because the run checks liveness.                              *)
EXTENDS HomeAssistantConnection
===============================================================================
