--------------------------------- MODULE Cellar ---------------------------------
(***************************************************************************)
(* What is on tap, and how it fares: Beverages with their synchronisation, *)
(* and the health checks of a Tap.  The application makes one service of   *)
(* each, with tables of their own; all a check is told of a Beverage is    *)
(* that its density changed, which Health allows at any time (CorrectKeg). *)
(***************************************************************************)
EXTENDS BrewfatherSync, Health

CellarSpec == SyncSpec /\ HealthSpec

\* The types of both.
CellarTypeOK == SyncTypeOK /\ HealthTypeOK
=============================================================================
