-------------------------------- MODULE Services --------------------------------
(***************************************************************************)
(* The services of the console that share nothing but the host (the        *)
(* application makes one of each, and none reads another's rows): they run *)
(* next to one another, each in its own steps.                             *)
(***************************************************************************)
EXTENDS Authentication, SecretStore, TelemetryRateLimiter, Workspaces, Autosave

servicesVars == <<authVars, secretVars, vars, workspaceVars, autosaveVars>>

ServicesSpec == AuthSpec /\ SecretSpec /\ Spec /\ WorkspaceSpec /\ AutosaveSpec

\* The types of all of them.
ServicesTypeOK == AuthTypeOK /\ SecretTypeOK /\ TypeOK /\ WorkspaceTypeOK /\ AutosaveTypeOK
=============================================================================
