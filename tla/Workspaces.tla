------------------------------- MODULE Workspaces -------------------------------
(***************************************************************************)
(* The normal and the simulated workspace behind one listener              *)
(* (src/features/simulation/workspace.ts).  Opening, draining and closing  *)
(* the simulation are asynchronous; requests keep arriving, the process    *)
(* may be stopped or die.  Workspace 0 is the normal one, a simulation is  *)
(* named by the number of its data set.  Of a session only its number is   *)
(* kept: pages carry it in their cookie and their CSRF token.              *)
(***************************************************************************)
EXTENDS Shared

CONSTANTS
  MaxSessions,   \* bound on the sessions issued
  MaxDatasets    \* bound on the simulations seeded

ASSUME WorkspaceAssumption == MaxSessions \in Nat /\ MaxDatasets \in Nat

VARIABLES
  stored,        \* simulation_settings of the normal database
  disk,          \* the data set in the simulation's file, 0 for no file
  process,       \* the fields of WorkspaceApplication
  change,        \* #transitionWork: what is under way and whose session began it
  admitted,      \* sessions the normal database accepts
  issued,        \* sessions and data sets there have been
  pages,         \* history: pages that were rendered, where and for whom
  requests,      \* requests that were routed and did not answer yet
  torn           \* history: the process died while a reset replaced the data

workspaceVars == <<stored, disk, process, change, admitted, issued, pages, requests, torn>>

Settings == [enabled : BOOLEAN, revision : Nat]
Process == [up : BOOLEAN, stopping : BOOLEAN, enabled : BOOLEAN, revision : Nat, open : Nat,
            running : BOOLEAN]
Page == [session : Nat, home : Nat, revision : Nat]
Request == [session : Nat, home : Nat, at : Nat]
Down == [up |-> FALSE, stopping |-> FALSE, enabled |-> FALSE, revision |-> 0, open |-> 0,
         running |-> FALSE]
NoChange == [kind |-> "none", step |-> "none", by |-> 0]

WorkspaceTypeOK ==
  /\ stored \in Settings /\ disk \in Nat /\ process \in Process
  /\ change \in [kind : {"none", "restore", "enable", "disable", "reset"}, by : Nat,
                 step : {"none", "opening", "drain", "commit", "discard", "closing"}]
  /\ admitted \subseteq Nat /\ issued \in [sessions : Nat, datasets : Nat]
  /\ \A p \in pages : p \in Page
  /\ \A r \in requests : r \in Request
  /\ torn \in BOOLEAN

WorkspaceInit ==
  /\ stored = [enabled |-> FALSE, revision |-> 0] /\ disk = 0 /\ process = Down
  /\ change = NoChange /\ admitted = {} /\ issued = [sessions |-> 0, datasets |-> 0]
  /\ pages = {} /\ requests = {} /\ torn = FALSE

-----------------------------------------------------------------------------
(* Serving *)

Changing == change # NoChange
Serving == process.up /\ ~process.stopping /\ ~Changing
Here == IF process.enabled THEN process.open ELSE 0
Simulated == {r \in requests : r.at # 0}

Login ==
  /\ Serving /\ issued' = [issued EXCEPT !.sessions = @ + 1]
  /\ admitted' = admitted \cup {issued'.sessions}
  /\ UNCHANGED <<stored, disk, process, change, pages, requests, torn>>
Logout(s) ==
  /\ process.up /\ s \in admitted /\ admitted' = admitted \ {s}
  /\ UNCHANGED <<stored, disk, process, change, issued, pages, requests, torn>>

View(s) ==
  /\ Serving /\ s \in admitted
  /\ pages' = pages \cup {[session |-> s, home |-> Here, revision |-> process.revision]}
  /\ UNCHANGED <<stored, disk, process, change, admitted, issued, requests, torn>>
Submit(p) ==
  /\ Serving /\ p.session \in admitted
  /\ requests' = requests \cup {[session |-> p.session, home |-> p.home, at |-> Here]}
  /\ UNCHANGED <<stored, disk, process, change, admitted, issued, pages, torn>>
Answer(r) ==
  /\ requests' = requests \ {r}
  /\ UNCHANGED <<stored, disk, process, change, admitted, issued, pages, torn>>

-----------------------------------------------------------------------------
(* Changing *)

Opened(dataset) == [process EXCEPT !.open = dataset, !.running = TRUE]
ClosedSimulation == [process EXCEPT !.open = 0, !.running = FALSE]
OpenData ==
  IF disk # 0 THEN UNCHANGED <<disk, issued>>
  ELSE issued' = [issued EXCEPT !.datasets = @ + 1] /\ disk' = issued'.datasets

Resting(step) ==
  /\ change' = [change EXCEPT !.step = step]
  /\ UNCHANGED <<stored, admitted, pages, requests>>

\* As a bug: a new session is not asked for.
KeptSession ==
  /\ admitted' = admitted /\ issued' = issued
Rotated ==
  /\ issued' = [issued EXCEPT !.sessions = @ + 1] /\ admitted' = {issued'.sessions}

Begin(kind, s) ==
  /\ Serving /\ s \in admitted
  /\ kind = "reset" => process.enabled
  /\ change' = [kind |-> kind, by |-> s,
                step |-> IF kind # "enable" THEN "drain"
                         ELSE IF process.open = 0 THEN "opening" ELSE "commit"]
  /\ process' = IF kind = "enable" THEN process ELSE [process EXCEPT !.running = FALSE]
  /\ UNCHANGED <<stored, disk, admitted, issued, pages, requests, torn>>

Drained ==
  /\ change.step = "drain" /\ Simulated = {}
  /\ Resting(IF change.kind = "disable" THEN "commit" ELSE "discard")
  /\ UNCHANGED <<disk, process, issued, torn>>

\* #performTransition, catch: back to what was, as far as it is still there.
Failed ==
  /\ change' = NoChange
  /\ process' = IF ~process.enabled THEN ClosedSimulation
                ELSE [process EXCEPT !.running = ~process.stopping]
  /\ UNCHANGED <<stored, disk, admitted, issued, pages, requests, torn>>
DrainTimeout == change.step = "drain" /\ Simulated # {} /\ Failed

Enable ==
  /\ change.kind = "enable" /\ change.step = "opening" /\ ~process.stopping
  /\ OpenData /\ process' = Opened(disk') /\ Resting("commit") /\ UNCHANGED torn
OpeningFails == change.kind = "enable" /\ change.step = "opening" /\ Failed

MayCommit == ~process.stopping /\ change.by \in admitted
Commit ==
  /\ change.kind \in {"enable", "disable"} /\ change.step = "commit" /\ MayCommit
  /\ Rotated
  /\ stored' = [enabled |-> change.kind = "enable", revision |-> stored.revision + 1]
  /\ process' = [(IF change.kind = "enable" THEN process ELSE ClosedSimulation) EXCEPT
                   !.enabled = stored'.enabled, !.revision = stored'.revision]
  /\ change' = IF change.kind = "enable" THEN NoChange ELSE [change EXCEPT !.step = "closing"]
  /\ UNCHANGED <<disk, pages, requests, torn>>
CommitFails ==
  /\ change.kind \in {"enable", "disable"} /\ change.step = "commit" /\ ~MayCommit /\ Failed
Close ==
  /\ change.step = "closing" /\ change' = NoChange
  /\ UNCHANGED <<stored, disk, process, admitted, issued, pages, requests, torn>>

(* Reset: the old data is removed first. *)
FileUnsafe == change.step = "discard" /\ Failed
Discard ==
  /\ change.step = "discard" /\ ~process.stopping
  /\ process' = ClosedSimulation /\ disk' = 0 /\ Resting("opening")
  /\ UNCHANGED <<issued, torn>>
Reopen ==
  /\ change.kind = "reset" /\ change.step = "opening" /\ ~process.stopping
  /\ OpenData /\ process' = Opened(disk') /\ Resting("commit") /\ UNCHANGED torn
CommitReset ==
  /\ change.kind = "reset" /\ change.step = "commit" /\ MayCommit
  /\ Rotated /\ stored' = [stored EXCEPT !.revision = @ + 1]
  /\ process' = [process EXCEPT !.revision = stored'.revision]
  /\ change' = NoChange /\ UNCHANGED <<disk, pages, requests, torn>>

\* To the normal workspace, for everyone anew.
GiveUp ==
  /\ stored' = [enabled |-> FALSE, revision |-> stored.revision + 1] /\ admitted' = {}
  /\ process' = [ClosedSimulation EXCEPT !.enabled = FALSE, !.revision = stored'.revision]
  /\ change' = NoChange /\ UNCHANGED <<disk, issued, pages, requests, torn>>
ResetFails ==
  /\ change.kind = "reset"
  /\ change.step = "opening" \/ (change.step = "commit" /\ ~MayCommit)
  /\ GiveUp

-----------------------------------------------------------------------------
(* The process *)

Start ==
  /\ ~process.up
  /\ process' = [Down EXCEPT !.up = TRUE, !.revision = stored.revision]
  /\ change' = IF stored.enabled THEN [kind |-> "restore", step |-> "opening", by |-> 0]
               ELSE NoChange
  /\ UNCHANGED <<stored, disk, admitted, issued, pages, requests, torn>>
Restore ==
  /\ change.kind = "restore" /\ ~process.stopping /\ OpenData
  /\ process' = [Opened(disk') EXCEPT !.enabled = TRUE] /\ change' = NoChange
  /\ UNCHANGED <<stored, admitted, pages, requests, torn>>
RestoreFails == change.kind = "restore" /\ ~process.stopping /\ GiveUp

Stop ==
  /\ process.up /\ ~process.stopping
  /\ process' = [process EXCEPT !.stopping = TRUE, !.running = FALSE]
  /\ UNCHANGED <<stored, disk, change, admitted, issued, pages, requests, torn>>
Stopped ==
  /\ process.stopping /\ (~Changing \/ change.kind = "restore")
  /\ process' = Down /\ change' = NoChange /\ requests' = {}
  /\ UNCHANGED <<stored, disk, admitted, issued, pages, torn>>
Crash ==
  /\ process.up /\ process' = Down /\ change' = NoChange /\ requests' = {}
  /\ torn' = (torn \/ (change.kind = "reset" /\ change.step \in {"opening", "commit"}))
  /\ UNCHANGED <<stored, disk, admitted, issued, pages>>

WorkspaceNext ==
  \/ issued.sessions < MaxSessions /\ Login
  \/ \E s \in admitted : Logout(s) \/ View(s)
  \/ \E p \in pages : Submit(p)
  \/ \E r \in requests : Answer(r)
  \/ \E kind \in {"enable", "disable", "reset"}, s \in admitted :
       issued.sessions < MaxSessions /\ Begin(kind, s)
  \/ issued.datasets < MaxDatasets /\ (Enable \/ Reopen \/ Restore)
  \/ Drained \/ DrainTimeout \/ OpeningFails \/ Commit \/ CommitFails \/ Close
  \/ FileUnsafe \/ Discard \/ CommitReset \/ ResetFails
  \/ Start \/ RestoreFails \/ Stop \/ Stopped \/ Crash

WorkspaceSpec == WorkspaceInit /\ [][WorkspaceNext]_workspaceVars

-----------------------------------------------------------------------------
\* A page is of no use in any workspace but the one it was rendered in: whenever its
\* session is accepted its workspace is the one that is served, or it shows an older
\* revision; and a request that is under way still finds the data its page came from.
\* Only a reset that the process does not survive is excepted: it leaves the sessions
\* as they were (setEnabled, reset, #drain).
PagesBelong ==
  /\ Serving /\ ~torn => \A p \in pages :
       p.session \in admitted => p.home = Here /\ p.revision = process.revision
  /\ \A r \in requests : r.session \in admitted /\ ~torn => r.home = r.at
  /\ \A r \in Simulated : process.open = r.at

\* Between changes the process serves what the database says, and a simulation is
\* open, with its sensors running, exactly if it is the one that is served.
ModeAgrees ==
  Serving =>
    /\ process.enabled = stored.enabled /\ process.revision = stored.revision
    /\ process.enabled <=> process.open # 0
    /\ process.running <=> process.open # 0
    /\ process.open # 0 => process.open = disk

\* Pages meet the workspace they were rendered in, and the process the stored mode.
WorkspacesSound == PagesBelong /\ ModeAgrees
=============================================================================
