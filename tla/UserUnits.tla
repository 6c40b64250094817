------------------------------- MODULE UserUnits -------------------------------
(***************************************************************************)
(* How the systemd adapter installs the unit of one process application and *)
(* starts, restarts or stops it.                                            *)
(*                                                                         *)
(* Three copies of the definition exist: the one the saved manifest renders *)
(* to, the unit file, and the one the user manager has loaded.  The adapter *)
(* writes the file and tells the manager to reload; each command may fail,  *)
(* time out or be cut short by the death of the process.  Operations on one *)
(* application do not overlap (ApplicationLockRegistry), nor does a change  *)
(* of its manifest overlap with one.                                        *)
(***************************************************************************)
CONSTANTS
    Manifests,  \* definitions that manifests render to
    Rejected,   \* those that systemd-analyze rejects
    Edited,     \* a unit file changed by hand
    None        \* no file, nothing loaded, no process

ASSUME DefinitionsAssumption ==
    /\ Rejected \subseteq Manifests
    /\ Manifests \ Rejected # {}
    /\ Edited \notin Manifests
    /\ None \notin Manifests \cup {Edited}

VARIABLES
    manifest,   \* what the saved manifest renders to
    file,       \* the content of the unit file
    loaded,     \* the definition the user manager has loaded
    process,    \* the definition the running process was started from
    failed,     \* the unit is in the failed state
    pc,         \* the command the adapter waits for
    action,     \* what it was asked to do
    previous,   \* UnitInstallReceipt.previous_content
    changed,    \* UnitInstallReceipt.changed
    outcome     \* how the last operation ended

receipt == <<previous, changed>>
vars    == <<manifest, file, loaded, process, failed, pc, action, receipt, outcome>>

Contents == Manifests \cup {Edited, None}

-----------------------------------------------------------------------------
(* The user manager                                                         *)

\* What daemon-reload makes of the loaded definition: an unloaded unit stays so
Refreshed == IF loaded = None THEN None ELSE file

\* The definition the next start uses: the loaded one, else the file
Definition == IF loaded = None THEN file ELSE loaded

\* A start or restart that takes effect; starting a running unit does nothing
Launch(k) ==
    /\ loaded' = Definition
    /\ process' = IF k = "start" /\ process # None THEN process ELSE Definition
    /\ failed' = FALSE

Idle == UNCHANGED <<loaded, process, failed>>

\* The process ends by itself
Exit ==
    /\ process # None
    /\ process' = None
    /\ failed' \in BOOLEAN
    /\ UNCHANGED <<manifest, file, loaded, pc, action, receipt, outcome>>

\* A unit that is neither running nor failed is forgotten
Unload ==
    /\ process = None /\ ~failed /\ loaded # None
    /\ loaded' = None
    /\ UNCHANGED <<manifest, file, process, failed, pc, action, receipt, outcome>>

\* daemon-reload on behalf of another application
ReloadForOther ==
    /\ loaded' = Refreshed /\ loaded' # loaded
    /\ UNCHANGED <<manifest, file, process, failed, pc, action, receipt, outcome>>

-----------------------------------------------------------------------------
(* Between operations                                                       *)

\* Possible also while the process runs: after a status command that failed the
\* persisted status is UNKNOWN, which the registry does not count as active
SaveManifest ==
    /\ pc = "idle"
    /\ manifest' \in Manifests \ {manifest}
    /\ UNCHANGED <<file, loaded, process, failed, pc, action, receipt, outcome>>

\* The unit file is changed or removed by hand
EditByHand ==
    /\ pc = "idle"
    /\ file' \in {Edited, None} \ {file}
    /\ UNCHANGED <<manifest, loaded, process, failed, pc, action, receipt, outcome>>

-----------------------------------------------------------------------------
(* The adapter                                                              *)

End(result) == pc' = "idle" /\ outcome' = result

\* UserUnitManager.consistency
Consistency == CASE file = None     -> "MISSING"
                 [] file = manifest -> "MATCH"
                 [] OTHER           -> "MISMATCH"

\* Render, check the directory and the target, read the file; a file that differs
\* is staged for verification
Begin(k) ==
    /\ pc = "idle" /\ k \in {"start", "restart"}
    /\ action' = k
    /\ \/ /\ previous' = file /\ changed' = FALSE
          /\ pc' = IF file = manifest THEN "act" ELSE "verify"
          /\ outcome' = "none"
       \/ End("failed") /\ UNCHANGED receipt             \* UnitError
       \/ End("raised") /\ UNCHANGED receipt             \* OSError
    /\ UNCHANGED <<manifest, file, loaded, process, failed>>

Stop ==
    /\ pc = "idle" /\ action' = "stop"
    /\ \/ process' = None /\ failed' \in BOOLEAN /\ End("succeeded")
       \/ /\ \/ process' = None /\ failed' \in BOOLEAN
             \/ UNCHANGED <<process, failed>>
          /\ End("failed")
    /\ UNCHANGED <<manifest, file, loaded, receipt>>

\* Faulty variant of Verified: the file is replaced whatever systemd-analyze says
VerifiedUnchecked ==
    /\ pc = "verify"
    /\ file' = manifest /\ changed' = TRUE /\ pc' = "reload"
    /\ Idle
    /\ UNCHANGED <<manifest, action, previous, outcome>>

\* systemd-analyze verify returns; an accepted definition replaces the file
Verified ==
    /\ pc = "verify"
    /\ \/ /\ manifest \notin Rejected
          /\ file' = manifest /\ changed' = TRUE
          /\ pc' = "reload" /\ UNCHANGED outcome
       \/ End("failed") /\ UNCHANGED <<file, changed>>   \* rejected, unavailable, timed out
       \/ /\ manifest \notin Rejected                     \* OSError before or after os.replace
          /\ End("raised") /\ file' \in {file, manifest} /\ UNCHANGED changed
    /\ Idle
    /\ UNCHANGED <<manifest, action, previous>>

\* Faulty variant of Rollback: only a new unit is removed, an old one is not put back
RollbackNewOnly(next) ==
    \/ (~changed \/ previous # None) /\ End("failed") /\ UNCHANGED file
    \/ changed /\ previous = None /\ file' = None /\ pc' = next /\ UNCHANGED outcome

\* UnitInstallReceipt.rollback up to its command; without a change it does nothing
Rollback(next) ==
    \/ ~changed /\ End("failed") /\ UNCHANGED file
    \/ changed /\ file' = previous /\ pc' = next /\ UNCHANGED outcome
    \/ changed /\ End("raised") /\ file' \in {file, previous}   \* OSError

\* Faulty variant of Reloaded: the result of daemon-reload is not looked at
ReloadedUnchecked ==
    /\ pc = "reload"
    /\ loaded' \in {loaded, Refreshed} /\ pc' = "act"
    /\ UNCHANGED <<manifest, file, process, failed, action, receipt, outcome>>

\* daemon-reload returns; after a failure it may or may not have happened
Reloaded ==
    /\ pc = "reload"
    /\ \/ loaded' = Refreshed /\ pc' = "act" /\ UNCHANGED <<file, outcome>>
       \/ loaded' \in {loaded, Refreshed} /\ Rollback("unreload")
    /\ UNCHANGED <<manifest, process, failed, action, receipt>>

\* systemctl start or restart returns
Acted ==
    /\ pc = "act"
    /\ \/ Launch(action) /\ pc' = "confirm" /\ UNCHANGED <<file, outcome>>
       \/ /\ Launch(action) \/ Idle
          /\ Rollback("undo")
    /\ UNCHANGED <<manifest, action, receipt>>

\* systemctl show returns: active or activating, or something else or no answer
Confirmed ==
    /\ pc = "confirm"
    /\ \/ process # None /\ End("succeeded") /\ UNCHANGED file
       \/ Rollback("undo")
    /\ Idle
    /\ UNCHANGED <<manifest, action, receipt>>

\* The daemon-reload of a rollback returns; its result is not looked at.  A failed
\* restart is followed by a restart of the previous definition.
RolledBack ==
    /\ pc \in {"unreload", "undo"}
    /\ loaded' \in {loaded, Refreshed}
    /\ IF pc = "undo" /\ action = "restart" /\ previous # None
       THEN pc' = "again" /\ UNCHANGED outcome
       ELSE End("failed")
    /\ UNCHANGED <<manifest, file, process, failed, action, receipt>>

\* The second restart returns, whatever it did
RestartedPrevious ==
    /\ pc = "again"
    /\ Launch("restart") \/ Idle
    /\ End("failed")
    /\ UNCHANGED <<manifest, file, action, receipt>>

\* The process dies while it waits for a command, which takes effect or not, and is
\* started again
Crash ==
    /\ pc # "idle"
    /\ End("lost")
    /\ \/ /\ pc \in {"reload", "unreload", "undo"}
          /\ loaded' = Refreshed /\ UNCHANGED <<process, failed>>
       \/ pc = "act" /\ Launch(action)
       \/ pc = "again" /\ Launch("restart")
       \/ Idle
    /\ UNCHANGED <<manifest, file, action, receipt>>

-----------------------------------------------------------------------------
(* The specification                                                        *)

\* A new application, without a unit
Init ==
    /\ manifest \in Manifests
    /\ file = None /\ loaded = None /\ process = None /\ failed = FALSE
    /\ pc = "idle" /\ action = "stop" /\ outcome = "none"
    /\ previous = None /\ changed = FALSE

Next ==
    \/ Exit \/ Unload \/ ReloadForOther
    \/ SaveManifest \/ EditByHand
    \/ \E k \in {"start", "restart"} : Begin(k)
    \/ Stop \/ Verified \/ Reloaded \/ Acted \/ Confirmed
    \/ RolledBack \/ RestartedPrevious
    \/ Crash

Spec == Init /\ [][Next]_vars

-----------------------------------------------------------------------------
(* Properties                                                               *)

\* Every variable has the values its attribute, file or unit property can have.
TypeOK ==
    /\ manifest \in Manifests
    /\ file \in Contents
    /\ loaded \in Contents
    /\ process \in Contents
    /\ failed \in BOOLEAN
    /\ pc \in {"idle", "verify", "reload", "act", "confirm", "unreload", "undo", "again"}
    /\ action \in {"start", "stop", "restart"}
    /\ previous \in Contents
    /\ changed \in BOOLEAN
    /\ outcome \in {"none", "succeeded", "failed", "raised", "lost"}

\* A definition that an operation has written is what the user manager will start:
\* install() reloads before systemctl is called, and no failed reload slips through.
InstalledIsLoaded ==
    pc \in {"act", "confirm"} /\ changed =>
        /\ file = manifest
        /\ loaded \in {None, manifest}

\* A restart that installed a new definition succeeds only with a process that
\* runs it, and with a unit file that UserUnitManager.consistency calls a match.
InstalledIsRunning ==
    [][pc # "idle" /\ outcome' = "succeeded" /\ action = "restart" /\ changed =>
           process = manifest /\ Consistency = "MATCH"]_vars

\* An operation that answers "failed" leaves the unit file with the bytes it had
\* before, at whichever command it failed ("rolls back the previous bytes when
\* reload or startup fails").
FailureRestoresFile ==
    [][pc # "idle" /\ outcome' = "failed" => file' = previous]_vars

\* A definition that systemd rejects is never in the unit file, nor run.
OnlyVerifiedInstalled ==
    {file, loaded, process} \cap Rejected = {}

-----------------------------------------------------------------------------
(* A statement of the documentation that the code does not keep             *)

\* "validates the staged unit, installs it atomically, reloads the user daemon":
\* a restart that succeeds runs the saved manifest's definition.
RestartRunsManifest ==
    [][pc # "idle" /\ outcome' = "succeeded" /\ action = "restart" =>
           process' = manifest]_vars
=============================================================================
