--------------------------------- MODULE Deploy ---------------------------------
(***************************************************************************)
(* Installing, upgrading and uninstalling the control plane itself          *)
(* (scripts/machinedeck_deploy.py).                                         *)
(*                                                                         *)
(* deploy() is a straight line of file operations and commands inside one   *)
(* try block.  Any of them may raise; the handler then undoes what was      *)
(* done, in a fixed order, with commands whose failure it ignores.  The     *)
(* script may also die at any point: a signal is not an Exception, so the   *)
(* handler does not run, and what its own file operations raise ends it.    *)
(***************************************************************************)
EXTENDS Naturals

CONSTANTS
    First,      \* the release directory of a first installation: the version
    Upgrades,   \* release directories of upgrades: each name is used once
    None,       \* no release, no file, no database
    MaxFaults   \* bound on deaths of the script, of the service, and ignored failures

ASSUME ReleasesAssumption ==
    /\ First \notin Upgrades
    /\ None \notin Upgrades \cup {First}
    /\ MaxFaults \in Nat

VARIABLES
    disk,       \* disk[r]: the release directory of r
    used,       \* releases some deployment has been given
    torn,       \* history: releases an uninstall has begun to remove, and not finished
    current,    \* the release the `current' symlink points to
    unit,       \* the release whose deployment wrote the unit file
    db,         \* the release whose migrations the database has
    config,     \* config.toml exists
    service,    \* the release that is running
    enabled,    \* the service is enabled
    pending,    \* the service failed and systemd will restart it (Restart=on-failure)
    pc,         \* the next step of the script
    job,        \* the local variables of deploy()
    outcome,    \* how the last command ended
    faults      \* deaths and ignored failures so far

files  == <<disk, current, unit, db, config>>
system == <<service, enabled, pending>>
vars   == <<files, used, torn, system, pc, job, outcome, faults>>

Releases == {First} \cup Upgrades

\* Existing directory states: "bare", just made or partly removed, without marker; "building",
\* with its .installing marker; "ready", complete and without marker
Directories == {"absent", "bare", "building", "ready"}

\* The steps of deploy, of its handler and of uninstall, each in order
Deploying   == {"mark", "build", "configure", "stop", "backup", "migrate", "unmark",
                "switch", "write", "reload", "start", "health"}
Undoing     == {"halt", "pointer", "unit", "database", "config", "remove", "restart"}
Uninstalling == {"share", "state", "settings"}

\* The local variables of deploy(), and the argument of uninstall()
Jobs == [release : Releases, old : Releases \cup {None}, unit : Releases \cup {None},
         db : Releases \cup {None}, config : BOOLEAN, start : BOOLEAN,
         stopped : BOOLEAN, switched : BOOLEAN, backup : Releases \cup {None},
         purge : BOOLEAN]

-----------------------------------------------------------------------------

Goto(step) == pc' = step

End(result) == pc' = "idle" /\ outcome' = result

\* The step raises, and the handler takes over
Raise == pc' = "halt"

\* One more thing went wrong that nothing reacts to
Fault == faults < MaxFaults /\ faults' = faults + 1

-----------------------------------------------------------------------------
(* deploy()                                                                 *)

\* The checks before the try block, and the directory.  A first installation
\* removes a directory that still has its marker, and refuses one that has not.
Begin(r, start) ==
    /\ pc = "idle"
    /\ \/ /\ r = First /\ current = None
          /\ disk[r] \in {"absent", "building"}
       \/ r \in Upgrades \ used /\ current # None
    /\ used' = used \cup {r} /\ torn' = torn \ {r}
    /\ job' = [release |-> r, old |-> current, unit |-> unit, db |-> db, config |-> config,
               start |-> start, stopped |-> FALSE, switched |-> FALSE, backup |-> None,
               purge |-> FALSE]
    /\ \/ disk' = [disk EXCEPT ![r] = "bare"] /\ Goto("mark")
       \/ disk' = [disk EXCEPT ![r] = "absent"] /\ Raise
    /\ UNCHANGED <<current, unit, db, config, system, outcome, faults>>

\* The removal of the directory with the marker fails or is interrupted, outside the try block: the
\* marker may be among what is gone
StaleStays ==
    /\ pc = "idle" /\ current = None /\ disk[First] = "building"
    /\ disk' = [disk EXCEPT ![First] = "bare"]
    /\ End("lost")
    /\ UNCHANGED <<used, torn, current, unit, db, config, system, job, faults>>

Mark ==
    /\ pc = "mark"
    /\ \/ disk' = [disk EXCEPT ![job.release] = "building"] /\ Goto("build")
       \/ Raise /\ UNCHANGED disk
    /\ UNCHANGED <<used, torn, current, unit, db, config, system, job, outcome, faults>>

\* Copy the source, make the environment, install into it, verify the unit
Build ==
    /\ pc = "build"
    /\ Goto("configure") \/ Raise
    /\ UNCHANGED <<files, used, torn, system, job, outcome, faults>>

WriteConfig ==
    /\ pc = "configure"
    /\ \/ config' = TRUE /\ Goto("stop")
       \/ Raise /\ UNCHANGED config
    /\ UNCHANGED <<disk, used, torn, current, unit, db, system, job, outcome, faults>>

\* Faulty variant of StopOld: the service keeps running while the database changes
StopOldRunning ==
    /\ pc = "stop" /\ Goto("backup")
    /\ UNCHANGED <<files, used, torn, system, job, outcome, faults>>

\* An active service is stopped; the command may fail after the service stopped.
\* A service that systemd is about to restart is not active.
StopOld ==
    /\ pc = "stop"
    /\ \/ /\ job.old = None \/ service = None
          /\ Goto("backup") /\ UNCHANGED <<service, job>>
       \/ /\ job.old # None /\ service # None
          /\ service' = None
          /\ job' = [job EXCEPT !.stopped = TRUE]
          /\ Goto("backup")
       \/ /\ job.old # None /\ service # None
          /\ service' \in {service, None}
          /\ Raise /\ UNCHANGED job
    /\ UNCHANGED <<files, used, torn, enabled, pending, outcome, faults>>

Backup ==
    /\ pc = "backup"
    /\ \/ job' = [job EXCEPT !.backup = db] /\ Goto("migrate")
       \/ Raise /\ UNCHANGED job
    /\ UNCHANGED <<files, used, torn, system, outcome, faults>>

\* alembic upgrade head; a failure may leave migrations behind
Migrate ==
    /\ pc = "migrate"
    /\ \/ db' = job.release /\ Goto("unmark")
       \/ db' \in {db, job.release} /\ Raise
    /\ UNCHANGED <<disk, used, torn, current, unit, config, system, job, outcome, faults>>

Unmark ==
    /\ pc = "unmark"
    /\ \/ disk' = [disk EXCEPT ![job.release] = "ready"] /\ Goto("switch")
       \/ Raise /\ UNCHANGED disk
    /\ UNCHANGED <<used, torn, current, unit, db, config, system, job, outcome, faults>>

SwitchCurrent ==
    /\ pc = "switch"
    /\ \/ /\ current' = job.release
          /\ job' = [job EXCEPT !.switched = TRUE]
          /\ Goto("write")
       \/ Raise /\ UNCHANGED <<current, job>>
    /\ UNCHANGED <<disk, used, torn, unit, db, config, system, outcome, faults>>

WriteUnit ==
    /\ pc = "write"
    /\ \/ unit' = job.release /\ Goto("reload")
       \/ Raise /\ UNCHANGED unit
    /\ UNCHANGED <<disk, used, torn, current, db, config, system, job, outcome, faults>>

\* daemon-reload, and linger when it was asked for
Reload ==
    /\ pc = "reload"
    /\ \/ job.start /\ Goto("start") /\ UNCHANGED outcome
       \/ ~job.start /\ End("succeeded")
       \/ Raise /\ UNCHANGED outcome
    /\ UNCHANGED <<files, used, torn, system, job, faults>>

\* systemctl start: a service that runs already is left alone
Started == IF service = None THEN current ELSE service

\* enable --now; a failure may come after either half
Start ==
    /\ pc = "start"
    /\ \/ enabled' = TRUE /\ service' = Started /\ Goto("health")
       \/ enabled' \in {enabled, TRUE} /\ service' \in {service, Started} /\ Raise
    /\ pending' = (pending /\ service' = None)
    /\ UNCHANGED <<files, used, torn, job, outcome, faults>>

Health ==
    /\ pc = "health"
    /\ \/ service # None /\ End("succeeded")
       \/ Raise /\ UNCHANGED outcome
    /\ UNCHANGED <<files, used, torn, system, job, faults>>

-----------------------------------------------------------------------------
(* The handler                                                              *)

\* Best effort: disable and stop a first installation, stop an upgrade
Halt ==
    /\ pc = "halt"
    /\ \/ /\ service' = None /\ pending' = FALSE
          /\ enabled' = IF job.old = None THEN FALSE ELSE enabled
          /\ UNCHANGED faults
       \/ UNCHANGED system /\ Fault
    /\ Goto("pointer")
    /\ UNCHANGED <<files, used, torn, job, outcome>>

\* Faulty variant of RestorePointer: a first installation's pointer stays
RestorePointerOld ==
    /\ pc = "pointer"
    /\ current' = IF job.switched /\ job.old # None THEN job.old ELSE current
    /\ Goto("unit")
    /\ UNCHANGED <<disk, used, torn, unit, db, config, system, job, outcome, faults>>

RestorePointer ==
    /\ pc = "pointer"
    /\ current' = IF job.switched THEN job.old ELSE current
    /\ Goto("unit")
    /\ UNCHANGED <<disk, used, torn, unit, db, config, system, job, outcome, faults>>

RestoreUnit ==
    /\ pc = "unit"
    /\ unit' = job.unit
    /\ Goto("database")
    /\ UNCHANGED <<disk, used, torn, current, db, config, system, job, outcome, faults>>

\* Faulty variant of RestoreDatabase: a database that was not there before stays
RestoreDatabaseBackup ==
    /\ pc = "database"
    /\ db' = IF job.backup # None THEN job.backup ELSE db
    /\ Goto("config")
    /\ UNCHANGED <<disk, used, torn, current, unit, config, system, job, outcome, faults>>

\* From the backup; without one, a database that was not there before is removed
RestoreDatabase ==
    /\ pc = "database"
    /\ db' = IF job.backup # None THEN job.backup
             ELSE IF job.db = None THEN None ELSE db
    /\ Goto("config")
    /\ UNCHANGED <<disk, used, torn, current, unit, config, system, job, outcome, faults>>

RestoreConfig ==
    /\ pc = "config"
    /\ config' = (config /\ job.config)
    /\ Goto("remove")
    /\ UNCHANGED <<disk, used, torn, current, unit, db, system, job, outcome, faults>>

RemoveRelease ==
    /\ pc = "remove"
    /\ \/ disk' = [disk EXCEPT ![job.release] = "absent"] /\ Goto("restart")
       \/ /\ disk[job.release] \in {"building", "ready"}      \* rmtree is under way
          /\ disk' = [disk EXCEPT ![job.release] = "bare"] /\ UNCHANGED pc
    /\ UNCHANGED <<used, torn, current, unit, db, config, system, job, outcome, faults>>

\* Faulty variant of RestartOld: the service is started if the pointer had been switched
RestartOldSwitched ==
    /\ pc = "restart"
    /\ service' = IF job.switched /\ job.stopped THEN Started ELSE service
    /\ pending' = (pending /\ service' = None)
    /\ End("failed")
    /\ UNCHANGED <<files, used, torn, enabled, job, faults>>

\* Best effort: reload, and start the old service if this deployment stopped it
RestartOld ==
    /\ pc = "restart"
    /\ \/ ~job.stopped /\ UNCHANGED <<service, faults>>
       \/ job.stopped /\ service' = Started /\ UNCHANGED faults
       \/ job.stopped /\ UNCHANGED service /\ Fault
    /\ pending' = (pending /\ service' = None)
    /\ End("failed")
    /\ UNCHANGED <<files, used, torn, enabled, job>>

-----------------------------------------------------------------------------
(* uninstall()                                                              *)

\* disable --now, whose failure is ignored, and the unit file
RemoveService(purge) ==
    /\ pc = "idle"
    /\ \/ service' = None /\ enabled' = FALSE /\ pending' = FALSE /\ UNCHANGED faults
       \/ UNCHANGED system /\ Fault
    /\ unit' = None
    /\ job' = [job EXCEPT !.purge = purge]
    /\ Goto("share")
    /\ UNCHANGED <<disk, used, torn, current, db, config, outcome>>

\* shutil.rmtree(paths.share) in the order of the directory: a release loses some of its files, ...
RemoveSome(r) ==
    /\ pc = "share" /\ disk[r] # "absent"
    /\ disk' = [disk EXCEPT ![r] = "bare"] /\ torn' = torn \cup {r}
    /\ UNCHANGED <<used, current, unit, db, config, system, pc, job, outcome, faults>>

\* ... then its directory; ...
RemoveRest(r) ==
    /\ pc = "share" /\ disk[r] # "absent" /\ r \in torn
    /\ disk' = [disk EXCEPT ![r] = "absent"]
    /\ UNCHANGED <<used, torn, current, unit, db, config, system, pc, job, outcome, faults>>

\* ... the pointer goes before, between or after them
RemoveCurrent ==
    /\ pc = "share" /\ current # None /\ current' = None
    /\ UNCHANGED <<disk, used, torn, unit, db, config, system, pc, job, outcome, faults>>

ShareGone ==
    /\ pc = "share" /\ current = None /\ \A r \in Releases : disk[r] = "absent"
    /\ torn' = {}
    /\ \/ job.purge /\ Goto("state") /\ UNCHANGED outcome
       \/ ~job.purge /\ End("uninstalled")
    /\ UNCHANGED <<files, used, system, job, faults>>

PurgeState ==
    /\ pc = "state" /\ db' = None
    /\ Goto("settings")
    /\ UNCHANGED <<disk, used, torn, current, unit, config, system, job, outcome, faults>>

PurgeConfig ==
    /\ pc = "settings" /\ config' = FALSE
    /\ End("uninstalled")
    /\ UNCHANGED <<disk, used, torn, current, unit, db, system, job, faults>>

-----------------------------------------------------------------------------
(* The rest of the world                                                    *)

\* The script is killed or interrupted, or its handler raises
Die ==
    /\ pc # "idle" /\ Fault
    /\ End("lost")
    /\ UNCHANGED <<files, used, torn, system, job>>

\* Between deployments the service is started, by hand or at login, and ends
StartService ==
    /\ pc = "idle" /\ service = None /\ unit # None /\ current # None
    /\ service' = current /\ pending' = FALSE
    /\ UNCHANGED <<files, used, torn, enabled, pc, job, outcome, faults>>

ServiceEnds ==
    /\ service # None /\ service' = None
    /\ UNCHANGED <<files, used, torn, enabled, pending, pc, job, outcome, faults>>

\* The service fails, and systemd restarts it five seconds later, whatever the
\* script is doing by then
ServiceFails ==
    /\ service # None /\ service' = None /\ pending' = TRUE
    /\ Fault
    /\ UNCHANGED <<files, used, torn, enabled, pc, job, outcome>>

Respawn ==
    /\ pending /\ pending' = FALSE
    /\ service' = IF unit # None THEN current ELSE None
    /\ UNCHANGED <<files, used, torn, enabled, pc, job, outcome, faults>>

-----------------------------------------------------------------------------

NoJob == [release |-> First, old |-> None, unit |-> None, db |-> None, config |-> FALSE,
          start |-> FALSE, stopped |-> FALSE, switched |-> FALSE, backup |-> None,
          purge |-> FALSE]

\* Nothing is installed
Init ==
    /\ disk = [r \in Releases |-> "absent"] /\ used = {} /\ torn = {}
    /\ current = None /\ unit = None /\ db = None /\ config = FALSE
    /\ service = None /\ enabled = FALSE /\ pending = FALSE
    /\ pc = "idle" /\ job = NoJob /\ outcome = "none" /\ faults = 0

Next ==
    \/ \E r \in Releases, start \in BOOLEAN : Begin(r, start)
    \/ StaleStays \/ Mark \/ Build \/ WriteConfig \/ StopOld \/ Backup \/ Migrate \/ Unmark
    \/ SwitchCurrent \/ WriteUnit \/ Reload \/ Start \/ Health
    \/ Halt \/ RestorePointer \/ RestoreUnit \/ RestoreDatabase \/ RestoreConfig
    \/ RemoveRelease \/ RestartOld
    \/ \E purge \in BOOLEAN : RemoveService(purge)
    \/ \E r \in Releases : RemoveSome(r) \/ RemoveRest(r)
    \/ RemoveCurrent \/ ShareGone \/ PurgeState \/ PurgeConfig
    \/ Die \/ StartService \/ ServiceEnds \/ ServiceFails \/ Respawn

Spec == Init /\ [][Next]_vars

-----------------------------------------------------------------------------
(* Properties                                                               *)

FlagsOK == config \in BOOLEAN /\ enabled \in BOOLEAN /\ pending \in BOOLEAN

\* Every variable has the values its file, service property or local can have.
TypeOK ==
    /\ disk \in [Releases -> Directories]
    /\ used \subseteq Releases /\ torn \subseteq Releases
    /\ current \in Releases \cup {None} /\ unit \in Releases \cup {None}
    /\ db \in Releases \cup {None} /\ service \in Releases \cup {None}
    /\ FlagsOK
    /\ pc \in {"idle"} \cup Deploying \cup Undoing \cup Uninstalling
    /\ job \in Jobs
    /\ outcome \in {"none", "succeeded", "failed", "uninstalled", "lost"}
    /\ faults \in 0 .. MaxFaults

\* Wherever the script dies, `current' points to a complete release or is absent: the pointer moves
\* only after the last step that builds a release, and away before the release is removed.  Only an
\* uninstall that is cut short leaves it at a release that is partly or wholly gone, for it removes
\* both in no order; a deployment that goes on from there keeps it so, or replaces it.
CurrentIsReady == current # None => disk[current] = "ready" \/ current \in torn

\* A running service has the database of its own release: no release ever runs on
\* the schema of another, as long as the script does not die or lose a command of its
\* handler and the service does not fail under it.
ServiceMatchesDatabase == faults = 0 /\ service # None => db = service

\* A failed deployment leaves pointer, unit, database and configuration as it found
\* them, and its release directory is gone ("Failure restores the previous release
\* pointer, unit bytes, and database backup"; "A failed first install removes its
\* new database, configuration, unit, and release").
FailureRestores ==
    [][pc # "idle" /\ pc' = "idle" /\ outcome' = "failed" =>
           /\ current' = job.old /\ unit' = job.unit
           /\ db' = job.db /\ config' = job.config
           /\ disk'[job.release] = "absent"]_vars

\* The release that a deployment replaces stays as complete as it was found, so that the handler can
\* point back to it: only an uninstall before has taken from it.
OldReleaseKept ==
    pc \in (Deploying \cup Undoing) /\ job.old # None => disk[job.old] = "ready" \/ job.old \in torn

\* "... before attempting to restart the prior service": the service that a deployment stopped runs
\* again after its failure, as the release that ran before.  (A service that the handler stops
\* because the deployment failed before it came to stop it does not.)
StoppedServiceReturns ==
    [][pc # "idle" /\ pc' = "idle" /\ outcome' = "failed" /\ faults' = 0 /\ job.stopped =>
           service' = job.old]_vars

=============================================================================
