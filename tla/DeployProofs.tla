----------------------------- MODULE DeployProofs -----------------------------
(***************************************************************************)
(* The properties of Deploy, for any number of upgrades and faults.         *)
(*                                                                         *)
(* The invariants say, at each step of deploy() and of its handler, how     *)
(* pointer, unit, database, configuration and release directory compare     *)
(* with what deploy() found and keeps in its locals.                        *)
(***************************************************************************)
EXTENDS Deploy, TLAPS

\* The steps of deploy() and its handler
Working == Deploying \cup Undoing

\* The steps at which the pointer has not been switched, or is back
Before == {"mark", "build", "configure", "stop", "backup", "migrate", "unmark", "switch"}
Back   == {"unit", "database", "config", "remove", "restart"}

\* Releases: the pointer's is in use, and never the one being built
ReleaseInv ==
    /\ current # None => current \in used
    /\ pc \in Working =>
           /\ job.release # job.old /\ job.release \in used
           /\ job.old # None => job.old \in used
           /\ job.stopped => job.old # None
           /\ job.switched \/ current = job.old
    /\ pc \in Before => ~job.switched
    /\ pc \in Back => current = job.old
    /\ pc = "switch" => disk[job.release] = "ready"
    /\ pc \in Deploying \ Before => current = job.release
    /\ pc = "restart" => disk[job.release] = "absent"
    /\ pc \in {"state", "settings"} => current = None

\* Unit, database and configuration against the locals
RestoreInv ==
    /\ pc \in Back \ {"unit"} => unit = job.unit
    /\ pc \in {"mark", "build", "configure", "stop", "backup"} =>
           job.backup = None /\ db = job.db
    /\ pc \in Deploying \ {"mark", "build", "configure", "stop", "backup"} =>
           job.backup = job.db
    /\ pc \in {"halt", "pointer", "unit", "database"} =>
           job.backup = job.db \/ (job.backup = None /\ db = job.db)
    /\ pc \in {"config", "remove", "restart"} => db = job.db
    /\ pc \in Working => (job.config => config)
    /\ pc \in {"mark", "build", "configure", "remove", "restart"} => config = job.config

\* Which release runs, and which the database belongs to, while nothing went wrong
\* that the script does not see
ServiceInv ==
    faults = 0 =>
        /\ ~pending
        /\ pc = "idle" => service \in {None, current} /\ (current # None => db = current)
        /\ pc \in Working => (job.old # None => job.db = job.old)
        /\ pc \in {"mark", "build", "configure", "stop"} => service \in {None, job.old}
        /\ pc \in {"unmark", "switch", "write", "reload", "start", "health"} => db = job.release
        /\ pc = "health" => service \in {None, job.release}
        /\ pc = "halt" => service \in {None, db}
        /\ pc \notin {"idle", "mark", "build", "configure", "stop", "health", "halt"} =>
               service = None

DeployInv ==
    TypeOK /\ CurrentIsReady /\ OldReleaseKept /\ ReleaseInv /\ RestoreInv /\ ServiceInv

-----------------------------------------------------------------------------

\* An empty machine satisfies the invariant.
LEMMA DeployInit == Init => DeployInv
<1> SUFFICES ASSUME Init PROVE DeployInv
    OBVIOUS
<1> USE DEF Init
<1>1. FlagsOK
      BY DEF FlagsOK
<1>2. job \in Jobs
      BY DEF NoJob, Jobs, Releases
<1>3. TypeOK
      BY <1>1, <1>2, ReleasesAssumption DEF TypeOK, Directories, Releases
<1>4. CurrentIsReady /\ OldReleaseKept /\ ReleaseInv
      BY DEF CurrentIsReady, OldReleaseKept, ReleaseInv, Working, Before, Back, Deploying,
             Undoing
<1>5. RestoreInv /\ ServiceInv
      BY DEF RestoreInv, ServiceInv, Working, Back, Deploying, Undoing
<1> QED
    BY <1>3, <1>4, <1>5 DEF DeployInv

\* The locals stay of their type when one of them is assigned.
LEMMA JobAssigned ==
    ASSUME NEW j \in Jobs, NEW b \in BOOLEAN, NEW r \in Releases \cup {None}
    PROVE  /\ [j EXCEPT !.stopped = b] \in Jobs
           /\ [j EXCEPT !.switched = b] \in Jobs
           /\ [j EXCEPT !.purge = b] \in Jobs
           /\ [j EXCEPT !.backup = r] \in Jobs
BY DEF Jobs

\* Every step assigns truth values to the flags.
LEMMA FlagStep == FlagsOK /\ [Next]_vars => FlagsOK'
<1> SUFFICES ASSUME FlagsOK, [Next]_vars PROVE FlagsOK'
    OBVIOUS
<1> USE DEF FlagsOK, files, system
<1>1. ASSUME NEW r \in Releases, NEW start \in BOOLEAN, Begin(r, start) PROVE FlagsOK'
      BY <1>1 DEF Begin, Goto, Raise, Releases
<1>2. ASSUME NEW purge \in BOOLEAN, RemoveService(purge) PROVE FlagsOK'
      BY <1>2 DEF RemoveService, Fault, Goto
<1>3. CASE Mark
      BY <1>3 DEF Mark, Goto, Raise
<1>4. CASE Build
      BY <1>4 DEF Build, Goto, Raise
<1>5. CASE WriteConfig
      BY <1>5 DEF WriteConfig, Goto, Raise
<1>6. CASE StopOld
      BY <1>6 DEF StopOld, Goto, Raise
<1>7. CASE Backup
      BY <1>7 DEF Backup, Goto, Raise
<1>8. CASE Migrate
      BY <1>8 DEF Migrate, Goto, Raise
<1>9. CASE Unmark
      BY <1>9 DEF Unmark, Goto, Raise
<1>10. CASE SwitchCurrent
      BY <1>10 DEF SwitchCurrent, Goto, Raise
<1>11. CASE WriteUnit
      BY <1>11 DEF WriteUnit, Goto, Raise
<1>12. CASE Reload
      BY <1>12 DEF Reload, Goto, Raise, End
<1>13. CASE Start
      BY <1>13 DEF Start, Started, Goto, Raise
<1>14. CASE Health
      BY <1>14 DEF Health, End, Raise
<1>15. CASE Halt
      BY <1>15 DEF Halt, Fault, Goto
<1>16. CASE RestorePointer
      BY <1>16 DEF RestorePointer, Goto
<1>17. CASE RestoreUnit
      BY <1>17 DEF RestoreUnit, Goto
<1>18. CASE RestoreDatabase
      BY <1>18 DEF RestoreDatabase, Goto
<1>19. CASE RestoreConfig
      BY <1>19 DEF RestoreConfig, Goto
<1>20. CASE RemoveRelease
      BY <1>20 DEF RemoveRelease, Goto
<1>21. CASE RestartOld
      BY <1>21 DEF RestartOld, Started, Fault, End
<1>22. CASE ShareGone
      BY <1>22 DEF ShareGone, Goto, End
<1>23. CASE PurgeState
      BY <1>23 DEF PurgeState, Goto
<1>24. CASE Die
      BY <1>24 DEF Die, Fault, End
<1>25. CASE StartService
      BY <1>25 DEF StartService
<1>26. CASE ServiceEnds
      BY <1>26 DEF ServiceEnds
<1>27. CASE ServiceFails
      BY <1>27 DEF ServiceFails, Fault
<1>28. CASE Respawn
      BY <1>28 DEF Respawn
<1>29. CASE UNCHANGED vars
      BY <1>29 DEF vars
<1>30. ASSUME NEW r \in Releases, RemoveSome(r) PROVE FlagsOK'
      BY <1>30 DEF RemoveSome
<1>31. ASSUME NEW r \in Releases, RemoveRest(r) PROVE FlagsOK'
      BY <1>31 DEF RemoveRest
<1>32. CASE RemoveCurrent
      BY <1>32 DEF RemoveCurrent
<1>33. CASE PurgeConfig
      BY <1>33 DEF PurgeConfig, End
<1>34. CASE StaleStays
      BY <1>34 DEF StaleStays, End
<1> QED
    BY <1>1, <1>2, <1>3, <1>4, <1>5, <1>6, <1>7, <1>8, <1>9, <1>10, <1>11, <1>12,
       <1>13, <1>14, <1>15, <1>16, <1>17, <1>18, <1>19, <1>20, <1>21, <1>22, <1>23,
       <1>24, <1>25, <1>26, <1>27, <1>28, <1>29, <1>30, <1>31, <1>32, <1>33, <1>34
    DEF Next

\* Every step of deploy() assigns values of their types to its locals.
LEMMA JobStep == TypeOK /\ [Next]_vars => job' \in Jobs
<1> SUFFICES ASSUME TypeOK, [Next]_vars PROVE job' \in Jobs
    OBVIOUS
<1>0. job \in Jobs /\ FlagsOK
      BY DEF TypeOK
<1> USE <1>0 DEF files, system
<1>1. ASSUME NEW r \in Releases, NEW start \in BOOLEAN, Begin(r, start) PROVE job' \in Jobs
      <2>1. FALSE \in BOOLEAN /\ config \in BOOLEAN
            BY DEF FlagsOK
      <2>2. PICK no \in BOOLEAN : no = FALSE
            OBVIOUS
      <2>3. job' = [release |-> r, old |-> current, unit |-> unit, db |-> db,
                    config |-> config, start |-> start, stopped |-> no, switched |-> no,
                    backup |-> None, purge |-> no]
            BY <1>1, <2>2, Zenon DEF Begin
      <2> HIDE <1>1
      <2> QED
          BY <2>1, <2>3 DEF TypeOK, Jobs
<1>2. ASSUME NEW purge \in BOOLEAN, RemoveService(purge) PROVE job' \in Jobs
      BY <1>2, JobAssigned DEF RemoveService
<1>3. CASE Mark
      BY <1>3 DEF Mark
<1>4. CASE Build
      BY <1>4 DEF Build
<1>5. CASE WriteConfig
      BY <1>5 DEF WriteConfig
<1>6. CASE StopOld
      BY <1>6, JobAssigned DEF StopOld
<1>7. CASE Backup
      BY <1>7, JobAssigned DEF Backup, TypeOK
<1>8. CASE Migrate
      BY <1>8 DEF Migrate
<1>9. CASE Unmark
      BY <1>9 DEF Unmark
<1>10. CASE SwitchCurrent
      BY <1>10, JobAssigned DEF SwitchCurrent
<1>11. CASE WriteUnit
      BY <1>11 DEF WriteUnit
<1>12. CASE Reload
      BY <1>12 DEF Reload
<1>13. CASE Start
      BY <1>13 DEF Start
<1>14. CASE Health
      BY <1>14 DEF Health
<1>15. CASE Halt
      BY <1>15 DEF Halt
<1>16. CASE RestorePointer
      BY <1>16 DEF RestorePointer
<1>17. CASE RestoreUnit
      BY <1>17 DEF RestoreUnit
<1>18. CASE RestoreDatabase
      BY <1>18 DEF RestoreDatabase
<1>19. CASE RestoreConfig
      BY <1>19 DEF RestoreConfig
<1>20. CASE RemoveRelease
      BY <1>20 DEF RemoveRelease
<1>21. CASE RestartOld
      BY <1>21 DEF RestartOld
<1>22. CASE ShareGone
      BY <1>22 DEF ShareGone
<1>23. CASE PurgeState
      BY <1>23 DEF PurgeState
<1>24. CASE Die
      BY <1>24 DEF Die
<1>25. CASE StartService
      BY <1>25 DEF StartService
<1>26. CASE ServiceEnds
      BY <1>26 DEF ServiceEnds
<1>27. CASE ServiceFails
      BY <1>27 DEF ServiceFails
<1>28. CASE Respawn
      BY <1>28 DEF Respawn
<1>29. CASE UNCHANGED vars
      BY <1>29 DEF vars
<1>30. ASSUME NEW r \in Releases, RemoveSome(r) PROVE job' \in Jobs
      BY <1>30 DEF RemoveSome
<1>31. ASSUME NEW r \in Releases, RemoveRest(r) PROVE job' \in Jobs
      BY <1>31 DEF RemoveRest
<1>32. CASE RemoveCurrent
      BY <1>32 DEF RemoveCurrent
<1>33. CASE PurgeConfig
      BY <1>33 DEF PurgeConfig
<1>34. CASE StaleStays
      BY <1>34 DEF StaleStays
<1> QED
    BY <1>1, <1>2, <1>3, <1>4, <1>5, <1>6, <1>7, <1>8, <1>9, <1>10, <1>11, <1>12,
       <1>13, <1>14, <1>15, <1>16, <1>17, <1>18, <1>19, <1>20, <1>21, <1>22, <1>23,
       <1>24, <1>25, <1>26, <1>27, <1>28, <1>29, <1>30, <1>31, <1>32, <1>33, <1>34
    DEF Next

\* Every step keeps files, service and locals in their types.
LEMMA TypeStep == TypeOK /\ [Next]_vars => TypeOK'
<1> SUFFICES ASSUME TypeOK, [Next]_vars PROVE TypeOK'
    OBVIOUS
<1>0. /\ FlagsOK' /\ job' \in Jobs
      /\ job.release \in Releases /\ job.old \in Releases \cup {None}
      /\ job.unit \in Releases \cup {None} /\ job.backup \in Releases \cup {None}
  <2>1. FlagsOK' /\ job' \in Jobs
        BY FlagStep, JobStep DEF TypeOK
  <2> QED
      BY <2>1 DEF TypeOK, Jobs
<1> USE <1>0, ReleasesAssumption
    DEF TypeOK, Directories, Deploying, Undoing, Uninstalling, files, system
<1>1. ASSUME NEW r \in Releases, NEW start \in BOOLEAN, Begin(r, start) PROVE TypeOK'
      BY <1>1 DEF Begin, Goto, Raise, Releases
<1>2. ASSUME NEW purge \in BOOLEAN, RemoveService(purge) PROVE TypeOK'
      BY <1>2 DEF RemoveService, Fault, Goto
<1>3. CASE Mark
      BY <1>3 DEF Mark, Goto, Raise
<1>4. CASE Build
      BY <1>4 DEF Build, Goto, Raise
<1>5. CASE WriteConfig
      BY <1>5 DEF WriteConfig, Goto, Raise
<1>6. CASE StopOld
      BY <1>6 DEF StopOld, Goto, Raise
<1>7. CASE Backup
      BY <1>7 DEF Backup, Goto, Raise
<1>8. CASE Migrate
      BY <1>8 DEF Migrate, Goto, Raise
<1>9. CASE Unmark
      BY <1>9 DEF Unmark, Goto, Raise
<1>10. CASE SwitchCurrent
      BY <1>10 DEF SwitchCurrent, Goto, Raise
<1>11. CASE WriteUnit
      BY <1>11 DEF WriteUnit, Goto, Raise
<1>12. CASE Reload
      BY <1>12 DEF Reload, Goto, Raise, End
<1>13. CASE Start
      BY <1>13 DEF Start, Started, Goto, Raise
<1>14. CASE Health
      BY <1>14 DEF Health, End, Raise
<1>15. CASE Halt
  <2>1. /\ pc' = "pointer" /\ service' \in {service, None}
        /\ UNCHANGED <<files, used, torn, job, outcome>>
        /\ faults' = faults \/ Fault
        BY <1>15 DEF Halt, Goto
  <2> HIDE <1>15
  <2> QED
      BY <2>1 DEF Fault
<1>16. CASE RestorePointer
      BY <1>16 DEF RestorePointer, Goto
<1>17. CASE RestoreUnit
      BY <1>17 DEF RestoreUnit, Goto
<1>18. CASE RestoreDatabase
      BY <1>18 DEF RestoreDatabase, Goto
<1>19. CASE RestoreConfig
      BY <1>19 DEF RestoreConfig, Goto
<1>20. CASE RemoveRelease
      BY <1>20 DEF RemoveRelease, Goto
<1>21. CASE RestartOld
      BY <1>21 DEF RestartOld, Started, Fault, End
<1>22. CASE ShareGone
      BY <1>22 DEF ShareGone, Goto, End
<1>23. CASE PurgeState
      BY <1>23 DEF PurgeState, Goto
<1>24. CASE Die
      BY <1>24 DEF Die, Fault, End
<1>25. CASE StartService
      BY <1>25 DEF StartService
<1>26. CASE ServiceEnds
      BY <1>26 DEF ServiceEnds
<1>27. CASE ServiceFails
      BY <1>27 DEF ServiceFails, Fault
<1>28. CASE Respawn
      BY <1>28 DEF Respawn
<1>29. CASE UNCHANGED vars
      BY <1>29 DEF vars
<1>30. ASSUME NEW r \in Releases, RemoveSome(r) PROVE TypeOK'
      BY <1>30 DEF RemoveSome
<1>31. ASSUME NEW r \in Releases, RemoveRest(r) PROVE TypeOK'
      BY <1>31 DEF RemoveRest
<1>32. CASE RemoveCurrent
      BY <1>32 DEF RemoveCurrent
<1>33. CASE PurgeConfig
      BY <1>33 DEF PurgeConfig, End
<1>34. CASE StaleStays
      BY <1>34 DEF StaleStays, End
<1> QED
    BY <1>1, <1>2, <1>3, <1>4, <1>5, <1>6, <1>7, <1>8, <1>9, <1>10, <1>11, <1>12,
       <1>13, <1>14, <1>15, <1>16, <1>17, <1>18, <1>19, <1>20, <1>21, <1>22, <1>23,
       <1>24, <1>25, <1>26, <1>27, <1>28, <1>29, <1>30, <1>31, <1>32, <1>33, <1>34
    DEF Next

\* The pointer only ever names a complete release that is in use, the release it
\* named before is kept, and the handler puts it back.
LEMMA ReleaseStep ==
    DeployInv /\ [Next]_vars => (CurrentIsReady /\ OldReleaseKept /\ ReleaseInv)'
<1> DEFINE Kept == CurrentIsReady /\ OldReleaseKept /\ ReleaseInv
<1> SUFFICES ASSUME DeployInv, [Next]_vars PROVE Kept'
    OBVIOUS
<1> USE ReleasesAssumption
    DEF DeployInv, TypeOK, Jobs, CurrentIsReady, OldReleaseKept, ReleaseInv, Working, Before,
        Back, Deploying, Undoing, Uninstalling, files, system
<1>1. ASSUME NEW r \in Releases, NEW start \in BOOLEAN, Begin(r, start) PROVE Kept'
      BY <1>1 DEF Begin, Goto, Raise, Releases
<1>2. ASSUME NEW purge \in BOOLEAN, RemoveService(purge) PROVE Kept'
      BY <1>2 DEF RemoveService, Fault, Goto
<1>3. CASE Mark
      BY <1>3 DEF Mark, Goto, Raise
<1>4. CASE Build
      BY <1>4 DEF Build, Goto, Raise
<1>5. CASE WriteConfig
      BY <1>5 DEF WriteConfig, Goto, Raise
<1>6. CASE StopOld
      BY <1>6 DEF StopOld, Goto, Raise
<1>7. CASE Backup
      BY <1>7 DEF Backup, Goto, Raise
<1>8. CASE Migrate
      BY <1>8 DEF Migrate, Goto, Raise
<1>9. CASE Unmark
      BY <1>9 DEF Unmark, Goto, Raise
<1>10. CASE SwitchCurrent
      BY <1>10 DEF SwitchCurrent, Goto, Raise
<1>11. CASE WriteUnit
      BY <1>11 DEF WriteUnit, Goto, Raise
<1>12. CASE Reload
      BY <1>12 DEF Reload, Goto, Raise, End
<1>13. CASE Start
      BY <1>13 DEF Start, Started, Goto, Raise
<1>14. CASE Health
      BY <1>14 DEF Health, End, Raise
<1>15. CASE Halt
      BY <1>15 DEF Halt, Fault, Goto
<1>16. CASE RestorePointer
      BY <1>16 DEF RestorePointer, Goto
<1>17. CASE RestoreUnit
      BY <1>17 DEF RestoreUnit, Goto
<1>18. CASE RestoreDatabase
      BY <1>18 DEF RestoreDatabase, Goto
<1>19. CASE RestoreConfig
      BY <1>19 DEF RestoreConfig, Goto
<1>20. CASE RemoveRelease
      BY <1>20 DEF RemoveRelease, Goto
<1>21. CASE RestartOld
      BY <1>21 DEF RestartOld, Started, Fault, End
<1>22. CASE ShareGone
      BY <1>22 DEF ShareGone, Goto, End
<1>23. CASE PurgeState
      BY <1>23 DEF PurgeState, Goto
<1>24. CASE Die
      BY <1>24 DEF Die, Fault, End
<1>25. CASE StartService
      BY <1>25 DEF StartService
<1>26. CASE ServiceEnds
      BY <1>26 DEF ServiceEnds
<1>27. CASE ServiceFails
      BY <1>27 DEF ServiceFails, Fault
<1>28. CASE Respawn
      BY <1>28 DEF Respawn
<1>29. CASE UNCHANGED vars
      BY <1>29 DEF vars
<1>30. ASSUME NEW r \in Releases, RemoveSome(r) PROVE Kept'
      BY <1>30 DEF RemoveSome
<1>31. ASSUME NEW r \in Releases, RemoveRest(r) PROVE Kept'
      BY <1>31 DEF RemoveRest
<1>32. CASE RemoveCurrent
      BY <1>32 DEF RemoveCurrent
<1>33. CASE PurgeConfig
      BY <1>33 DEF PurgeConfig, End
<1>34. CASE StaleStays
      BY <1>34 DEF StaleStays, End
<1> HIDE DEF Kept, DeployInv
<1> QED
    BY <1>1, <1>2, <1>3, <1>4, <1>5, <1>6, <1>7, <1>8, <1>9, <1>10, <1>11, <1>12,
       <1>13, <1>14, <1>15, <1>16, <1>17, <1>18, <1>19, <1>20, <1>21, <1>22, <1>23,
       <1>24, <1>25, <1>26, <1>27, <1>28, <1>29, <1>30, <1>31, <1>32, <1>33, <1>34
    DEF Next

\* What the handler needs to restore unit, database and configuration is in the
\* locals from the step before each is changed.
LEMMA RestoreStep == DeployInv /\ [Next]_vars => RestoreInv'
<1> SUFFICES ASSUME DeployInv, [Next]_vars PROVE RestoreInv'
    OBVIOUS
<1> USE ReleasesAssumption
    DEF DeployInv, TypeOK, FlagsOK, Jobs, RestoreInv, Working, Before, Back, Deploying, Undoing,
        Uninstalling, files, system
<1>1. ASSUME NEW r \in Releases, NEW start \in BOOLEAN, Begin(r, start) PROVE RestoreInv'
      BY <1>1 DEF Begin, Goto, Raise, Releases
<1>2. ASSUME NEW purge \in BOOLEAN, RemoveService(purge) PROVE RestoreInv'
      BY <1>2 DEF RemoveService, Fault, Goto
<1>3. CASE Mark
      BY <1>3 DEF Mark, Goto, Raise
<1>4. CASE Build
      BY <1>4 DEF Build, Goto, Raise
<1>5. CASE WriteConfig
      BY <1>5 DEF WriteConfig, Goto, Raise
<1>6. CASE StopOld
      BY <1>6 DEF StopOld, Goto, Raise
<1>7. CASE Backup
      BY <1>7 DEF Backup, Goto, Raise
<1>8. CASE Migrate
      BY <1>8 DEF Migrate, Goto, Raise
<1>9. CASE Unmark
      BY <1>9 DEF Unmark, Goto, Raise
<1>10. CASE SwitchCurrent
      BY <1>10 DEF SwitchCurrent, Goto, Raise
<1>11. CASE WriteUnit
      BY <1>11 DEF WriteUnit, Goto, Raise
<1>12. CASE Reload
      BY <1>12 DEF Reload, Goto, Raise, End
<1>13. CASE Start
      BY <1>13 DEF Start, Started, Goto, Raise
<1>14. CASE Health
      BY <1>14 DEF Health, End, Raise
<1>15. CASE Halt
      BY <1>15 DEF Halt, Fault, Goto
<1>16. CASE RestorePointer
      BY <1>16 DEF RestorePointer, Goto
<1>17. CASE RestoreUnit
      BY <1>17 DEF RestoreUnit, Goto
<1>18. CASE RestoreDatabase
      BY <1>18 DEF RestoreDatabase, Goto
<1>19. CASE RestoreConfig
      BY <1>19 DEF RestoreConfig, Goto
<1>20. CASE RemoveRelease
      BY <1>20 DEF RemoveRelease, Goto
<1>21. CASE RestartOld
      BY <1>21 DEF RestartOld, Started, Fault, End
<1>22. CASE ShareGone
      BY <1>22 DEF ShareGone, Goto, End
<1>23. CASE PurgeState
      BY <1>23 DEF PurgeState, Goto
<1>24. CASE Die
      BY <1>24 DEF Die, Fault, End
<1>25. CASE StartService
      BY <1>25 DEF StartService
<1>26. CASE ServiceEnds
      BY <1>26 DEF ServiceEnds
<1>27. CASE ServiceFails
      BY <1>27 DEF ServiceFails, Fault
<1>28. CASE Respawn
      BY <1>28 DEF Respawn
<1>29. CASE UNCHANGED vars
      BY <1>29 DEF vars
<1>30. ASSUME NEW r \in Releases, RemoveSome(r) PROVE RestoreInv'
      BY <1>30 DEF RemoveSome
<1>31. ASSUME NEW r \in Releases, RemoveRest(r) PROVE RestoreInv'
      BY <1>31 DEF RemoveRest
<1>32. CASE RemoveCurrent
      BY <1>32 DEF RemoveCurrent
<1>33. CASE PurgeConfig
      BY <1>33 DEF PurgeConfig, End
<1>34. CASE StaleStays
      BY <1>34 DEF StaleStays, End
<1> QED
    BY <1>1, <1>2, <1>3, <1>4, <1>5, <1>6, <1>7, <1>8, <1>9, <1>10, <1>11, <1>12,
       <1>13, <1>14, <1>15, <1>16, <1>17, <1>18, <1>19, <1>20, <1>21, <1>22, <1>23,
       <1>24, <1>25, <1>26, <1>27, <1>28, <1>29, <1>30, <1>31, <1>32, <1>33, <1>34
    DEF Next

\* The service is down from the backup to the start, and started only on the
\* database of its own release.
LEMMA ServiceStep == DeployInv /\ [Next]_vars => ServiceInv'
<1> SUFFICES ASSUME DeployInv, [Next]_vars PROVE ServiceInv'
    OBVIOUS
<1> USE ReleasesAssumption
    DEF DeployInv, TypeOK, Jobs, ReleaseInv, RestoreInv, ServiceInv, Working, Before, Back,
        Deploying, Undoing, Uninstalling, files, system
<1>1. ASSUME NEW r \in Releases, NEW start \in BOOLEAN, Begin(r, start) PROVE ServiceInv'
      BY <1>1 DEF Begin, Goto, Raise, Releases
<1>2. ASSUME NEW purge \in BOOLEAN, RemoveService(purge) PROVE ServiceInv'
      BY <1>2 DEF RemoveService, Fault, Goto
<1>3. CASE Mark
      BY <1>3 DEF Mark, Goto, Raise
<1>4. CASE Build
      BY <1>4 DEF Build, Goto, Raise
<1>5. CASE WriteConfig
      BY <1>5 DEF WriteConfig, Goto, Raise
<1>6. CASE StopOld
      BY <1>6 DEF StopOld, Goto, Raise
<1>7. CASE Backup
      BY <1>7 DEF Backup, Goto, Raise
<1>8. CASE Migrate
      BY <1>8 DEF Migrate, Goto, Raise
<1>9. CASE Unmark
      BY <1>9 DEF Unmark, Goto, Raise
<1>10. CASE SwitchCurrent
      BY <1>10 DEF SwitchCurrent, Goto, Raise
<1>11. CASE WriteUnit
      BY <1>11 DEF WriteUnit, Goto, Raise
<1>12. CASE Reload
      BY <1>12 DEF Reload, Goto, Raise, End
<1>13. CASE Start
      BY <1>13 DEF Start, Started, Goto, Raise
<1>14. CASE Health
      BY <1>14 DEF Health, End, Raise
<1>15. CASE Halt
  <2>1. /\ pc = "halt" /\ pc' = "pointer"
        /\ UNCHANGED <<files, used, torn, job>>
        /\ (service' = None /\ ~pending' /\ faults' = faults) \/ faults' = faults + 1
        BY <1>15 DEF Halt, Fault, Goto
  <2> HIDE <1>15
  <2> QED
      BY <2>1
<1>16. CASE RestorePointer
      BY <1>16 DEF RestorePointer, Goto
<1>17. CASE RestoreUnit
      BY <1>17 DEF RestoreUnit, Goto
<1>18. CASE RestoreDatabase
      BY <1>18 DEF RestoreDatabase, Goto
<1>19. CASE RestoreConfig
      BY <1>19 DEF RestoreConfig, Goto
<1>20. CASE RemoveRelease
      BY <1>20 DEF RemoveRelease, Goto
<1>21. CASE RestartOld
  <2>1. /\ pc = "restart" /\ pc' = "idle"
        /\ UNCHANGED <<files, used, torn, job>>
        /\ pending' => pending
        /\ \/ faults' = faults /\ service' \in {service, Started}
           \/ faults' = faults + 1
        BY <1>21 DEF RestartOld, Fault, End
  <2> HIDE <1>21
  <2> QED
      BY <2>1 DEF Started
<1>22. CASE ShareGone
      BY <1>22 DEF ShareGone, Goto, End
<1>23. CASE PurgeState
      BY <1>23 DEF PurgeState, Goto
<1>24. CASE Die
      BY <1>24 DEF Die, Fault, End
<1>25. CASE StartService
      BY <1>25 DEF StartService
<1>26. CASE ServiceEnds
      BY <1>26 DEF ServiceEnds
<1>27. CASE ServiceFails
      BY <1>27 DEF ServiceFails, Fault
<1>28. CASE Respawn
      BY <1>28 DEF Respawn
<1>29. CASE UNCHANGED vars
      BY <1>29 DEF vars
<1>30. ASSUME NEW r \in Releases, RemoveSome(r) PROVE ServiceInv'
      BY <1>30 DEF RemoveSome
<1>31. ASSUME NEW r \in Releases, RemoveRest(r) PROVE ServiceInv'
      BY <1>31 DEF RemoveRest
<1>32. CASE RemoveCurrent
      BY <1>32 DEF RemoveCurrent
<1>33. CASE PurgeConfig
      BY <1>33 DEF PurgeConfig, End
<1>34. CASE StaleStays
      BY <1>34 DEF StaleStays, End
<1> QED
    BY <1>1, <1>2, <1>3, <1>4, <1>5, <1>6, <1>7, <1>8, <1>9, <1>10, <1>11, <1>12,
       <1>13, <1>14, <1>15, <1>16, <1>17, <1>18, <1>19, <1>20, <1>21, <1>22, <1>23,
       <1>24, <1>25, <1>26, <1>27, <1>28, <1>29, <1>30, <1>31, <1>32, <1>33, <1>34
    DEF Next

\* The invariant holds throughout.
LEMMA DeployInvariant == Spec => []DeployInv
<1>1. DeployInv /\ [Next]_vars => DeployInv'
      BY TypeStep, ReleaseStep, RestoreStep, ServiceStep DEF DeployInv
<1> QED
    BY <1>1, DeployInit, PTL DEF Spec

-----------------------------------------------------------------------------

\* Files, service and the script's locals keep their types.
THEOREM DeployTyping == Spec => []TypeOK
BY DeployInvariant, PTL DEF DeployInv

\* However often the script fails or is killed, `current' is absent or points to a release that was
\* completed, and that nothing but an uninstall cut short has taken from.
THEOREM PointerSafety == Spec => []CurrentIsReady
BY DeployInvariant, PTL DEF DeployInv

\* No step of a deployment takes from the release that the handler may have to return to: it is
\* complete unless an uninstall was cut short before.
THEOREM OldKept == Spec => []OldReleaseKept
BY DeployInvariant, PTL DEF DeployInv

\* As long as nothing dies or is ignored, a running release has its own schema.
THEOREM SchemaSafety == Spec => []ServiceMatchesDatabase
<1>1. DeployInv => ServiceMatchesDatabase
      BY DEF DeployInv, RestoreInv, ServiceInv, ServiceMatchesDatabase, ReleaseInv, Working,
             Deploying, Undoing
<1> QED
    BY <1>1, DeployInvariant, PTL

\* Failure is reported by the last step of the handler, and by no other
LEMMA FailureEnds ==
    ASSUME Next, pc # "idle", pc' = "idle", outcome' = "failed"
    PROVE  RestartOld
<1>1. ~(\E r \in Releases, start \in BOOLEAN : Begin(r, start))
      BY DEF Begin
<1>2. ~(\E purge \in BOOLEAN : RemoveService(purge))
      BY DEF RemoveService
<1>3. ~(Mark \/ Build \/ WriteConfig \/ StopOld \/ Backup \/ Migrate \/ Unmark
        \/ SwitchCurrent \/ WriteUnit \/ Start)
      BY DEF Mark, Build, WriteConfig, StopOld, Backup, Migrate, Unmark, SwitchCurrent,
             WriteUnit, Start, Goto, Raise
<1>4. ~(Reload \/ Health \/ ShareGone \/ PurgeState \/ PurgeConfig \/ Die)
      BY DEF Reload, Health, ShareGone, PurgeState, PurgeConfig, Die, End, Goto, Raise
<1>5. ~(Halt \/ RestorePointer \/ RestoreUnit \/ RestoreDatabase \/ RestoreConfig
        \/ RemoveRelease)
      BY DEF Halt, RestorePointer, RestoreUnit, RestoreDatabase, RestoreConfig,
             RemoveRelease, Goto
<1>6. ~(StartService \/ ServiceEnds \/ ServiceFails \/ Respawn)
      BY DEF StartService, ServiceEnds, ServiceFails, Respawn
<1>7. ~(StaleStays \/ RemoveCurrent \/ \E r \in Releases : RemoveSome(r) \/ RemoveRest(r))
      BY DEF StaleStays, RemoveCurrent, RemoveSome, RemoveRest
<1> QED
    BY <1>1, <1>2, <1>3, <1>4, <1>5, <1>6, <1>7 DEF Next

\* A deployment that is reported as failed has restored the pointer, the unit, the
\* database and the configuration, and removed its release, whichever step failed.
THEOREM Rollback == Spec => FailureRestores
<1>1. DeployInv /\ [Next]_vars
         => [pc # "idle" /\ pc' = "idle" /\ outcome' = "failed" =>
                /\ current' = job.old /\ unit' = job.unit
                /\ db' = job.db /\ config' = job.config
                /\ disk'[job.release] = "absent"]_vars
  <2> SUFFICES ASSUME DeployInv, Next, pc # "idle", pc' = "idle", outcome' = "failed"
               PROVE  /\ current' = job.old /\ unit' = job.unit
                      /\ db' = job.db /\ config' = job.config
                      /\ disk'[job.release] = "absent"
      BY DEF vars
  <2> QED
      BY FailureEnds DEF RestartOld, DeployInv, ReleaseInv, RestoreInv, Back, files
<1> QED
    BY <1>1, DeployInvariant, PTL DEF Spec, FailureRestores

\* A service that a deployment stopped runs again when the deployment is reported as failed, as the
\* release that ran before, unless a death or an ignored failure came between.
THEOREM ServiceReturns == Spec => StoppedServiceReturns
<1>1. DeployInv /\ [Next]_vars
         => [pc # "idle" /\ pc' = "idle" /\ outcome' = "failed" /\ faults' = 0 /\ job.stopped =>
                service' = job.old]_vars
  <2> SUFFICES ASSUME DeployInv, Next, pc # "idle", pc' = "idle", outcome' = "failed",
                      faults' = 0, job.stopped
               PROVE  service' = job.old
      BY DEF vars
  <2>1. RestartOld
        BY FailureEnds
  <2>2. faults \in Nat /\ MaxFaults \in Nat
        BY ReleasesAssumption DEF DeployInv, TypeOK
  <2>3. service' = Started /\ UNCHANGED faults
        BY <2>1, <2>2 DEF RestartOld, Fault
  <2>4. service = None /\ current = job.old
        BY <2>1, <2>3 DEF RestartOld, DeployInv, ReleaseInv, ServiceInv, Back
  <2> QED
      BY <2>3, <2>4 DEF Started
<1> QED
    BY <1>1, DeployInvariant, PTL DEF Spec, StoppedServiceReturns
=============================================================================
