---------------------------- MODULE UserUnitsProofs ----------------------------
(***************************************************************************)
(* The properties of UserUnits, for any set of definitions.                 *)
(*                                                                         *)
(* All of them follow from one inductive invariant, which says at each      *)
(* command what the receipt tells about the unit file, and what the user    *)
(* manager can have loaded by then.                                         *)
(***************************************************************************)
EXTENDS UserUnits, TLAPS

\* No copy of the definition is one that systemd rejects; the receipt's neither, for
\* a rollback writes it back
Accepted ==
    /\ file \notin Rejected /\ loaded \notin Rejected
    /\ process \notin Rejected /\ previous \notin Rejected

\* What the receipt says of the unit file
ReceiptInv ==
    /\ pc = "verify" => ~changed
    /\ pc = "reload" => changed /\ file = manifest
    /\ pc \in {"verify", "act", "confirm"} /\ ~changed => file = previous
    /\ pc \in {"unreload", "undo", "again"} => file = previous

\* What a restart of an installed definition has started
RestartInv ==
    pc = "confirm" /\ changed /\ action = "restart" => process \in {manifest, None}

\* An operation that is under way has no outcome
OutcomeInv == pc # "idle" => outcome = "none"

UnitInv ==
    /\ TypeOK /\ Accepted
    /\ ReceiptInv /\ OutcomeInv
    /\ InstalledIsLoaded /\ RestartInv

-----------------------------------------------------------------------------

\* The initial state, an application without a unit, satisfies the invariant.
LEMMA UnitInit == Init => UnitInv
BY DefinitionsAssumption
   DEF Init, UnitInv, TypeOK, Accepted, ReceiptInv, OutcomeInv, InstalledIsLoaded,
       RestartInv, Contents

\* Every step of the adapter, of the user manager and of the administrator keeps the
\* variables in their types.
LEMMA TypeStep == TypeOK /\ [Next]_vars => TypeOK'
<1> SUFFICES ASSUME TypeOK, [Next]_vars PROVE TypeOK'
    OBVIOUS
<1> USE DefinitionsAssumption DEF TypeOK, Contents
<1>1. CASE Exit
      BY <1>1 DEF Exit, receipt
<1>2. CASE Unload
      BY <1>2 DEF Unload, receipt
<1>3. CASE ReloadForOther
      BY <1>3 DEF ReloadForOther, Refreshed, receipt
<1>4. CASE SaveManifest
      BY <1>4 DEF SaveManifest, receipt
<1>5. CASE EditByHand
      BY <1>5 DEF EditByHand, receipt
<1>6. ASSUME NEW k \in {"start", "restart"}, Begin(k) PROVE TypeOK'
      BY <1>6 DEF Begin, End, receipt
<1>7. CASE Stop
      BY <1>7 DEF Stop, End, receipt
<1>8. CASE Verified
  <2>1. changed' \in BOOLEAN /\ failed' \in BOOLEAN
        BY <1>8 DEF Verified, Idle
  <2>2. file' \in {file, manifest}
        BY <1>8 DEF Verified, End
  <2> QED
      BY <1>8, <2>1, <2>2 DEF Verified, End, Idle
<1>9. CASE Reloaded
      BY <1>9 DEF Reloaded, Rollback, Refreshed, End, receipt
<1>10. CASE Acted
  <2>1. /\ manifest' = manifest /\ action' = action
        /\ previous' = previous /\ changed' = changed
        BY <1>10 DEF Acted, receipt
  <2>2. CASE Launch(action)
    <3>1. loaded' = Definition /\ process' \in {process, Definition, None} /\ failed' = FALSE
          BY <2>2 DEF Launch
    <3>2. Definition \in Contents
          BY DEF Definition
    <3>3. loaded' \in Contents /\ process' \in Contents /\ failed' \in BOOLEAN
          BY <3>1, <3>2
    <3>4. /\ file' \in {file, previous} /\ pc' \in {"undo", "idle", "confirm"}
          /\ outcome' \in {outcome, "failed", "raised"}
          BY <1>10 DEF Acted, Rollback, End
    <3> QED
        BY <2>1, <3>3, <3>4
  <2>3. CASE Idle /\ Rollback("undo")
    <3>1. loaded' = loaded /\ process' = process /\ failed' = failed
          BY <2>3 DEF Idle
    <3>2. /\ file' \in {file, previous} /\ pc' \in {"undo", "idle"}
          /\ outcome' \in {outcome, "failed", "raised"}
          BY <2>3 DEF Rollback, End
    <3> QED
        BY <2>1, <3>1, <3>2
  <2> QED
      BY <1>10, <2>2, <2>3 DEF Acted
<1>11. CASE Confirmed
      BY <1>11 DEF Confirmed, Rollback, Idle, End, receipt
<1>12. CASE RolledBack
      BY <1>12 DEF RolledBack, Refreshed, End, receipt
<1>13. CASE RestartedPrevious
      BY <1>13 DEF RestartedPrevious, Launch, Definition, Idle, End, receipt
<1>14. CASE Crash
      BY <1>14 DEF Crash, Launch, Definition, Refreshed, Idle, End, receipt
<1>15. CASE UNCHANGED vars
      BY <1>15 DEF vars, receipt
<1> QED
    BY <1>1, <1>2, <1>3, <1>4, <1>5, <1>6, <1>7, <1>8, <1>9, <1>10, <1>11, <1>12, <1>13,
       <1>14, <1>15 DEF Next

\* A definition reaches the unit file only through systemd-analyze, or from it.
LEMMA AcceptedStep == TypeOK /\ Accepted /\ [Next]_vars => Accepted'
<1> SUFFICES ASSUME TypeOK, Accepted, [Next]_vars PROVE Accepted'
    OBVIOUS
<1> USE DefinitionsAssumption DEF TypeOK, Contents, Accepted
<1>1. CASE Exit
      BY <1>1 DEF Exit, receipt
<1>2. CASE Unload
      BY <1>2 DEF Unload, receipt
<1>3. CASE ReloadForOther
      BY <1>3 DEF ReloadForOther, Refreshed, receipt
<1>4. CASE SaveManifest
      BY <1>4 DEF SaveManifest, receipt
<1>5. CASE EditByHand
      BY <1>5 DEF EditByHand, receipt
<1>6. ASSUME NEW k \in {"start", "restart"}, Begin(k) PROVE Accepted'
      BY <1>6 DEF Begin, End, receipt
<1>7. CASE Stop
      BY <1>7 DEF Stop, End, receipt
<1>8. CASE Verified
      BY <1>8 DEF Verified, End, Idle
<1>9. CASE Reloaded
      BY <1>9 DEF Reloaded, Rollback, Refreshed, End, receipt
<1>10. CASE Acted
      BY <1>10 DEF Acted, Rollback, Launch, Definition, Idle, End, receipt
<1>11. CASE Confirmed
      BY <1>11 DEF Confirmed, Rollback, Idle, End, receipt
<1>12. CASE RolledBack
      BY <1>12 DEF RolledBack, Refreshed, End, receipt
<1>13. CASE RestartedPrevious
      BY <1>13 DEF RestartedPrevious, Launch, Definition, Idle, End, receipt
<1>14. CASE Crash
      BY <1>14 DEF Crash, Launch, Definition, Refreshed, Idle, End, receipt
<1>15. CASE UNCHANGED vars
      BY <1>15 DEF vars, receipt
<1> QED
    BY <1>1, <1>2, <1>3, <1>4, <1>5, <1>6, <1>7, <1>8, <1>9, <1>10, <1>11, <1>12, <1>13,
       <1>14, <1>15 DEF Next

\* What the receipt, the manager and the process are known to hold survives a step:
\* only the adapter changes the file while it waits for a command, and the manager
\* takes a definition from nowhere but the file.
LEMMA CommandStep ==
    UnitInv /\ [Next]_vars => (ReceiptInv /\ OutcomeInv /\ InstalledIsLoaded /\ RestartInv)'
<1> SUFFICES ASSUME UnitInv, [Next]_vars
             PROVE  (ReceiptInv /\ OutcomeInv /\ InstalledIsLoaded /\ RestartInv)'
    OBVIOUS
<1> DEFINE Known == ReceiptInv /\ OutcomeInv /\ InstalledIsLoaded /\ RestartInv
<1> USE DefinitionsAssumption
        DEF UnitInv, TypeOK, ReceiptInv, OutcomeInv, InstalledIsLoaded, RestartInv
<1>1. CASE Exit
      BY <1>1 DEF Exit, receipt
<1>2. CASE Unload
      BY <1>2 DEF Unload, receipt
<1>3. CASE ReloadForOther
      BY <1>3 DEF ReloadForOther, Refreshed, receipt
<1>4. CASE SaveManifest
      BY <1>4 DEF SaveManifest, receipt
<1>5. CASE EditByHand
      BY <1>5 DEF EditByHand, receipt
<1>6. ASSUME NEW k \in {"start", "restart"}, Begin(k) PROVE Known'
      BY <1>6 DEF Begin, End, receipt
<1>7. CASE Stop
      BY <1>7 DEF Stop, End, receipt
<1>8. CASE Verified
      BY <1>8 DEF Verified, End, Idle
<1>9. CASE Reloaded
      BY <1>9 DEF Reloaded, Rollback, Refreshed, End, receipt
<1>10. CASE Acted
      BY <1>10 DEF Acted, Rollback, Launch, Definition, Idle, End, receipt
<1>11. CASE Confirmed
      BY <1>11 DEF Confirmed, Rollback, Idle, End, receipt
<1>12. CASE RolledBack
      BY <1>12 DEF RolledBack, Refreshed, End, receipt
<1>13. CASE RestartedPrevious
      BY <1>13 DEF RestartedPrevious, Launch, Definition, Idle, End, receipt
<1>14. CASE Crash
      BY <1>14 DEF Crash, Launch, Definition, Refreshed, Idle, End, receipt
<1>15. CASE UNCHANGED vars
      BY <1>15 DEF vars, receipt
<1> QED
    BY <1>1, <1>2, <1>3, <1>4, <1>5, <1>6, <1>7, <1>8, <1>9, <1>10, <1>11, <1>12, <1>13,
       <1>14, <1>15 DEF Next

\* The invariant holds throughout.
LEMMA UnitsInvariant == Spec => []UnitInv
<1>1. Init => UnitInv
      BY UnitInit
<1>2. UnitInv /\ [Next]_vars => UnitInv'
      BY TypeStep, AcceptedStep, CommandStep DEF UnitInv
<1> QED
    BY <1>1, <1>2, PTL DEF Spec

-----------------------------------------------------------------------------

\* Manifest, unit file, manager and receipt keep their types.
THEOREM UnitsTyping == Spec => []TypeOK
BY UnitsInvariant, PTL DEF UnitInv

\* Whatever fails, a definition that systemd rejects is never in the unit file of an
\* application, nor loaded, nor run.
THEOREM Verification == Spec => []OnlyVerifiedInstalled
<1>1. UnitInv => OnlyVerifiedInstalled
      BY DEF UnitInv, Accepted, OnlyVerifiedInstalled
<1> QED
    BY <1>1, UnitsInvariant, PTL

\* When install() returns after a change, the manager holds the new definition or
\* none: systemctl starts nothing older.
THEOREM Loading == Spec => []InstalledIsLoaded
BY UnitsInvariant, PTL DEF UnitInv

\* An operation reported as failed leaves the bytes of the unit file that it found.
THEOREM Restoration == Spec => FailureRestoresFile
<1>1. UnitInv /\ [Next]_vars
         => [pc # "idle" /\ outcome' = "failed" => file' = previous]_vars
  <2> SUFFICES ASSUME UnitInv, Next, pc # "idle", outcome' = "failed"
               PROVE  file' = previous
      BY DEF vars
  <2> USE DEF UnitInv, OutcomeInv, ReceiptInv, TypeOK
  <2>1. CASE Verified
        BY <2>1 DEF Verified, End
  <2>2. CASE Reloaded
        BY <2>2 DEF Reloaded, Rollback, End
  <2>3. CASE Acted
        BY <2>3 DEF Acted, Rollback, End
  <2>4. CASE Confirmed
        BY <2>4 DEF Confirmed, Rollback, End
  <2>5. CASE RolledBack
        BY <2>5 DEF RolledBack
  <2>6. CASE RestartedPrevious
        BY <2>6 DEF RestartedPrevious
  <2>7. CASE Exit \/ Unload \/ ReloadForOther \/ Crash
        BY <2>7 DEF Exit, Unload, ReloadForOther, Crash, End
  <2>8. CASE SaveManifest \/ EditByHand \/ Stop \/ \E k \in {"start", "restart"} : Begin(k)
        BY <2>8 DEF SaveManifest, EditByHand, Stop, Begin
  <2> QED
      BY <2>1, <2>2, <2>3, <2>4, <2>5, <2>6, <2>7, <2>8 DEF Next
<1> QED
    BY <1>1, UnitsInvariant, PTL DEF Spec, FailureRestoresFile

\* A restart that installed a definition and is reported as succeeded has a process
\* that runs it and a unit file that matches.
THEOREM Running == Spec => InstalledIsRunning
<1>1. UnitInv /\ [Next]_vars
         => [pc # "idle" /\ outcome' = "succeeded" /\ action = "restart" /\ changed =>
                 process = manifest /\ Consistency = "MATCH"]_vars
  <2> SUFFICES ASSUME UnitInv, Next, pc # "idle", outcome' = "succeeded",
                      action = "restart", changed
               PROVE  process = manifest /\ Consistency = "MATCH"
      BY DEF vars
  <2>1. Confirmed /\ process # None /\ pc = "confirm"
    <3> USE DEF UnitInv, OutcomeInv
    <3>1. CASE Confirmed
          BY <3>1 DEF Confirmed, Rollback, End
    <3>2. CASE Verified \/ Reloaded \/ Acted
          BY <3>2 DEF Verified, Reloaded, Acted, Rollback, End
    <3>3. CASE RolledBack \/ RestartedPrevious \/ Crash
          BY <3>3 DEF RolledBack, RestartedPrevious, Crash, End
    <3>4. CASE Exit \/ Unload \/ ReloadForOther
          BY <3>4 DEF Exit, Unload, ReloadForOther
    <3>5. CASE SaveManifest \/ EditByHand \/ Stop \/ \E k \in {"start", "restart"} : Begin(k)
          BY <3>5 DEF SaveManifest, EditByHand, Stop, Begin
    <3> QED
        BY <3>1, <3>2, <3>3, <3>4, <3>5 DEF Next
  <2>2. process = manifest /\ file = manifest
        BY <2>1 DEF UnitInv, RestartInv, InstalledIsLoaded
  <2>3. manifest # None
        BY DefinitionsAssumption DEF UnitInv, TypeOK
  <2> QED
      BY <2>2, <2>3 DEF Consistency
<1> QED
    BY <1>1, UnitsInvariant, PTL DEF Spec, InstalledIsRunning
=============================================================================
