---------------------------- MODULE CutoverProofs ----------------------------
(***************************************************************************)
(* Proofs about the two ways a Gateway is replaced: NpmUpdate and           *)
(* ReleaseGate, for any number of releases, hand-offs, processes, runs of   *)
(* the helper, installations by somebody else and faults.                   *)
(*                                                                         *)
(* npm update.  The phase in the plan does not tell where the directories   *)
(* are: it is saved before or after a rename, and the helper may die in     *)
(* between.  It tells between which arrangements of the four directories    *)
(* they are (NpmArranged), and the place of the helper which rename comes   *)
(* next (NpmAbout).  What the user installed over the target survives       *)
(* because no rename has an existing destination (NpmNothingLost).          *)
(*                                                                         *)
(* Release admission.  The gate of a live process is the one its journal    *)
(* names (GateOnJournal), so it stays closed through every restart until    *)
(* its own release or an operator opens it (GateHeld, GateFaultless); it    *)
(* closes only when no hand-off blocks, and behind a closed gate none can   *)
(* begin (GateQuiet).  release.lock makes the release at work the only one  *)
(* that moves an artifact (GateLocked, GateInPlace).                        *)
(***************************************************************************)
EXTENDS NpmUpdate, ReleaseGate, TLAPS

-----------------------------------------------------------------------------
(* The npm update and its directories.                                     *)

NpmDirAre(t, c, b, f) ==
  dir["target"] = t /\ dir["candidate"] = c /\ dir["backup"] = b /\ dir["failed"] = f

\* The arrangements of a plan nobody else interferes with.
NpmUntouched == NpmDirAre("old", "new", "absent", "absent")
NpmBackedUpDirs == NpmDirAre("absent", "new", "old", "absent")
NpmActiveDirs == NpmDirAre("new", "absent", "old", "absent")
NpmTakenOut == NpmDirAre("absent", "absent", "old", "new")
NpmPutBack == NpmDirAre("old", "absent", "absent", "new")

NpmArranged ==
  /\ phase = "prepared" => NpmUntouched
  /\ phase = "backing-up" => NpmUntouched \/ NpmBackedUpDirs
  /\ phase = "activating" => NpmBackedUpDirs \/ NpmActiveDirs
  /\ phase \in {"active", "verified"} => NpmActiveDirs
  /\ phase = "rolling-back" =>
       NpmUntouched \/ NpmBackedUpDirs \/ NpmActiveDirs \/ NpmTakenOut \/ NpmPutBack
  /\ phase = "rolled-back" => NpmUntouched \/ NpmPutBack

NpmAbout ==
  /\ helper = "backUp" => phase = "backing-up" /\ NpmUntouched
  /\ helper = "backedUp" => phase = "backing-up" /\ NpmBackedUpDirs
  /\ helper = "place" => phase = "activating"
  /\ helper = "placed" => phase = "activating" /\ NpmActiveDirs
  /\ helper \in {"start", "watch", "confirm"} => phase \in {"active", "verified"}
  /\ helper = "unplace" =>
       phase = "rolling-back" /\ (NpmBackedUpDirs \/ NpmActiveDirs \/ NpmTakenOut)
  /\ helper = "restore" => phase = "rolling-back" /\ (NpmBackedUpDirs \/ NpmTakenOut)
  /\ helper = "restored" => phase = "rolling-back" /\ (NpmUntouched \/ NpmPutBack)

\* Nothing stands where the helper is about to move the target to.
NpmNothingLost ==
  /\ installed # "absent"
  /\ NpmRuntimeKept
  /\ helper = "backUp" => dir["backup"] = "absent"

\* The accepted answer came from the process started from the new runtime.
NpmAccepted ==
  helper = "confirm" => answered = "updated" /\ gateway["updated"].code = "new"

NpmInv ==
  /\ NpmTypeOK
  /\ NpmNothingLost
  /\ NpmAccepted
  /\ installs = 0 => NpmArranged /\ NpmAbout

-----------------------------------------------------------------------------
(* What the steps do to the directories and the processes.                  *)

\* A rename empties its source and fills its destination.
LEMMA NpmMoveEffect ==
  ASSUME NpmTypeOK, NEW from \in NpmDirs, NEW to \in NpmDirs \ {from}, NpmMove(from, to)
  PROVE  /\ dir' \in [NpmDirs -> NpmRuntimes]
         /\ dir'[to] = dir[from] /\ dir'[from] = "absent"
         /\ \A d \in NpmDirs \ {from, to} : dir'[d] = dir[d]
  BY DEF NpmTypeOK, NpmMove, NpmRuntimes

\* The directories are read by field and by name.
LEMMA NpmDirFields ==
  ASSUME NpmTypeOK
  PROVE  /\ dir.target = dir["target"] /\ dir.candidate = dir["candidate"]
         /\ dir.backup = dir["backup"] /\ dir.failed = dir["failed"]
  OBVIOUS

\* A process changes its state and keeps its runtime, or is started from the target's.
LEMMA NpmPutEffect ==
  ASSUME NpmTypeOK, NEW g \in NpmGateways, NEW st \in NpmGatewayStates, NpmPut(g, st)
  PROVE  /\ gateway' \in [NpmGateways -> [st : NpmGatewayStates, code : NpmRuntimes]]
         /\ \A h \in NpmGateways : gateway'[h].code = gateway[h].code
  BY DEF NpmTypeOK, NpmPut

\* startService() starts what the target holds.
LEMMA NpmSpawnEffect ==
  ASSUME NpmTypeOK, NEW g \in NpmGateways, gateway' = NpmSpawned(g)
  PROVE  /\ gateway' \in [NpmGateways -> [st : NpmGatewayStates, code : NpmRuntimes]]
         /\ \A h \in NpmGateways \ {g} : gateway'[h] = gateway[h]
<1>1. [st |-> "spawned", code |-> dir.target] \in [st : NpmGatewayStates, code : NpmRuntimes]
  BY NpmDirFields DEF NpmTypeOK, NpmGatewayStates, NpmDirs
<1> QED
  BY <1>1 DEF NpmTypeOK, NpmSpawned

\* A new run of the helper has started nothing yet.
LEMMA NpmRetryEffect ==
  ASSUME NpmTypeOK, NpmRetry
  PROVE  /\ gateway' \in [NpmGateways -> [st : NpmGatewayStates, code : NpmRuntimes]]
<1> DEFINE mid == [gateway EXCEPT !["updated"].st = "none"]
<1>1. mid \in [NpmGateways -> [st : NpmGatewayStates, code : NpmRuntimes]]
  BY DEF NpmTypeOK, NpmGateways, NpmGatewayStates
<1>2. gateway' = [mid EXCEPT !["restored"].st = "none"]
  BY DEF NpmRetry
<1> HIDE DEF mid
<1> QED
  BY <1>1, <1>2 DEF NpmGatewayStates

\* Every step keeps the types.
LEMMA NpmTypeStep ==
  ASSUME NpmInv, NpmNext
  PROVE  NpmTypeOK'
<1> USE NpmDirFields
   DEF NpmInv, NpmTypeOK, NpmDirs, NpmRuntimes, NpmPhases, NpmHelperPlaces, NpmGateways,
   NpmGatewayStates
<1> SUFFICES ASSUME NEW g \in NpmGateways,
                    NpmStep \/ NpmDeadline \/ NpmFault \/ NpmRetry \/ NpmInstall \/ NpmStray
                      \/ NpmComeUp(g) \/ NpmServe(g) \/ NpmShutDown(g)
             PROVE  NpmTypeOK'
  BY "parent" \in NpmGateways DEF NpmNext, NpmGateways
<1>1. CASE NpmWaitParent
  BY <1>1 DEF NpmWaitParent, NpmGo, NpmPhase, NpmIdle, NpmKeeps, NpmOnlyGateways
<1>2. CASE NpmActivate
  BY <1>2 DEF NpmActivate, NpmGo, NpmPhase, NpmIdle, NpmKeeps, NpmOnlyGateways
<1>3. CASE NpmBackUp
  BY <1>3, NpmMoveEffect DEF NpmBackUp, NpmGo, NpmPhase, NpmIdle, NpmKeeps, NpmOnlyGateways
<1>4. CASE NpmBackedUp
  BY <1>4 DEF NpmBackedUp, NpmGo, NpmPhase, NpmIdle, NpmKeeps, NpmOnlyGateways
<1>5. CASE NpmPlace
  BY <1>5, NpmMoveEffect DEF NpmPlace, NpmGo, NpmPhase, NpmIdle, NpmKeeps, NpmOnlyGateways
<1>6. CASE NpmPlaced
  BY <1>6 DEF NpmPlaced, NpmGo, NpmPhase, NpmIdle, NpmKeeps, NpmOnlyGateways
<1>7. CASE NpmStart
  BY <1>7, NpmSpawnEffect DEF NpmStart, NpmGo, NpmPhase, NpmIdle, NpmKeeps, NpmOnlyGateways
<1>8. CASE NpmWatch
  BY <1>8 DEF NpmWatch, NpmGo, NpmPhase, NpmIdle, NpmKeeps, NpmOnlyGateways
<1>9. CASE NpmConfirm
  BY <1>9 DEF NpmConfirm, NpmGo, NpmPhase, NpmIdle, NpmKeeps, NpmOnlyGateways
<1>10. CASE NpmKill
  BY <1>10, NpmPutEffect DEF NpmKill, NpmGo, NpmPhase, NpmIdle, NpmKeeps, NpmOnlyGateways
<1>11. CASE NpmKillWait
  BY <1>11 DEF NpmKillWait, NpmGo, NpmPhase, NpmIdle, NpmKeeps, NpmOnlyGateways
<1>12. CASE NpmRollback
  BY <1>12 DEF NpmRollback, NpmGo, NpmPhase, NpmIdle, NpmKeeps, NpmOnlyGateways
<1>13. CASE NpmUnplace
  BY <1>13, NpmMoveEffect DEF NpmUnplace, NpmGo, NpmPhase, NpmIdle, NpmKeeps, NpmOnlyGateways
<1>14. CASE NpmRestore
  BY <1>14, NpmMoveEffect DEF NpmRestore, NpmGo, NpmPhase, NpmIdle, NpmKeeps, NpmOnlyGateways
<1>15. CASE NpmRestored
  BY <1>15 DEF NpmRestored, NpmGo, NpmPhase, NpmIdle, NpmKeeps, NpmOnlyGateways
<1>16. CASE NpmStartPrevious
  BY <1>16, NpmSpawnEffect
     DEF NpmStartPrevious, NpmGo, NpmPhase, NpmIdle, NpmKeeps, NpmOnlyGateways
<1>17. CASE NpmWatchPrevious
  BY <1>17 DEF NpmWatchPrevious, NpmGo, NpmPhase, NpmIdle, NpmKeeps, NpmOnlyGateways
<1>18. CASE NpmDeadline
  BY <1>18 DEF NpmDeadline, NpmGo, NpmPhase, NpmIdle, NpmKeeps, NpmOnlyGateways
<1>19. CASE NpmFault
  <2>1. npmFaults' \in 0..MaxNpmFaults
    BY <1>19, NpmUpdateAssumption DEF NpmFault
  <2>2. helper' \in NpmHelperPlaces /\ stranded' \in BOOLEAN
    BY <1>19 DEF NpmFault, NpmGo
  <2> QED
    BY <1>19, <2>1, <2>2 DEF NpmFault, NpmIdle
<1>20. CASE NpmRetry
  <2>1. runs' \in 0..MaxRuns
    BY <1>20, NpmUpdateAssumption DEF NpmRetry
  <2>2. helper' \in NpmHelperPlaces /\ stranded' \in BOOLEAN
    BY <1>20 DEF NpmRetry, NpmGo
  <2> QED
    BY <1>20, <2>1, <2>2, NpmRetryEffect DEF NpmRetry, NpmIdle
<1>21. CASE NpmInstall
  BY <1>21, NpmUpdateAssumption
     DEF NpmInstall, NpmGo, NpmPhase, NpmIdle, NpmKeeps, NpmOnlyGateways
<1>22. CASE NpmStray
  BY <1>22, NpmSpawnEffect DEF NpmStray, NpmGo, NpmPhase, NpmIdle, NpmKeeps, NpmOnlyGateways
<1>23. CASE NpmComeUp(g)
  BY <1>23, NpmPutEffect DEF NpmComeUp, NpmGo, NpmPhase, NpmIdle, NpmKeeps, NpmOnlyGateways
<1>24. CASE NpmServe(g)
  BY <1>24, NpmPutEffect DEF NpmServe, NpmGo, NpmPhase, NpmIdle, NpmKeeps, NpmOnlyGateways
<1>25. CASE NpmShutDown(g)
  BY <1>25, NpmPutEffect DEF NpmShutDown, NpmGo, NpmPhase, NpmIdle, NpmKeeps, NpmOnlyGateways
<1> QED
  BY <1>1, <1>2, <1>3, <1>4, <1>5, <1>6, <1>7, <1>8, <1>9, <1>10, <1>11, <1>12, <1>13, <1>14,
     <1>15, <1>16, <1>17, <1>18, <1>19, <1>20, <1>21, <1>22, <1>23, <1>24, <1>25 DEF NpmStep

\* No rename replaces what the user installed.
LEMMA NpmLostStep ==
  ASSUME NpmInv, NpmNext
  PROVE  NpmNothingLost'
<1> USE NpmDirFields
   DEF NpmInv, NpmTypeOK, NpmNothingLost, NpmRuntimeKept, NpmDirs, NpmRuntimes, NpmGateways
<1> SUFFICES ASSUME NEW g \in NpmGateways,
                    NpmStep \/ NpmDeadline \/ NpmFault \/ NpmRetry \/ NpmInstall \/ NpmStray
                      \/ NpmComeUp(g) \/ NpmServe(g) \/ NpmShutDown(g)
             PROVE  NpmNothingLost'
  BY "parent" \in NpmGateways DEF NpmNext, NpmGateways
<1>1. CASE NpmWaitParent
  BY <1>1 DEF NpmWaitParent, NpmGo, NpmPhase, NpmIdle, NpmKeeps, NpmOnlyGateways
<1>2. CASE NpmActivate
  BY <1>2 DEF NpmActivate, NpmGo, NpmPhase, NpmIdle, NpmKeeps, NpmOnlyGateways
<1>3. CASE NpmBackUp
  BY <1>3, NpmMoveEffect DEF NpmBackUp, NpmGo, NpmPhase, NpmIdle, NpmKeeps, NpmOnlyGateways
<1>4. CASE NpmBackedUp
  BY <1>4 DEF NpmBackedUp, NpmGo, NpmPhase, NpmIdle, NpmKeeps, NpmOnlyGateways
<1>5. CASE NpmPlace
  BY <1>5, NpmMoveEffect DEF NpmPlace, NpmGo, NpmPhase, NpmIdle, NpmKeeps, NpmOnlyGateways
<1>6. CASE NpmPlaced
  BY <1>6 DEF NpmPlaced, NpmGo, NpmPhase, NpmIdle, NpmKeeps, NpmOnlyGateways
<1>7. CASE NpmStart
  BY <1>7, NpmSpawnEffect DEF NpmStart, NpmGo, NpmPhase, NpmIdle, NpmKeeps, NpmOnlyGateways
<1>8. CASE NpmWatch
  BY <1>8 DEF NpmWatch, NpmGo, NpmPhase, NpmIdle, NpmKeeps, NpmOnlyGateways
<1>9. CASE NpmConfirm
  BY <1>9 DEF NpmConfirm, NpmGo, NpmPhase, NpmIdle, NpmKeeps, NpmOnlyGateways
<1>10. CASE NpmKill
  BY <1>10, NpmPutEffect DEF NpmKill, NpmGo, NpmPhase, NpmIdle, NpmKeeps, NpmOnlyGateways
<1>11. CASE NpmKillWait
  BY <1>11 DEF NpmKillWait, NpmGo, NpmPhase, NpmIdle, NpmKeeps, NpmOnlyGateways
<1>12. CASE NpmRollback
  BY <1>12 DEF NpmRollback, NpmGo, NpmPhase, NpmIdle, NpmKeeps, NpmOnlyGateways
<1>13. CASE NpmUnplace
  BY <1>13, NpmMoveEffect DEF NpmUnplace, NpmGo, NpmPhase, NpmIdle, NpmKeeps, NpmOnlyGateways
<1>14. CASE NpmRestore
  BY <1>14, NpmMoveEffect DEF NpmRestore, NpmGo, NpmPhase, NpmIdle, NpmKeeps, NpmOnlyGateways
<1>15. CASE NpmRestored
  BY <1>15 DEF NpmRestored, NpmGo, NpmPhase, NpmIdle, NpmKeeps, NpmOnlyGateways
<1>16. CASE NpmStartPrevious
  BY <1>16, NpmSpawnEffect
     DEF NpmStartPrevious, NpmGo, NpmPhase, NpmIdle, NpmKeeps, NpmOnlyGateways
<1>17. CASE NpmWatchPrevious
  BY <1>17 DEF NpmWatchPrevious, NpmGo, NpmPhase, NpmIdle, NpmKeeps, NpmOnlyGateways
<1>18. CASE NpmDeadline
  BY <1>18 DEF NpmDeadline, NpmGo, NpmPhase, NpmIdle, NpmKeeps, NpmOnlyGateways
<1>19. CASE NpmFault
  BY <1>19 DEF NpmFault, NpmGo, NpmPhase, NpmIdle, NpmKeeps, NpmOnlyGateways
<1>20. CASE NpmRetry
  BY <1>20, NpmRetryEffect DEF NpmRetry, NpmGo, NpmPhase, NpmIdle, NpmKeeps, NpmOnlyGateways
<1>21. CASE NpmInstall
  BY <1>21 DEF NpmInstall, NpmGo, NpmPhase, NpmIdle, NpmKeeps, NpmOnlyGateways
<1>22. CASE NpmStray
  BY <1>22, NpmSpawnEffect DEF NpmStray, NpmGo, NpmPhase, NpmIdle, NpmKeeps, NpmOnlyGateways
<1>23. CASE NpmComeUp(g)
  BY <1>23, NpmPutEffect DEF NpmComeUp, NpmGo, NpmPhase, NpmIdle, NpmKeeps, NpmOnlyGateways
<1>24. CASE NpmServe(g)
  BY <1>24, NpmPutEffect DEF NpmServe, NpmGo, NpmPhase, NpmIdle, NpmKeeps, NpmOnlyGateways
<1>25. CASE NpmShutDown(g)
  BY <1>25, NpmPutEffect DEF NpmShutDown, NpmGo, NpmPhase, NpmIdle, NpmKeeps, NpmOnlyGateways
<1> QED
  BY <1>1, <1>2, <1>3, <1>4, <1>5, <1>6, <1>7, <1>8, <1>9, <1>10, <1>11, <1>12, <1>13, <1>14,
     <1>15, <1>16, <1>17, <1>18, <1>19, <1>20, <1>21, <1>22, <1>23, <1>24, <1>25 DEF NpmStep

\* Nothing replaces the child whose answer was accepted before the plan is confirmed.
LEMMA NpmAcceptedStep ==
  ASSUME NpmInv, NpmNext
  PROVE  NpmAccepted'
<1> USE NpmDirFields
   DEF NpmInv, NpmTypeOK, NpmAccepted, NpmGateways, NpmGatewayStates, NpmAnswers
<1> SUFFICES ASSUME NEW g \in NpmGateways,
                    NpmStep \/ NpmDeadline \/ NpmFault \/ NpmRetry \/ NpmInstall \/ NpmStray
                      \/ NpmComeUp(g) \/ NpmServe(g) \/ NpmShutDown(g)
             PROVE  NpmAccepted'
  BY "parent" \in NpmGateways DEF NpmNext, NpmGateways
<1>1. CASE NpmWaitParent
  BY <1>1 DEF NpmWaitParent, NpmGo, NpmPhase, NpmIdle, NpmKeeps, NpmOnlyGateways
<1>2. CASE NpmActivate
  BY <1>2 DEF NpmActivate, NpmGo, NpmPhase, NpmIdle, NpmKeeps, NpmOnlyGateways
<1>3. CASE NpmBackUp
  BY <1>3, NpmMoveEffect DEF NpmBackUp, NpmGo, NpmPhase, NpmIdle, NpmKeeps, NpmOnlyGateways
<1>4. CASE NpmBackedUp
  BY <1>4 DEF NpmBackedUp, NpmGo, NpmPhase, NpmIdle, NpmKeeps, NpmOnlyGateways
<1>5. CASE NpmPlace
  BY <1>5, NpmMoveEffect DEF NpmPlace, NpmGo, NpmPhase, NpmIdle, NpmKeeps, NpmOnlyGateways
<1>6. CASE NpmPlaced
  BY <1>6 DEF NpmPlaced, NpmGo, NpmPhase, NpmIdle, NpmKeeps, NpmOnlyGateways
<1>7. CASE NpmStart
  BY <1>7, NpmSpawnEffect DEF NpmStart, NpmGo, NpmPhase, NpmIdle, NpmKeeps, NpmOnlyGateways
<1>8. CASE NpmWatch
  BY <1>8 DEF NpmWatch, NpmGo, NpmPhase, NpmIdle, NpmKeeps, NpmOnlyGateways
<1>9. CASE NpmConfirm
  BY <1>9 DEF NpmConfirm, NpmGo, NpmPhase, NpmIdle, NpmKeeps, NpmOnlyGateways
<1>10. CASE NpmKill
  BY <1>10, NpmPutEffect DEF NpmKill, NpmGo, NpmPhase, NpmIdle, NpmKeeps, NpmOnlyGateways
<1>11. CASE NpmKillWait
  BY <1>11 DEF NpmKillWait, NpmGo, NpmPhase, NpmIdle, NpmKeeps, NpmOnlyGateways
<1>12. CASE NpmRollback
  BY <1>12 DEF NpmRollback, NpmGo, NpmPhase, NpmIdle, NpmKeeps, NpmOnlyGateways
<1>13. CASE NpmUnplace
  BY <1>13, NpmMoveEffect DEF NpmUnplace, NpmGo, NpmPhase, NpmIdle, NpmKeeps, NpmOnlyGateways
<1>14. CASE NpmRestore
  BY <1>14, NpmMoveEffect DEF NpmRestore, NpmGo, NpmPhase, NpmIdle, NpmKeeps, NpmOnlyGateways
<1>15. CASE NpmRestored
  BY <1>15 DEF NpmRestored, NpmGo, NpmPhase, NpmIdle, NpmKeeps, NpmOnlyGateways
<1>16. CASE NpmStartPrevious
  BY <1>16, NpmSpawnEffect
     DEF NpmStartPrevious, NpmGo, NpmPhase, NpmIdle, NpmKeeps, NpmOnlyGateways
<1>17. CASE NpmWatchPrevious
  BY <1>17 DEF NpmWatchPrevious, NpmGo, NpmPhase, NpmIdle, NpmKeeps, NpmOnlyGateways
<1>18. CASE NpmDeadline
  BY <1>18 DEF NpmDeadline, NpmGo, NpmPhase, NpmIdle, NpmKeeps, NpmOnlyGateways
<1>19. CASE NpmFault
  BY <1>19 DEF NpmFault, NpmGo, NpmPhase, NpmIdle, NpmKeeps, NpmOnlyGateways
<1>20. CASE NpmRetry
  BY <1>20, NpmRetryEffect DEF NpmRetry, NpmGo, NpmPhase, NpmIdle, NpmKeeps, NpmOnlyGateways
<1>21. CASE NpmInstall
  BY <1>21 DEF NpmInstall, NpmGo, NpmPhase, NpmIdle, NpmKeeps, NpmOnlyGateways
<1>22. CASE NpmStray
  BY <1>22, NpmSpawnEffect DEF NpmStray, NpmGo, NpmPhase, NpmIdle, NpmKeeps, NpmOnlyGateways
<1>23. CASE NpmComeUp(g)
  BY <1>23, NpmPutEffect DEF NpmComeUp, NpmGo, NpmPhase, NpmIdle, NpmKeeps, NpmOnlyGateways
<1>24. CASE NpmServe(g)
  BY <1>24, NpmPutEffect DEF NpmServe, NpmGo, NpmPhase, NpmIdle, NpmKeeps, NpmOnlyGateways
<1>25. CASE NpmShutDown(g)
  BY <1>25, NpmPutEffect DEF NpmShutDown, NpmGo, NpmPhase, NpmIdle, NpmKeeps, NpmOnlyGateways
<1> QED
  BY <1>1, <1>2, <1>3, <1>4, <1>5, <1>6, <1>7, <1>8, <1>9, <1>10, <1>11, <1>12, <1>13, <1>14,
     <1>15, <1>16, <1>17, <1>18, <1>19, <1>20, <1>21, <1>22, <1>23, <1>24, <1>25 DEF NpmStep

\* Each save and each rename leads from one arrangement of its phase to another.
LEMMA NpmArrangedStep ==
  ASSUME NpmInv, NpmNext, installs' = 0
  PROVE  (NpmArranged /\ NpmAbout)'
<1> USE NpmDirFields
   DEF NpmInv, NpmTypeOK, NpmArranged, NpmAbout, NpmUntouched, NpmBackedUpDirs, NpmActiveDirs,
   NpmTakenOut, NpmPutBack, NpmDirAre, NpmDirs
<1> SUFFICES ASSUME NEW g \in NpmGateways,
                    NpmStep \/ NpmDeadline \/ NpmFault \/ NpmRetry \/ NpmInstall \/ NpmStray
                      \/ NpmComeUp(g) \/ NpmServe(g) \/ NpmShutDown(g)
             PROVE  (NpmArranged /\ NpmAbout)'
  BY "parent" \in NpmGateways DEF NpmNext, NpmGateways
<1>1. CASE NpmWaitParent
  BY <1>1 DEF NpmWaitParent, NpmGo, NpmPhase, NpmIdle, NpmKeeps, NpmOnlyGateways
<1>2. CASE NpmActivate
  BY <1>2 DEF NpmActivate, NpmGo, NpmPhase, NpmIdle, NpmKeeps, NpmOnlyGateways
<1>3. CASE NpmBackUp
  BY <1>3, NpmMoveEffect DEF NpmBackUp, NpmGo, NpmPhase, NpmIdle, NpmKeeps, NpmOnlyGateways
<1>4. CASE NpmBackedUp
  BY <1>4 DEF NpmBackedUp, NpmGo, NpmPhase, NpmIdle, NpmKeeps, NpmOnlyGateways
<1>5. CASE NpmPlace
  BY <1>5, NpmMoveEffect DEF NpmPlace, NpmGo, NpmPhase, NpmIdle, NpmKeeps, NpmOnlyGateways
<1>6. CASE NpmPlaced
  BY <1>6 DEF NpmPlaced, NpmGo, NpmPhase, NpmIdle, NpmKeeps, NpmOnlyGateways
<1>7. CASE NpmStart
  BY <1>7, NpmSpawnEffect DEF NpmStart, NpmGo, NpmPhase, NpmIdle, NpmKeeps, NpmOnlyGateways
<1>8. CASE NpmWatch
  BY <1>8 DEF NpmWatch, NpmGo, NpmPhase, NpmIdle, NpmKeeps, NpmOnlyGateways
<1>9. CASE NpmConfirm
  BY <1>9 DEF NpmConfirm, NpmGo, NpmPhase, NpmIdle, NpmKeeps, NpmOnlyGateways
<1>10. CASE NpmKill
  BY <1>10, NpmPutEffect DEF NpmKill, NpmGo, NpmPhase, NpmIdle, NpmKeeps, NpmOnlyGateways
<1>11. CASE NpmKillWait
  BY <1>11 DEF NpmKillWait, NpmGo, NpmPhase, NpmIdle, NpmKeeps, NpmOnlyGateways
<1>12. CASE NpmRollback
  <2>1. CASE phase = "rolled-back"
    BY <1>12, <2>1 DEF NpmRollback, NpmGo, NpmPhase, NpmKeeps
  <2>3. CASE phase # "rolled-back" /\ dir["backup"] = "absent"
    <3>1. dir' = dir
      BY <1>12 DEF NpmRollback
    <3>2. CASE dir["target"] = "old"
      <4>1. NpmUntouched \/ NpmPutBack
        BY <1>12, <2>3, <3>2 DEF NpmRollback, NpmKeeps, NpmPhases
      <4>2. helper' = "startPrevious" /\ phase' = "rolled-back"
        BY <1>12, <2>3, <3>2 DEF NpmRollback, NpmGo, NpmPhase
      <4> QED
        BY <3>1, <4>1, <4>2
    <3>3. CASE dir["target"] # "old"
      <4>1. helper' = "failed" /\ phase' = phase
        BY <1>12, <2>3, <3>3 DEF NpmRollback, NpmGo
      <4> QED
        BY <1>12, <3>1, <4>1 DEF NpmRollback, NpmKeeps
    <3> QED
      BY <3>2, <3>3
  <2>2. CASE phase # "rolled-back" /\ dir["backup"] # "absent"
    <3>1. helper' = "unplace" /\ phase' = "rolling-back" /\ dir' = dir
      BY <1>12, <2>2 DEF NpmRollback, NpmGo, NpmPhase
    <3>2. NpmBackedUpDirs \/ NpmActiveDirs \/ NpmTakenOut
      BY <1>12, <2>2, <3>1 DEF NpmKeeps, NpmRollback, NpmPhases
    <3> QED
      BY <3>1, <3>2
  <2> QED
    BY <2>1, <2>2, <2>3
<1>13. CASE NpmUnplace
  BY <1>13, NpmMoveEffect DEF NpmUnplace, NpmGo, NpmPhase, NpmIdle, NpmKeeps, NpmOnlyGateways
<1>14. CASE NpmRestore
  BY <1>14, NpmMoveEffect DEF NpmRestore, NpmGo, NpmPhase, NpmIdle, NpmKeeps, NpmOnlyGateways
<1>15. CASE NpmRestored
  BY <1>15 DEF NpmRestored, NpmGo, NpmPhase, NpmIdle, NpmKeeps, NpmOnlyGateways
<1>16. CASE NpmStartPrevious
  BY <1>16, NpmSpawnEffect
     DEF NpmStartPrevious, NpmGo, NpmPhase, NpmIdle, NpmKeeps, NpmOnlyGateways
<1>17. CASE NpmWatchPrevious
  BY <1>17 DEF NpmWatchPrevious, NpmGo, NpmPhase, NpmIdle, NpmKeeps, NpmOnlyGateways
<1>18. CASE NpmDeadline
  BY <1>18 DEF NpmDeadline, NpmGo, NpmPhase, NpmIdle, NpmKeeps, NpmOnlyGateways
<1>19. CASE NpmFault
  BY <1>19 DEF NpmFault, NpmGo, NpmPhase, NpmIdle, NpmKeeps, NpmOnlyGateways
<1>20. CASE NpmRetry
  BY <1>20, NpmRetryEffect DEF NpmRetry, NpmGo, NpmPhase, NpmIdle, NpmKeeps, NpmOnlyGateways
<1>21. CASE NpmInstall
  BY <1>21 DEF NpmInstall, NpmGo, NpmPhase, NpmIdle, NpmKeeps, NpmOnlyGateways
<1>22. CASE NpmStray
  BY <1>22, NpmSpawnEffect DEF NpmStray, NpmGo, NpmPhase, NpmIdle, NpmKeeps, NpmOnlyGateways
<1>23. CASE NpmComeUp(g)
  BY <1>23, NpmPutEffect DEF NpmComeUp, NpmGo, NpmPhase, NpmIdle, NpmKeeps, NpmOnlyGateways
<1>24. CASE NpmServe(g)
  BY <1>24, NpmPutEffect DEF NpmServe, NpmGo, NpmPhase, NpmIdle, NpmKeeps, NpmOnlyGateways
<1>25. CASE NpmShutDown(g)
  BY <1>25, NpmPutEffect DEF NpmShutDown, NpmGo, NpmPhase, NpmIdle, NpmKeeps, NpmOnlyGateways
<1> QED
  BY <1>1, <1>2, <1>3, <1>4, <1>5, <1>6, <1>7, <1>8, <1>9, <1>10, <1>11, <1>12, <1>13, <1>14,
     <1>15, <1>16, <1>17, <1>18, <1>19, <1>20, <1>21, <1>22, <1>23, <1>24, <1>25 DEF NpmStep

-----------------------------------------------------------------------------
(* Its invariant and what follows from it.                                 *)

\* The plan was prepared, its directories are sealed, the parent still serves.
LEMMA NpmInitHolds == NpmInit => NpmInv
<1> SUFFICES ASSUME NpmInit PROVE NpmInv
  OBVIOUS
<1>1. /\ dir \in [NpmDirs -> NpmRuntimes]
      /\ dir["target"] = "old" /\ dir["candidate"] = "new"
      /\ dir["backup"] = "absent" /\ dir["failed"] = "absent"
  BY DEF NpmInit, NpmDirs, NpmRuntimes
<1>2. gateway \in [NpmGateways -> [st : NpmGatewayStates, code : NpmRuntimes]]
  BY DEF NpmInit, NpmGateways, NpmGatewayStates, NpmRuntimes
<1>3. runs \in 0..MaxRuns /\ installs \in 0..MaxInstalls /\ npmFaults \in 0..MaxNpmFaults
  BY NpmUpdateAssumption DEF NpmInit
<1>4. NpmTypeOK
  BY <1>1, <1>2, <1>3
     DEF NpmInit, NpmTypeOK, NpmPhases, NpmHelperPlaces, NpmGateways, NpmRuntimes
<1> QED
  BY <1>1, <1>4 DEF NpmInit, NpmInv, NpmNothingLost, NpmRuntimeKept, NpmAccepted, NpmArranged,
     NpmAbout, NpmUntouched, NpmDirAre

\* The invariant is inductive.
LEMMA NpmStepHolds == NpmInv /\ [NpmNext]_npmVars => NpmInv'
<1> SUFFICES ASSUME NpmInv, [NpmNext]_npmVars PROVE NpmInv'
  OBVIOUS
<1>1. CASE NpmNext
  BY <1>1, NpmTypeStep, NpmLostStep, NpmAcceptedStep, NpmArrangedStep DEF NpmInv
<1>2. CASE UNCHANGED npmVars
  BY <1>2 DEF npmVars, NpmInv, NpmTypeOK, NpmNothingLost, NpmRuntimeKept, NpmAccepted,
     NpmArranged, NpmAbout, NpmUntouched, NpmBackedUpDirs, NpmActiveDirs, NpmTakenOut,
     NpmPutBack, NpmDirAre
<1> QED
  BY <1>1, <1>2

\* The phase a reader finds is true of the directories.
LEMMA NpmInvPlan == NpmInv => NpmPlanHolds
  BY DEF NpmInv, NpmPlanHolds, NpmNothingLost, NpmPhaseIsTrue, NpmArranged, NpmUntouched,
     NpmPutBack, NpmActiveDirs, NpmDirAre

\* Only confirmNpmRelease saves the phase "verified".
LEMMA NpmVerifiedStep ==
  ASSUME NpmInv, [NpmNext]_npmVars, phase # "verified", phase' = "verified"
  PROVE  answered = "updated" /\ gateway["updated"].code = "new"
<1> SUFFICES helper = "confirm"
  BY DEF NpmInv, NpmAccepted
<1>1. NpmNext
  BY DEF npmVars
<1>2. PICK g \in NpmGateways :
        \/ NpmStep \/ NpmDeadline \/ NpmFault \/ NpmRetry \/ NpmInstall \/ NpmStray
        \/ NpmComeUp(g) \/ NpmServe(g) \/ NpmShutDown(g)
  BY <1>1, "parent" \in NpmGateways DEF NpmNext, NpmGateways
<1> QED
  BY <1>2
     DEF NpmStep, NpmWaitParent, NpmActivate, NpmBackUp, NpmBackedUp, NpmPlace, NpmPlaced,
     NpmStart, NpmWatch, NpmConfirm, NpmKill, NpmKillWait, NpmRollback, NpmUnplace, NpmRestore,
     NpmRestored, NpmStartPrevious, NpmWatchPrevious, NpmDeadline, NpmFault, NpmRetry,
     NpmInstall, NpmStray, NpmComeUp, NpmServe, NpmShutDown, NpmGo, NpmPhase,
     NpmIdle, NpmKeeps, NpmOnlyGateways

\* Where the directories, the plan and the helper are, for any number of faults.
THEOREM NpmInvariant == NpmSpec => []NpmInv
  BY NpmInitHolds, NpmStepHolds, PTL DEF NpmSpec

\* npm-release.ts loses no installed runtime and saves no phase that is not true of
\* the target and the backup, wherever the helper dies and however often it runs again.
THEOREM NpmPlanIsTrue == NpmSpec => []NpmPlanHolds
  BY NpmInvariant, NpmInvPlan, PTL

\* confirmNpmRelease verifies a release on the answer of the helper's own child only.
THEOREM NpmVerifiedOwnChild == NpmSpec => NpmVerifiedByOwnChild
<1>1. NpmInv /\ [NpmNext]_npmVars =>
        [phase # "verified" /\ phase' = "verified" =>
           answered = "updated" /\ gateway["updated"].code = "new"]_npmVars
  BY NpmVerifiedStep
<1> QED
  BY <1>1, NpmInvariant, PTL DEF NpmSpec, NpmVerifiedByOwnChild

-----------------------------------------------------------------------------
(* Release admission.                                                       *)

\* The gate of a live process is the one its journal names; only a release's
\* ownership is persistent.
GateOnJournal ==
  /\ process.st = "down" => process.owner = NoOwner /\ ~process.persistent
  /\ process.st # "down" =>
       /\ process.owner \in Releases => admission = process.owner
       /\ process.owner \notin Releases => admission = NoOwner
       /\ process.persistent <=> process.owner \in Releases

GateNoneHanding == \A w \in Work : work[w] # "handing"

\* Nothing blocks a process that has an owner or is about to stop, and a process
\* that is gone has taken its hand-offs with it.
GateQuiet ==
  /\ process.st = "down" \/ process.owner # NoOwner => GateNoneHanding
  /\ process.st = "stopping" => gateRaced \/ GateNoneHanding

\* A release about to stop the process holds the gate.
GateHeld(r) ==
  release[r] \in {"claimed", "rollbackStop"} => gateRaced \/ admission = r

\* The release at work holds release.lock.
GateLocked(r) ==
  /\ release[r] \notin GateEnded => releaseLock = r
  /\ release[r] \in GateEnded \ {"crashed"} => releaseLock # r

\* Which artifact a release has put in place.
GateInPlace(r) ==
  /\ release[r] \in {"claim", "unclaim", "claimed", "dying", "dead", "restored", "reopen", "cancel"}
       => live = "old"
  /\ release[r] \in {"placed", "verify", "verified", "finish", "check", "rollbackStop",
                     "rollbackDying", "done", "unopened"} => live = r
  /\ release[r] \in {"idle", "claim"} => admission # r
  /\ r \in late => release[r] \in {"unclaim", "failed", "crashed"}
  /\ release[r] = "done" => admission # r

\* Without a fault nobody opens the gate of a release but the release itself.
GateFaultless(r) == gateFaults = 0 =>
  /\ late = {}
  /\ release[r] \in {"claimed", "dying", "dead", "placed", "verify", "check"} => admission = r
  /\ release[r] \in {"unclaim", "claimed", "cancel"} /\ admission = r => process.st = "up"
  /\ release[r] = "failed" => live # r /\ admission # r

GateInv ==
  /\ GateTypeOK
  /\ GateOnJournal
  /\ GateQuiet
  /\ gateRaced \/ gateCut = {}
  /\ \A r \in Releases : GateHeld(r) /\ GateLocked(r) /\ GateInPlace(r) /\ GateFaultless(r)

-----------------------------------------------------------------------------
(* What the operations do, field by field.                                  *)

\* hasBlockingWork finds a hand-off, or there is none.
LEMMA NothingBlocks == GateBlocking = {} <=> GateNoneHanding
  BY DEF GateBlocking, GateNoneHanding

\* A release takes its next step.
LEMMA GateToEffect ==
  ASSUME GateTypeOK, NEW r \in Releases, NEW place \in GatePlaces, GateTo(r, place)
  PROVE  /\ release' \in [Releases -> GatePlaces]
         /\ release'[r] = place
         /\ \A q \in Releases \ {r} : release'[q] = release[q]
  BY DEF GateTypeOK, GateTo

\* What prepareRelease writes.
LEMMA GatePrepareEffect ==
  ASSUME GateTypeOK, NEW id \in Releases \cup {Update}, NEW persist \in BOOLEAN,
         GatePrepare(id, persist)
  PROVE  /\ process' \in GateProcess
         /\ process'.st = process.st /\ process'.pid = process.pid /\ process'.code = process.code
         /\ process'.owner = id /\ process'.persistent = persist
         /\ admission' = IF persist THEN id ELSE admission
  BY DEF GateTypeOK, GatePrepare, GateProcess

\* What cancelRelease writes: only the owner's id opens.
LEMMA GateCancelEffect ==
  ASSUME GateTypeOK, NEW id \in Releases \cup {Update}, GateCancel(id)
  PROVE  /\ process' \in GateProcess
         /\ process'.st = process.st /\ process'.pid = process.pid /\ process'.code = process.code
         /\ process.st # "down" /\ process.owner = id =>
              /\ process'.owner = NoOwner /\ ~process'.persistent
              /\ admission' = IF process.persistent THEN NoOwner ELSE admission
         /\ process.st = "down" \/ process.owner # id => process' = process /\ admission' = admission
  BY DEF GateTypeOK, GateCancel, GateProcess

\* A process that is gone has no owner and no hand-offs.
LEMMA GateDownEffect ==
  ASSUME GateTypeOK, NEW cutover \in BOOLEAN, GateDown(cutover)
  PROVE  /\ process' \in GateProcess
         /\ process'.st = "down" /\ process'.owner = NoOwner /\ ~process'.persistent
         /\ process'.pid = process.pid /\ process'.code = process.code
         /\ work' \in [Work -> GateWorkStates] /\ GateNoneHanding'
         /\ gateCut' = IF cutover THEN gateCut \cup GateBlocking ELSE gateCut
<1>1. /\ process' \in GateProcess
      /\ process'.st = "down" /\ process'.owner = NoOwner /\ ~process'.persistent
      /\ process'.pid = process.pid /\ process'.code = process.code
  BY DEF GateTypeOK, GateDown, GateProcess
<1>2. work' \in [Work -> GateWorkStates] /\ GateNoneHanding'
  BY DEF GateTypeOK, GateDown, GateWorkStates, GateNoneHanding
<1> QED
  BY <1>1, <1>2 DEF GateDown

\* A new process takes its owner from the journal.
LEMMA GateStartEffect ==
  ASSUME GateTypeOK, GateStart
  PROVE  /\ process.st = "down"
         /\ process' \in GateProcess
         /\ process'.st = "up" /\ process'.owner = admission
         /\ process'.persistent <=> admission # NoOwner
         /\ UNCHANGED <<admission, loaded, live, work, release, releaseLock, confirmed, late, gateFaults,
                 gateRaced, gateCut>>
<1>1. process.pid + 1 \in 0..MaxPids
  BY ReleaseGateAssumption DEF GateTypeOK, GateProcess, GateStart
<1> QED
  BY <1>1 DEF GateTypeOK, GateStart, GateProcess

\* A hand-off begins in an open process only.
LEMMA GateWorkEffect ==
  ASSUME GateTypeOK, NEW w \in Work, GateWorkBegins(w) \/ GateWorkAccepted(w) \/ GateWorkEnds(w)
  PROVE  /\ work' \in [Work -> GateWorkStates]
         /\ UNCHANGED <<admission, process, loaded, live, release, releaseLock, confirmed, late,
                       gateFaults, gateRaced, gateCut>>
         /\ (process.st = "up" /\ process.owner = NoOwner) \/ (GateNoneHanding => GateNoneHanding')
  BY DEF GateTypeOK, GateWorkBegins, GateWorkAccepted, GateWorkEnds, GateWorkOnly, GateWritable,
     GateWorkStates, GateNoneHanding

\* The hand-offs are what they were.
LEMMA GateHandingKept == UNCHANGED work => (GateNoneHanding' <=> GateNoneHanding)
  BY DEF GateNoneHanding

\* A process whose gate a release or the update has just closed.
GateClosedBy(id, persist) ==
  /\ GateNoneHanding /\ process.st = "up" /\ process.owner = NoOwner
  /\ process' \in GateProcess
  /\ process'.st = process.st /\ process'.pid = process.pid /\ process'.code = process.code
  /\ process'.owner = id /\ process'.persistent = persist

\* Closing the gate finds nothing that blocks.
LEMMA GateCloseEffect ==
  ASSUME GateTypeOK, NEW id \in Releases \cup {Update}, NEW persist \in BOOLEAN,
         GateCanPrepare(id, persist), GatePrepare(id, persist)
  PROVE  /\ GateClosedBy(id, persist)
         /\ persist => admission = NoOwner
         /\ admission' = IF persist THEN id ELSE admission
  BY GatePrepareEffect, NothingBlocks DEF GateCanPrepare, GateClosedBy

GateUpdatePrepareDone ==
  /\ GateClosedBy(Update, FALSE) /\ admission' = admission
  /\ UNCHANGED <<loaded, live, work, release, releaseLock, confirmed, late, gateFaults, gateRaced, gateCut>>

\* The update endpoint closes the gate for the life of the process.
LEMMA GateUpdatePrepareEffect ==
  ASSUME GateTypeOK, GateUpdatePrepare
  PROVE  GateUpdatePrepareDone
  BY GateCloseEffect DEF GateUpdatePrepare, GateUpdatePrepareDone

GateLatePrepareDone(r) ==
  /\ r \in late /\ late' = late \ {r}
  /\ UNCHANGED <<loaded, live, work, release, releaseLock, confirmed, gateFaults, gateRaced, gateCut>>
  /\ \/ GateClosedBy(r, TRUE) /\ admission = NoOwner /\ admission' = r
     \/ UNCHANGED <<process, admission>>

\* A late request closes an open gate, or is refused.
LEMMA GateLatePrepareEffect ==
  ASSUME GateTypeOK, NEW r \in Releases, GateLatePrepare(r)
  PROVE  GateLatePrepareDone(r)
  BY GateCloseEffect DEF GateLatePrepare, GateLatePrepareDone

GateClaimDone(r) ==
  /\ release[r] = "claim"
  /\ release' \in [Releases -> GatePlaces]
  /\ \A q \in Releases \ {r} : release'[q] = release[q]
  /\ UNCHANGED <<loaded, live, work, releaseLock, confirmed, gateRaced, gateCut>>
  /\ \/ /\ GateClosedBy(r, TRUE) /\ admission = NoOwner /\ admission' = r
        /\ release'[r] \in {"claimed", "unclaim"} /\ UNCHANGED <<late, gateFaults>>
     \/ release'[r] = "unclaim" /\ UNCHANGED <<process, admission, late, gateFaults>>
     \/ /\ GateClosedBy(r, TRUE) /\ admission = NoOwner /\ admission' = r
        /\ release'[r] = "unclaim" /\ UNCHANGED late /\ GateFault
     \/ /\ release'[r] = "unclaim" /\ late' = late \cup {r}
        /\ UNCHANGED <<process, admission>> /\ GateFault

\* A claim closes the gate, is refused, or loses its answer or its request.
LEMMA GateClaimEffect ==
  ASSUME GateTypeOK, NEW r \in Releases, GateClaim(r)
  PROVE  GateClaimDone(r)
<1>1. UNCHANGED <<loaded, live, work, releaseLock, confirmed, gateRaced, gateCut>> /\ release[r] = "claim"
  BY DEF GateClaim
<1>2. ASSUME NEW place \in {"claimed", "unclaim"}, GateTo(r, place)
      PROVE  /\ release' \in [Releases -> GatePlaces] /\ release'[r] = place
             /\ \A q \in Releases \ {r} : release'[q] = release[q]
  BY <1>2, GateToEffect DEF GatePlaces
<1>3. ASSUME GateCanPrepare(r, TRUE), GatePrepare(r, TRUE)
      PROVE  GateClosedBy(r, TRUE) /\ admission = NoOwner /\ admission' = r
  BY <1>3, GateCloseEffect
<1> QED
  BY <1>1, <1>2, <1>3 DEF GateClaim, GateClaimDone

\* The process got SIGTERM if it was up.
GateTerminated ==
  /\ process' \in GateProcess
  /\ process'.pid = process.pid /\ process'.code = process.code
  /\ process'.owner = process.owner /\ process'.persistent = process.persistent
  /\ process.st = "up" => process'.st = "stopping"
  /\ process.st # "up" => process' = process

\* What SIGTERM does.
LEMMA GateTermEffect ==
  ASSUME GateTypeOK,
         process' = IF process.st = "up" THEN [process EXCEPT !.st = "stopping"] ELSE process
  PROVE  GateTerminated
  BY DEF GateTypeOK, GateTerminated, GateProcess

GateBootoutDone(r) ==
  /\ release[r] = "claimed"
  /\ release' \in [Releases -> GatePlaces]
  /\ \A q \in Releases \ {r} : release'[q] = release[q]
  /\ UNCHANGED <<admission, live, releaseLock, work, confirmed, late, gateFaults, gateRaced, gateCut>>
  /\ \/ release'[r] = "cancel" /\ UNCHANGED <<loaded, process>>
     \/ release'[r] = "dying" /\ GateTerminated /\ loaded' = FALSE

\* The service is booted out, or the preflight failed.
LEMMA GateBootoutEffect ==
  ASSUME GateTypeOK, NEW r \in Releases, GateBootout(r)
  PROVE  GateBootoutDone(r)
<1>1. CASE GateTo(r, "cancel") /\ UNCHANGED <<loaded, process>>
  BY <1>1, GateToEffect DEF GateBootout, GateBootoutDone, GateScriptOnly, GatePlaces
<1>2. CASE /\ GateTo(r, "dying") /\ loaded' = FALSE
           /\ process' = IF process.st = "up" THEN [process EXCEPT !.st = "stopping"] ELSE process
  <2>1. GateTerminated
    BY <1>2, GateTermEffect
  <2> QED
    BY <1>2, <2>1, GateToEffect DEF GateBootout, GateBootoutDone, GateScriptOnly, GatePlaces
<1> QED
  BY <1>1, <1>2 DEF GateBootout

GateRollbackStopDone(r) ==
  /\ release[r] = "rollbackStop"
  /\ release' \in [Releases -> GatePlaces]
  /\ \A q \in Releases \ {r} : release'[q] = release[q]
  /\ UNCHANGED <<admission, live, releaseLock, work, confirmed, late, gateFaults, gateRaced, gateCut>>
  /\ release'[r] = "rollbackDying" /\ GateTerminated /\ loaded' = FALSE

\* The replacement is stopped.
LEMMA GateRollbackStopEffect ==
  ASSUME GateTypeOK, NEW r \in Releases, GateRollbackStop(r)
  PROVE  GateRollbackStopDone(r)
<1>1. GateTerminated
  BY GateTermEffect DEF GateRollbackStop
<1> QED
  BY <1>1, GateToEffect DEF GateRollbackStop, GateRollbackStopDone, GateScriptOnly, GatePlaces

\* The update stops its own process, or gives the gate back.
LEMMA GateLaunchEffect ==
  ASSUME GateTypeOK, GateUpdateLaunch
  PROVE  /\ process.st = "up" /\ process.owner = Update
         /\ UNCHANGED <<loaded, live, work, release, releaseLock, confirmed, late, gateFaults, gateRaced, gateCut>>
         /\ \/ GateTerminated /\ admission' = admission
            \/ GateCancel(Update)
<1>1. CASE process' = [process EXCEPT !.st = "stopping"] /\ admission' = admission
  <2>1. GateTerminated
    BY <1>1, GateTermEffect DEF GateUpdateLaunch
  <2> QED
    BY <1>1, <2>1 DEF GateUpdateLaunch
<1>2. CASE GateCancel(Update)
  BY <1>2 DEF GateUpdateLaunch
<1> QED
  BY <1>1, <1>2 DEF GateUpdateLaunch

\* Every step keeps the types.
LEMMA GateTypeStep ==
  ASSUME GateInv, GateNext
  PROVE  GateTypeOK'
<1> USE ReleaseGateAssumption
   DEF GateInv, GateTypeOK, GatePlaces, GateEnded, GateArtifacts, GateProcess, GateBlocking
<1>1. CASE \E w \in Work : GateWorkBegins(w) \/ GateWorkAccepted(w) \/ GateWorkEnds(w)
  BY <1>1, GateWorkEffect
<1>2. CASE GateStart
  BY <1>2, GateStartEffect
<1>3. CASE GateStopped
  BY <1>3, GateDownEffect, NothingBlocks DEF GateStopped
<1>4. CASE GateCrash
  <2>1. gateFaults' \in 0..MaxGateFaults /\ gateCut' = gateCut
    BY <1>4 DEF GateCrash, GateDown
  <2> QED
    BY <1>4, <2>1, GateDownEffect DEF GateCrash
<1>5. CASE GateUpdatePrepare
  <2>1. GateUpdatePrepareDone
    BY <1>5, GateUpdatePrepareEffect
  <2> QED
    BY <2>1 DEF GateUpdatePrepareDone, GateClosedBy
<1>6. CASE GateUpdateLaunch
  BY <1>6, GateLaunchEffect, GateCancelEffect DEF GateTerminated
<1>7. CASE GateOperatorOpens
  BY <1>7, GateCancelEffect DEF GateOperatorOpens
<1>8. ASSUME NEW p \in Releases, GateLatePrepare(p) PROVE GateTypeOK'
  <2>1. GateLatePrepareDone(p)
    BY <1>8, GateLatePrepareEffect
  <2> QED
    BY <2>1 DEF GateLatePrepareDone, GateClosedBy
<1>9. ASSUME NEW p \in Releases, GateBegin(p) PROVE GateTypeOK'
  BY <1>9, GateToEffect DEF GateBegin, GateScriptOnly
<1>10. ASSUME NEW p \in Releases, GateClaim(p) PROVE GateTypeOK'
  <2>1. GateClaimDone(p)
    BY <1>10, GateClaimEffect
  <2> QED
    BY <2>1 DEF GateClaimDone, GateClosedBy, GateFault
<1>11. ASSUME NEW p \in Releases, GateGiveBack(p) PROVE GateTypeOK'
  BY <1>11, GateToEffect, GateCancelEffect DEF GateGiveBack, GateFault, GateEnd
<1>12. ASSUME NEW p \in Releases, GateBootout(p) PROVE GateTypeOK'
  <2>1. GateBootoutDone(p)
    BY <1>12, GateBootoutEffect
  <2> QED
    BY <2>1 DEF GateBootoutDone, GateTerminated
<1>13. ASSUME NEW p \in Releases, GateOldDead(p) PROVE GateTypeOK'
  BY <1>13, GateToEffect DEF GateOldDead, GateFault
<1>14. ASSUME NEW p \in Releases, GateInstall(p) PROVE GateTypeOK'
  BY <1>14, GateToEffect DEF GateInstall, GateFault
<1>15. ASSUME NEW p \in Releases, GateBootstrap(p) PROVE GateTypeOK'
  BY <1>15, GateToEffect DEF GateBootstrap, GateScriptOnly
<1>16. ASSUME NEW p \in Releases, GateVerify(p) PROVE GateTypeOK'
  BY <1>16, GateToEffect DEF GateVerify
<1>17. ASSUME NEW p \in Releases, GateCommit(p) PROVE GateTypeOK'
  BY <1>17, GateToEffect DEF GateCommit, GateScriptOnly
<1>18. ASSUME NEW p \in Releases, GateFinish(p) PROVE GateTypeOK'
  BY <1>18, GateToEffect, GateCancelEffect DEF GateFinish, GateFault, GateEnd
<1>19. ASSUME NEW p \in Releases, GateAgain(p) PROVE GateTypeOK'
  BY <1>19, GateToEffect DEF GateAgain
<1>20. ASSUME NEW p \in Releases, GateCheck(p) PROVE GateTypeOK'
  BY <1>20, GateToEffect DEF GateCheck, GateScriptOnly, GateEnd
<1>21. ASSUME NEW p \in Releases, GateRollbackStop(p) PROVE GateTypeOK'
  <2>1. GateRollbackStopDone(p)
    BY <1>21, GateRollbackStopEffect
  <2> QED
    BY <2>1 DEF GateRollbackStopDone, GateTerminated
<1>22. ASSUME NEW p \in Releases, GateRestore(p) PROVE GateTypeOK'
  BY <1>22, GateToEffect DEF GateRestore, GateFault, GateEnd
<1>23. ASSUME NEW p \in Releases, GateReopen(p) PROVE GateTypeOK'
  BY <1>23, GateToEffect, GateCancelEffect DEF GateReopen, GateFault, GateEnd
<1>24. ASSUME NEW p \in Releases, GateScriptDies(p) PROVE GateTypeOK'
  BY <1>24, GateToEffect DEF GateScriptDies, GateFault
<1> QED
  BY <1>1, <1>2, <1>3, <1>4, <1>5, <1>6, <1>7, <1>8, <1>9, <1>10, <1>11, <1>12, <1>13, <1>14,
     <1>15, <1>16, <1>17, <1>18, <1>19, <1>20, <1>21, <1>22, <1>23, <1>24 DEF GateNext,
     GateScript

\* The journal is written with the gate, and a new process starts with what it says.
LEMMA GateOnJournalStep ==
  ASSUME GateInv, GateNext
  PROVE  GateOnJournal'
<1> USE ReleaseGateAssumption DEF GateInv, GateTypeOK, GateOnJournal, GatePlaces, GateProcess
<1>1. CASE \E w \in Work : GateWorkBegins(w) \/ GateWorkAccepted(w) \/ GateWorkEnds(w)
  BY <1>1, GateWorkEffect
<1>2. CASE GateStart
  BY <1>2, GateStartEffect
<1>3. CASE GateStopped
  BY <1>3, GateDownEffect, NothingBlocks DEF GateStopped
<1>4. CASE GateCrash
  BY <1>4, GateDownEffect, NothingBlocks DEF GateCrash
<1>5. CASE GateUpdatePrepare
  <2>1. GateUpdatePrepareDone
    BY <1>5, GateUpdatePrepareEffect
  <2> QED
    BY <2>1 DEF GateUpdatePrepareDone, GateClosedBy
<1>6. CASE GateUpdateLaunch
  BY <1>6, GateLaunchEffect, GateCancelEffect DEF GateTerminated
<1>7. CASE GateOperatorOpens
  BY <1>7, GateCancelEffect DEF GateOperatorOpens
<1>8. ASSUME NEW p \in Releases, GateLatePrepare(p) PROVE GateOnJournal'
  <2>1. GateLatePrepareDone(p)
    BY <1>8, GateLatePrepareEffect
  <2> QED
    BY <2>1 DEF GateLatePrepareDone, GateClosedBy
<1>9. ASSUME NEW p \in Releases, GateBegin(p) PROVE GateOnJournal'
  BY <1>9, GateToEffect DEF GateBegin, GateScriptOnly
<1>10. ASSUME NEW p \in Releases, GateClaim(p) PROVE GateOnJournal'
  <2>1. GateClaimDone(p)
    BY <1>10, GateClaimEffect
  <2> QED
    BY <2>1 DEF GateClaimDone, GateClosedBy, GateFault
<1>11. ASSUME NEW p \in Releases, GateGiveBack(p) PROVE GateOnJournal'
  BY <1>11, GateToEffect, GateCancelEffect DEF GateGiveBack, GateFault, GateEnd
<1>12. ASSUME NEW p \in Releases, GateBootout(p) PROVE GateOnJournal'
  <2>1. GateBootoutDone(p)
    BY <1>12, GateBootoutEffect
  <2> QED
    BY <2>1 DEF GateBootoutDone, GateTerminated
<1>13. ASSUME NEW p \in Releases, GateOldDead(p) PROVE GateOnJournal'
  BY <1>13, GateToEffect DEF GateOldDead, GateFault
<1>14. ASSUME NEW p \in Releases, GateInstall(p) PROVE GateOnJournal'
  BY <1>14, GateToEffect DEF GateInstall, GateFault
<1>15. ASSUME NEW p \in Releases, GateBootstrap(p) PROVE GateOnJournal'
  BY <1>15, GateToEffect DEF GateBootstrap, GateScriptOnly
<1>16. ASSUME NEW p \in Releases, GateVerify(p) PROVE GateOnJournal'
  BY <1>16, GateToEffect DEF GateVerify
<1>17. ASSUME NEW p \in Releases, GateCommit(p) PROVE GateOnJournal'
  BY <1>17, GateToEffect DEF GateCommit, GateScriptOnly
<1>18. ASSUME NEW p \in Releases, GateFinish(p) PROVE GateOnJournal'
  BY <1>18, GateToEffect, GateCancelEffect DEF GateFinish, GateFault, GateEnd
<1>19. ASSUME NEW p \in Releases, GateAgain(p) PROVE GateOnJournal'
  BY <1>19, GateToEffect DEF GateAgain
<1>20. ASSUME NEW p \in Releases, GateCheck(p) PROVE GateOnJournal'
  BY <1>20, GateToEffect DEF GateCheck, GateScriptOnly, GateEnd
<1>21. ASSUME NEW p \in Releases, GateRollbackStop(p) PROVE GateOnJournal'
  <2>1. GateRollbackStopDone(p)
    BY <1>21, GateRollbackStopEffect
  <2> QED
    BY <2>1 DEF GateRollbackStopDone, GateTerminated
<1>22. ASSUME NEW p \in Releases, GateRestore(p) PROVE GateOnJournal'
  BY <1>22, GateToEffect DEF GateRestore, GateFault, GateEnd
<1>23. ASSUME NEW p \in Releases, GateReopen(p) PROVE GateOnJournal'
  BY <1>23, GateToEffect, GateCancelEffect DEF GateReopen, GateFault, GateEnd
<1>24. ASSUME NEW p \in Releases, GateScriptDies(p) PROVE GateOnJournal'
  BY <1>24, GateToEffect DEF GateScriptDies, GateFault
<1> QED
  BY <1>1, <1>2, <1>3, <1>4, <1>5, <1>6, <1>7, <1>8, <1>9, <1>10, <1>11, <1>12, <1>13, <1>14,
     <1>15, <1>16, <1>17, <1>18, <1>19, <1>20, <1>21, <1>22, <1>23, <1>24 DEF GateNext,
     GateScript

\* The gate closes on a process without blocking work, and stays closed until the stop.
LEMMA GateQuietStep ==
  ASSUME GateInv, GateNext
  PROVE  GateQuiet'
<1> USE ReleaseGateAssumption, GateHandingKept
   DEF GateInv, GateTypeOK, GateOnJournal, GateQuiet, GateHeld, GatePlaces, GateProcess
<1>1. CASE \E w \in Work : GateWorkBegins(w) \/ GateWorkAccepted(w) \/ GateWorkEnds(w)
  BY <1>1, GateWorkEffect
<1>2. CASE GateStart
  BY <1>2, GateStartEffect
<1>3. CASE GateStopped
  BY <1>3, GateDownEffect, NothingBlocks DEF GateStopped
<1>4. CASE GateCrash
  BY <1>4, GateDownEffect, NothingBlocks DEF GateCrash
<1>5. CASE GateUpdatePrepare
  <2>1. GateUpdatePrepareDone
    BY <1>5, GateUpdatePrepareEffect
  <2> QED
    BY <2>1 DEF GateUpdatePrepareDone, GateClosedBy
<1>6. CASE GateUpdateLaunch
  BY <1>6, GateLaunchEffect, GateCancelEffect DEF GateTerminated
<1>7. CASE GateOperatorOpens
  BY <1>7, GateCancelEffect DEF GateOperatorOpens
<1>8. ASSUME NEW p \in Releases, GateLatePrepare(p) PROVE GateQuiet'
  <2>1. GateLatePrepareDone(p)
    BY <1>8, GateLatePrepareEffect
  <2> QED
    BY <2>1 DEF GateLatePrepareDone, GateClosedBy
<1>9. ASSUME NEW p \in Releases, GateBegin(p) PROVE GateQuiet'
  BY <1>9, GateToEffect DEF GateBegin, GateScriptOnly
<1>10. ASSUME NEW p \in Releases, GateClaim(p) PROVE GateQuiet'
  <2>1. GateClaimDone(p)
    BY <1>10, GateClaimEffect
  <2> QED
    BY <2>1 DEF GateClaimDone, GateClosedBy, GateFault
<1>11. ASSUME NEW p \in Releases, GateGiveBack(p) PROVE GateQuiet'
  BY <1>11, GateToEffect, GateCancelEffect DEF GateGiveBack, GateFault, GateEnd
<1>12. ASSUME NEW p \in Releases, GateBootout(p) PROVE GateQuiet'
  <2>1. GateBootoutDone(p)
    BY <1>12, GateBootoutEffect
  <2> QED
    BY <2>1 DEF GateBootoutDone, GateTerminated
<1>13. ASSUME NEW p \in Releases, GateOldDead(p) PROVE GateQuiet'
  BY <1>13, GateToEffect DEF GateOldDead, GateFault
<1>14. ASSUME NEW p \in Releases, GateInstall(p) PROVE GateQuiet'
  BY <1>14, GateToEffect DEF GateInstall, GateFault
<1>15. ASSUME NEW p \in Releases, GateBootstrap(p) PROVE GateQuiet'
  BY <1>15, GateToEffect DEF GateBootstrap, GateScriptOnly
<1>16. ASSUME NEW p \in Releases, GateVerify(p) PROVE GateQuiet'
  BY <1>16, GateToEffect DEF GateVerify
<1>17. ASSUME NEW p \in Releases, GateCommit(p) PROVE GateQuiet'
  BY <1>17, GateToEffect DEF GateCommit, GateScriptOnly
<1>18. ASSUME NEW p \in Releases, GateFinish(p) PROVE GateQuiet'
  BY <1>18, GateToEffect, GateCancelEffect DEF GateFinish, GateFault, GateEnd
<1>19. ASSUME NEW p \in Releases, GateAgain(p) PROVE GateQuiet'
  BY <1>19, GateToEffect DEF GateAgain
<1>20. ASSUME NEW p \in Releases, GateCheck(p) PROVE GateQuiet'
  BY <1>20, GateToEffect DEF GateCheck, GateScriptOnly, GateEnd
<1>21. ASSUME NEW p \in Releases, GateRollbackStop(p) PROVE GateQuiet'
  <2>1. GateRollbackStopDone(p)
    BY <1>21, GateRollbackStopEffect
  <2> QED
    BY <2>1 DEF GateRollbackStopDone, GateTerminated
<1>22. ASSUME NEW p \in Releases, GateRestore(p) PROVE GateQuiet'
  BY <1>22, GateToEffect DEF GateRestore, GateFault, GateEnd
<1>23. ASSUME NEW p \in Releases, GateReopen(p) PROVE GateQuiet'
  BY <1>23, GateToEffect, GateCancelEffect DEF GateReopen, GateFault, GateEnd
<1>24. ASSUME NEW p \in Releases, GateScriptDies(p) PROVE GateQuiet'
  BY <1>24, GateToEffect DEF GateScriptDies, GateFault
<1> QED
  BY <1>1, <1>2, <1>3, <1>4, <1>5, <1>6, <1>7, <1>8, <1>9, <1>10, <1>11, <1>12, <1>13, <1>14,
     <1>15, <1>16, <1>17, <1>18, <1>19, <1>20, <1>21, <1>22, <1>23, <1>24 DEF GateNext,
     GateScript

\* Only a stop takes hand-offs with it, and a process that is stopping has none.
LEMMA GateCutStep ==
  ASSUME GateInv, GateNext
  PROVE  (gateRaced \/ gateCut = {})'
<1> USE NothingBlocks DEF GateInv, GateTypeOK, GateQuiet, GatePlaces
<1>1. CASE \E w \in Work : GateWorkBegins(w) \/ GateWorkAccepted(w) \/ GateWorkEnds(w)
  BY <1>1, GateWorkEffect
<1>2. CASE GateStart
  BY <1>2, GateStartEffect
<1>3. CASE GateStopped
  BY <1>3, GateDownEffect, NothingBlocks DEF GateStopped
<1>4. CASE GateCrash
  BY <1>4, GateDownEffect, NothingBlocks DEF GateCrash
<1>5. CASE GateUpdatePrepare
  <2>1. GateUpdatePrepareDone
    BY <1>5, GateUpdatePrepareEffect
  <2> QED
    BY <2>1 DEF GateUpdatePrepareDone, GateClosedBy
<1>6. CASE GateUpdateLaunch
  BY <1>6, GateLaunchEffect, GateCancelEffect DEF GateTerminated
<1>7. CASE GateOperatorOpens
  BY <1>7, GateCancelEffect DEF GateOperatorOpens
<1>8. ASSUME NEW p \in Releases, GateLatePrepare(p) PROVE (gateRaced \/ gateCut = {})'
  <2>1. GateLatePrepareDone(p)
    BY <1>8, GateLatePrepareEffect
  <2> QED
    BY <2>1 DEF GateLatePrepareDone, GateClosedBy
<1>9. ASSUME NEW p \in Releases, GateBegin(p) PROVE (gateRaced \/ gateCut = {})'
  BY <1>9, GateToEffect DEF GateBegin, GateScriptOnly
<1>10. ASSUME NEW p \in Releases, GateClaim(p) PROVE (gateRaced \/ gateCut = {})'
  <2>1. GateClaimDone(p)
    BY <1>10, GateClaimEffect
  <2> QED
    BY <2>1 DEF GateClaimDone, GateClosedBy, GateFault
<1>11. ASSUME NEW p \in Releases, GateGiveBack(p) PROVE (gateRaced \/ gateCut = {})'
  BY <1>11, GateToEffect, GateCancelEffect DEF GateGiveBack, GateFault, GateEnd
<1>12. ASSUME NEW p \in Releases, GateBootout(p) PROVE (gateRaced \/ gateCut = {})'
  <2>1. GateBootoutDone(p)
    BY <1>12, GateBootoutEffect
  <2> QED
    BY <2>1 DEF GateBootoutDone, GateTerminated
<1>13. ASSUME NEW p \in Releases, GateOldDead(p) PROVE (gateRaced \/ gateCut = {})'
  BY <1>13, GateToEffect DEF GateOldDead, GateFault
<1>14. ASSUME NEW p \in Releases, GateInstall(p) PROVE (gateRaced \/ gateCut = {})'
  BY <1>14, GateToEffect DEF GateInstall, GateFault
<1>15. ASSUME NEW p \in Releases, GateBootstrap(p) PROVE (gateRaced \/ gateCut = {})'
  BY <1>15, GateToEffect DEF GateBootstrap, GateScriptOnly
<1>16. ASSUME NEW p \in Releases, GateVerify(p) PROVE (gateRaced \/ gateCut = {})'
  BY <1>16, GateToEffect DEF GateVerify
<1>17. ASSUME NEW p \in Releases, GateCommit(p) PROVE (gateRaced \/ gateCut = {})'
  BY <1>17, GateToEffect DEF GateCommit, GateScriptOnly
<1>18. ASSUME NEW p \in Releases, GateFinish(p) PROVE (gateRaced \/ gateCut = {})'
  BY <1>18, GateToEffect, GateCancelEffect DEF GateFinish, GateFault, GateEnd
<1>19. ASSUME NEW p \in Releases, GateAgain(p) PROVE (gateRaced \/ gateCut = {})'
  BY <1>19, GateToEffect DEF GateAgain
<1>20. ASSUME NEW p \in Releases, GateCheck(p) PROVE (gateRaced \/ gateCut = {})'
  BY <1>20, GateToEffect DEF GateCheck, GateScriptOnly, GateEnd
<1>21. ASSUME NEW p \in Releases, GateRollbackStop(p) PROVE (gateRaced \/ gateCut = {})'
  <2>1. GateRollbackStopDone(p)
    BY <1>21, GateRollbackStopEffect
  <2> QED
    BY <2>1 DEF GateRollbackStopDone, GateTerminated
<1>22. ASSUME NEW p \in Releases, GateRestore(p) PROVE (gateRaced \/ gateCut = {})'
  BY <1>22, GateToEffect DEF GateRestore, GateFault, GateEnd
<1>23. ASSUME NEW p \in Releases, GateReopen(p) PROVE (gateRaced \/ gateCut = {})'
  BY <1>23, GateToEffect, GateCancelEffect DEF GateReopen, GateFault, GateEnd
<1>24. ASSUME NEW p \in Releases, GateScriptDies(p) PROVE (gateRaced \/ gateCut = {})'
  BY <1>24, GateToEffect DEF GateScriptDies, GateFault
<1> QED
  BY <1>1, <1>2, <1>3, <1>4, <1>5, <1>6, <1>7, <1>8, <1>9, <1>10, <1>11, <1>12, <1>13, <1>14,
     <1>15, <1>16, <1>17, <1>18, <1>19, <1>20, <1>21, <1>22, <1>23, <1>24 DEF GateNext,
     GateScript

\* Nobody but the release itself and an operator opens the gate it holds.
LEMMA GateHeldStep ==
  ASSUME GateInv, GateNext, NEW r \in Releases
  PROVE  GateHeld(r)'
<1> USE ReleaseGateAssumption
   DEF GateInv, GateTypeOK, GateOnJournal, GateHeld, GatePlaces, GateProcess
<1>1. CASE \E w \in Work : GateWorkBegins(w) \/ GateWorkAccepted(w) \/ GateWorkEnds(w)
  BY <1>1, GateWorkEffect
<1>2. CASE GateStart
  BY <1>2, GateStartEffect
<1>3. CASE GateStopped
  BY <1>3, GateDownEffect, NothingBlocks DEF GateStopped
<1>4. CASE GateCrash
  BY <1>4, GateDownEffect, NothingBlocks DEF GateCrash
<1>5. CASE GateUpdatePrepare
  <2>1. GateUpdatePrepareDone
    BY <1>5, GateUpdatePrepareEffect
  <2> QED
    BY <2>1 DEF GateUpdatePrepareDone, GateClosedBy
<1>6. CASE GateUpdateLaunch
  BY <1>6, GateLaunchEffect, GateCancelEffect DEF GateTerminated
<1>7. CASE GateOperatorOpens
  BY <1>7, GateCancelEffect DEF GateOperatorOpens
<1>8. ASSUME NEW p \in Releases, GateLatePrepare(p) PROVE GateHeld(r)'
  <2>1. GateLatePrepareDone(p)
    BY <1>8, GateLatePrepareEffect
  <2> QED
    BY <2>1 DEF GateLatePrepareDone, GateClosedBy
<1>9. ASSUME NEW p \in Releases, GateBegin(p) PROVE GateHeld(r)'
  BY <1>9, GateToEffect DEF GateBegin, GateScriptOnly
<1>10. ASSUME NEW p \in Releases, GateClaim(p) PROVE GateHeld(r)'
  <2>1. GateClaimDone(p)
    BY <1>10, GateClaimEffect
  <2> QED
    BY <2>1 DEF GateClaimDone, GateClosedBy, GateFault
<1>11. ASSUME NEW p \in Releases, GateGiveBack(p) PROVE GateHeld(r)'
  BY <1>11, GateToEffect, GateCancelEffect DEF GateGiveBack, GateFault, GateEnd
<1>12. ASSUME NEW p \in Releases, GateBootout(p) PROVE GateHeld(r)'
  <2>1. GateBootoutDone(p)
    BY <1>12, GateBootoutEffect
  <2> QED
    BY <2>1 DEF GateBootoutDone, GateTerminated
<1>13. ASSUME NEW p \in Releases, GateOldDead(p) PROVE GateHeld(r)'
  BY <1>13, GateToEffect DEF GateOldDead, GateFault
<1>14. ASSUME NEW p \in Releases, GateInstall(p) PROVE GateHeld(r)'
  BY <1>14, GateToEffect DEF GateInstall, GateFault
<1>15. ASSUME NEW p \in Releases, GateBootstrap(p) PROVE GateHeld(r)'
  BY <1>15, GateToEffect DEF GateBootstrap, GateScriptOnly
<1>16. ASSUME NEW p \in Releases, GateVerify(p) PROVE GateHeld(r)'
  BY <1>16, GateToEffect DEF GateVerify
<1>17. ASSUME NEW p \in Releases, GateCommit(p) PROVE GateHeld(r)'
  BY <1>17, GateToEffect DEF GateCommit, GateScriptOnly
<1>18. ASSUME NEW p \in Releases, GateFinish(p) PROVE GateHeld(r)'
  BY <1>18, GateToEffect, GateCancelEffect DEF GateFinish, GateFault, GateEnd
<1>19. ASSUME NEW p \in Releases, GateAgain(p) PROVE GateHeld(r)'
  BY <1>19, GateToEffect DEF GateAgain
<1>20. ASSUME NEW p \in Releases, GateCheck(p) PROVE GateHeld(r)'
  BY <1>20, GateToEffect DEF GateCheck, GateScriptOnly, GateEnd
<1>21. ASSUME NEW p \in Releases, GateRollbackStop(p) PROVE GateHeld(r)'
  <2>1. GateRollbackStopDone(p)
    BY <1>21, GateRollbackStopEffect
  <2> QED
    BY <2>1 DEF GateRollbackStopDone, GateTerminated
<1>22. ASSUME NEW p \in Releases, GateRestore(p) PROVE GateHeld(r)'
  BY <1>22, GateToEffect DEF GateRestore, GateFault, GateEnd
<1>23. ASSUME NEW p \in Releases, GateReopen(p) PROVE GateHeld(r)'
  BY <1>23, GateToEffect, GateCancelEffect DEF GateReopen, GateFault, GateEnd
<1>24. ASSUME NEW p \in Releases, GateScriptDies(p) PROVE GateHeld(r)'
  BY <1>24, GateToEffect DEF GateScriptDies, GateFault
<1> QED
  BY <1>1, <1>2, <1>3, <1>4, <1>5, <1>6, <1>7, <1>8, <1>9, <1>10, <1>11, <1>12, <1>13, <1>14,
     <1>15, <1>16, <1>17, <1>18, <1>19, <1>20, <1>21, <1>22, <1>23, <1>24 DEF GateNext,
     GateScript

\* release.lock admits one release at a time.
LEMMA GateLockedStep ==
  ASSUME GateInv, GateNext, NEW r \in Releases
  PROVE  GateLocked(r)'
<1> USE ReleaseGateAssumption
   DEF GateInv, GateTypeOK, GateEnded, GateLocked, GatePlaces, GateProcess
<1>1. CASE \E w \in Work : GateWorkBegins(w) \/ GateWorkAccepted(w) \/ GateWorkEnds(w)
  BY <1>1, GateWorkEffect
<1>2. CASE GateStart
  BY <1>2, GateStartEffect
<1>3. CASE GateStopped
  BY <1>3, GateDownEffect, NothingBlocks DEF GateStopped
<1>4. CASE GateCrash
  BY <1>4, GateDownEffect, NothingBlocks DEF GateCrash
<1>5. CASE GateUpdatePrepare
  <2>1. GateUpdatePrepareDone
    BY <1>5, GateUpdatePrepareEffect
  <2> QED
    BY <2>1 DEF GateUpdatePrepareDone, GateClosedBy
<1>6. CASE GateUpdateLaunch
  BY <1>6, GateLaunchEffect, GateCancelEffect DEF GateTerminated
<1>7. CASE GateOperatorOpens
  BY <1>7, GateCancelEffect DEF GateOperatorOpens
<1>8. ASSUME NEW p \in Releases, GateLatePrepare(p) PROVE GateLocked(r)'
  <2>1. GateLatePrepareDone(p)
    BY <1>8, GateLatePrepareEffect
  <2> QED
    BY <2>1 DEF GateLatePrepareDone, GateClosedBy
<1>9. ASSUME NEW p \in Releases, GateBegin(p) PROVE GateLocked(r)'
  BY <1>9, GateToEffect DEF GateBegin, GateScriptOnly
<1>10. ASSUME NEW p \in Releases, GateClaim(p) PROVE GateLocked(r)'
  <2>1. GateClaimDone(p)
    BY <1>10, GateClaimEffect
  <2> QED
    BY <2>1 DEF GateClaimDone, GateClosedBy, GateFault
<1>11. ASSUME NEW p \in Releases, GateGiveBack(p) PROVE GateLocked(r)'
  BY <1>11, GateToEffect, GateCancelEffect DEF GateGiveBack, GateFault, GateEnd
<1>12. ASSUME NEW p \in Releases, GateBootout(p) PROVE GateLocked(r)'
  <2>1. GateBootoutDone(p)
    BY <1>12, GateBootoutEffect
  <2> QED
    BY <2>1 DEF GateBootoutDone, GateTerminated
<1>13. ASSUME NEW p \in Releases, GateOldDead(p) PROVE GateLocked(r)'
  BY <1>13, GateToEffect DEF GateOldDead, GateFault
<1>14. ASSUME NEW p \in Releases, GateInstall(p) PROVE GateLocked(r)'
  BY <1>14, GateToEffect DEF GateInstall, GateFault
<1>15. ASSUME NEW p \in Releases, GateBootstrap(p) PROVE GateLocked(r)'
  BY <1>15, GateToEffect DEF GateBootstrap, GateScriptOnly
<1>16. ASSUME NEW p \in Releases, GateVerify(p) PROVE GateLocked(r)'
  BY <1>16, GateToEffect DEF GateVerify
<1>17. ASSUME NEW p \in Releases, GateCommit(p) PROVE GateLocked(r)'
  BY <1>17, GateToEffect DEF GateCommit, GateScriptOnly
<1>18. ASSUME NEW p \in Releases, GateFinish(p) PROVE GateLocked(r)'
  BY <1>18, GateToEffect, GateCancelEffect DEF GateFinish, GateFault, GateEnd
<1>19. ASSUME NEW p \in Releases, GateAgain(p) PROVE GateLocked(r)'
  BY <1>19, GateToEffect DEF GateAgain
<1>20. ASSUME NEW p \in Releases, GateCheck(p) PROVE GateLocked(r)'
  BY <1>20, GateToEffect DEF GateCheck, GateScriptOnly, GateEnd
<1>21. ASSUME NEW p \in Releases, GateRollbackStop(p) PROVE GateLocked(r)'
  <2>1. GateRollbackStopDone(p)
    BY <1>21, GateRollbackStopEffect
  <2> QED
    BY <2>1 DEF GateRollbackStopDone, GateTerminated
<1>22. ASSUME NEW p \in Releases, GateRestore(p) PROVE GateLocked(r)'
  BY <1>22, GateToEffect DEF GateRestore, GateFault, GateEnd
<1>23. ASSUME NEW p \in Releases, GateReopen(p) PROVE GateLocked(r)'
  BY <1>23, GateToEffect, GateCancelEffect DEF GateReopen, GateFault, GateEnd
<1>24. ASSUME NEW p \in Releases, GateScriptDies(p) PROVE GateLocked(r)'
  BY <1>24, GateToEffect DEF GateScriptDies, GateFault
<1> QED
  BY <1>1, <1>2, <1>3, <1>4, <1>5, <1>6, <1>7, <1>8, <1>9, <1>10, <1>11, <1>12, <1>13, <1>14,
     <1>15, <1>16, <1>17, <1>18, <1>19, <1>20, <1>21, <1>22, <1>23, <1>24 DEF GateNext,
     GateScript

\* The artifact in dist/ is the one of the release at work, or of the last that was done.
LEMMA GateInPlaceStep ==
  ASSUME GateInv, GateNext, NEW r \in Releases
  PROVE  GateInPlace(r)'
<1> USE ReleaseGateAssumption
   DEF GateInv, GateTypeOK, GateOnJournal, GateEnded, GateLocked, GateInPlace, GatePlaces,
   GateProcess
<1>1. CASE \E w \in Work : GateWorkBegins(w) \/ GateWorkAccepted(w) \/ GateWorkEnds(w)
  BY <1>1, GateWorkEffect
<1>2. CASE GateStart
  BY <1>2, GateStartEffect
<1>3. CASE GateStopped
  BY <1>3, GateDownEffect, NothingBlocks DEF GateStopped
<1>4. CASE GateCrash
  BY <1>4, GateDownEffect, NothingBlocks DEF GateCrash
<1>5. CASE GateUpdatePrepare
  <2>1. GateUpdatePrepareDone
    BY <1>5, GateUpdatePrepareEffect
  <2> QED
    BY <2>1 DEF GateUpdatePrepareDone, GateClosedBy
<1>6. CASE GateUpdateLaunch
  BY <1>6, GateLaunchEffect, GateCancelEffect DEF GateTerminated
<1>7. CASE GateOperatorOpens
  BY <1>7, GateCancelEffect DEF GateOperatorOpens
<1>8. ASSUME NEW p \in Releases, GateLatePrepare(p) PROVE GateInPlace(r)'
  <2>1. GateLatePrepareDone(p)
    BY <1>8, GateLatePrepareEffect
  <2> QED
    BY <2>1 DEF GateLatePrepareDone, GateClosedBy
<1>9. ASSUME NEW p \in Releases, GateBegin(p) PROVE GateInPlace(r)'
  BY <1>9, GateToEffect DEF GateBegin, GateScriptOnly
<1>10. ASSUME NEW p \in Releases, GateClaim(p) PROVE GateInPlace(r)'
  <2>1. GateClaimDone(p)
    BY <1>10, GateClaimEffect
  <2> QED
    BY <2>1 DEF GateClaimDone, GateClosedBy, GateFault
<1>11. ASSUME NEW p \in Releases, GateGiveBack(p) PROVE GateInPlace(r)'
  BY <1>11, GateToEffect, GateCancelEffect DEF GateGiveBack, GateFault, GateEnd
<1>12. ASSUME NEW p \in Releases, GateBootout(p) PROVE GateInPlace(r)'
  <2>1. GateBootoutDone(p)
    BY <1>12, GateBootoutEffect
  <2> QED
    BY <2>1 DEF GateBootoutDone, GateTerminated
<1>13. ASSUME NEW p \in Releases, GateOldDead(p) PROVE GateInPlace(r)'
  BY <1>13, GateToEffect DEF GateOldDead, GateFault
<1>14. ASSUME NEW p \in Releases, GateInstall(p) PROVE GateInPlace(r)'
  BY <1>14, GateToEffect DEF GateInstall, GateFault
<1>15. ASSUME NEW p \in Releases, GateBootstrap(p) PROVE GateInPlace(r)'
  BY <1>15, GateToEffect DEF GateBootstrap, GateScriptOnly
<1>16. ASSUME NEW p \in Releases, GateVerify(p) PROVE GateInPlace(r)'
  BY <1>16, GateToEffect DEF GateVerify
<1>17. ASSUME NEW p \in Releases, GateCommit(p) PROVE GateInPlace(r)'
  BY <1>17, GateToEffect DEF GateCommit, GateScriptOnly
<1>18. ASSUME NEW p \in Releases, GateFinish(p) PROVE GateInPlace(r)'
  BY <1>18, GateToEffect, GateCancelEffect DEF GateFinish, GateFault, GateEnd
<1>19. ASSUME NEW p \in Releases, GateAgain(p) PROVE GateInPlace(r)'
  BY <1>19, GateToEffect DEF GateAgain
<1>20. ASSUME NEW p \in Releases, GateCheck(p) PROVE GateInPlace(r)'
  BY <1>20, GateToEffect DEF GateCheck, GateScriptOnly, GateEnd
<1>21. ASSUME NEW p \in Releases, GateRollbackStop(p) PROVE GateInPlace(r)'
  <2>1. GateRollbackStopDone(p)
    BY <1>21, GateRollbackStopEffect
  <2> QED
    BY <2>1 DEF GateRollbackStopDone, GateTerminated
<1>22. ASSUME NEW p \in Releases, GateRestore(p) PROVE GateInPlace(r)'
  BY <1>22, GateToEffect DEF GateRestore, GateFault, GateEnd
<1>23. ASSUME NEW p \in Releases, GateReopen(p) PROVE GateInPlace(r)'
  BY <1>23, GateToEffect, GateCancelEffect DEF GateReopen, GateFault, GateEnd
<1>24. ASSUME NEW p \in Releases, GateScriptDies(p) PROVE GateInPlace(r)'
  BY <1>24, GateToEffect DEF GateScriptDies, GateFault
<1> QED
  BY <1>1, <1>2, <1>3, <1>4, <1>5, <1>6, <1>7, <1>8, <1>9, <1>10, <1>11, <1>12, <1>13, <1>14,
     <1>15, <1>16, <1>17, <1>18, <1>19, <1>20, <1>21, <1>22, <1>23, <1>24 DEF GateNext,
     GateScript

\* Without a fault a failed release found the gate of a live process its own, and opened it.
LEMMA GateFaultlessStep ==
  ASSUME GateInv, GateNext, NEW r \in Releases
  PROVE  GateFaultless(r)'
<1> USE ReleaseGateAssumption
   DEF GateInv, GateTypeOK, GateOnJournal, GateEnded, GateLocked, GateInPlace, GateFaultless,
   GatePlaces, GateProcess
<1>1. CASE \E w \in Work : GateWorkBegins(w) \/ GateWorkAccepted(w) \/ GateWorkEnds(w)
  BY <1>1, GateWorkEffect
<1>2. CASE GateStart
  BY <1>2, GateStartEffect
<1>3. CASE GateStopped
  BY <1>3, GateDownEffect, NothingBlocks DEF GateStopped
<1>4. CASE GateCrash
  BY <1>4, GateDownEffect, NothingBlocks DEF GateCrash
<1>5. CASE GateUpdatePrepare
  <2>1. GateUpdatePrepareDone
    BY <1>5, GateUpdatePrepareEffect
  <2> QED
    BY <2>1 DEF GateUpdatePrepareDone, GateClosedBy
<1>6. CASE GateUpdateLaunch
  BY <1>6, GateLaunchEffect, GateCancelEffect DEF GateTerminated
<1>7. CASE GateOperatorOpens
  BY <1>7, GateCancelEffect DEF GateOperatorOpens
<1>8. ASSUME NEW p \in Releases, GateLatePrepare(p) PROVE GateFaultless(r)'
  <2>1. GateLatePrepareDone(p)
    BY <1>8, GateLatePrepareEffect
  <2> QED
    BY <2>1 DEF GateLatePrepareDone, GateClosedBy
<1>9. ASSUME NEW p \in Releases, GateBegin(p) PROVE GateFaultless(r)'
  BY <1>9, GateToEffect DEF GateBegin, GateScriptOnly
<1>10. ASSUME NEW p \in Releases, GateClaim(p) PROVE GateFaultless(r)'
  <2>1. GateClaimDone(p)
    BY <1>10, GateClaimEffect
  <2> QED
    BY <2>1 DEF GateClaimDone, GateClosedBy, GateFault
<1>11. ASSUME NEW p \in Releases, GateGiveBack(p) PROVE GateFaultless(r)'
  BY <1>11, GateToEffect, GateCancelEffect DEF GateGiveBack, GateFault, GateEnd
<1>12. ASSUME NEW p \in Releases, GateBootout(p) PROVE GateFaultless(r)'
  <2>1. GateBootoutDone(p)
    BY <1>12, GateBootoutEffect
  <2> QED
    BY <2>1 DEF GateBootoutDone, GateTerminated
<1>13. ASSUME NEW p \in Releases, GateOldDead(p) PROVE GateFaultless(r)'
  BY <1>13, GateToEffect DEF GateOldDead, GateFault
<1>14. ASSUME NEW p \in Releases, GateInstall(p) PROVE GateFaultless(r)'
  BY <1>14, GateToEffect DEF GateInstall, GateFault
<1>15. ASSUME NEW p \in Releases, GateBootstrap(p) PROVE GateFaultless(r)'
  BY <1>15, GateToEffect DEF GateBootstrap, GateScriptOnly
<1>16. ASSUME NEW p \in Releases, GateVerify(p) PROVE GateFaultless(r)'
  BY <1>16, GateToEffect DEF GateVerify
<1>17. ASSUME NEW p \in Releases, GateCommit(p) PROVE GateFaultless(r)'
  BY <1>17, GateToEffect DEF GateCommit, GateScriptOnly
<1>18. ASSUME NEW p \in Releases, GateFinish(p) PROVE GateFaultless(r)'
  BY <1>18, GateToEffect, GateCancelEffect DEF GateFinish, GateFault, GateEnd
<1>19. ASSUME NEW p \in Releases, GateAgain(p) PROVE GateFaultless(r)'
  BY <1>19, GateToEffect DEF GateAgain
<1>20. ASSUME NEW p \in Releases, GateCheck(p) PROVE GateFaultless(r)'
  BY <1>20, GateToEffect DEF GateCheck, GateScriptOnly, GateEnd
<1>21. ASSUME NEW p \in Releases, GateRollbackStop(p) PROVE GateFaultless(r)'
  <2>1. GateRollbackStopDone(p)
    BY <1>21, GateRollbackStopEffect
  <2> QED
    BY <2>1 DEF GateRollbackStopDone, GateTerminated
<1>22. ASSUME NEW p \in Releases, GateRestore(p) PROVE GateFaultless(r)'
  BY <1>22, GateToEffect DEF GateRestore, GateFault, GateEnd
<1>23. ASSUME NEW p \in Releases, GateReopen(p) PROVE GateFaultless(r)'
  BY <1>23, GateToEffect, GateCancelEffect DEF GateReopen, GateFault, GateEnd
<1>24. ASSUME NEW p \in Releases, GateScriptDies(p) PROVE GateFaultless(r)'
  BY <1>24, GateToEffect DEF GateScriptDies, GateFault
<1> QED
  BY <1>1, <1>2, <1>3, <1>4, <1>5, <1>6, <1>7, <1>8, <1>9, <1>10, <1>11, <1>12, <1>13, <1>14,
     <1>15, <1>16, <1>17, <1>18, <1>19, <1>20, <1>21, <1>22, <1>23, <1>24 DEF GateNext,
     GateScript

-----------------------------------------------------------------------------
(* Its invariant and what follows from it.                                 *)

\* An old process serves, its gate is open and nothing is handed off.
LEMMA GateInitHolds == GateInit => GateInv
<1> SUFFICES ASSUME GateInit PROVE GateInv
  OBVIOUS
<1>1. process \in GateProcess /\ process.st = "up" /\ process.owner = NoOwner /\ ~process.persistent
  BY ReleaseGateAssumption DEF GateInit, GateProcess, GateArtifacts
<1>2. /\ release \in [Releases -> GatePlaces] /\ \A r \in Releases : release[r] = "idle"
      /\ work \in [Work -> GateWorkStates] /\ GateNoneHanding
  BY DEF GateInit, GatePlaces, GateWorkStates, GateNoneHanding
<1>3. confirmed \in [Releases -> 0..MaxPids] /\ gateFaults \in 0..MaxGateFaults
  BY ReleaseGateAssumption DEF GateInit
<1>4. GateTypeOK
  BY <1>1, <1>2, <1>3 DEF GateInit, GateTypeOK, GateArtifacts
<1> QED
  BY <1>1, <1>2, <1>4, ReleaseGateAssumption DEF GateInit, GateInv, GateOnJournal, GateQuiet,
     GateHeld, GateLocked, GateInPlace, GateFaultless, GateEnded

\* The invariant is inductive.
LEMMA GateStepHolds == GateInv /\ [GateNext]_gateVars => GateInv'
<1> SUFFICES ASSUME GateInv, [GateNext]_gateVars PROVE GateInv'
  OBVIOUS
<1>1. CASE GateNext
  <2>1. GateTypeOK' /\ GateOnJournal' /\ GateQuiet' /\ (gateRaced \/ gateCut = {})'
    BY <1>1, GateTypeStep, GateOnJournalStep, GateQuietStep, GateCutStep
  <2>2. \A r \in Releases : (GateHeld(r) /\ GateLocked(r) /\ GateInPlace(r) /\ GateFaultless(r))'
    BY <1>1, GateHeldStep, GateLockedStep, GateInPlaceStep, GateFaultlessStep
  <2> QED
    BY <2>1, <2>2 DEF GateInv
<1>2. CASE UNCHANGED gateVars
  BY <1>2 DEF gateVars, GateInv, GateTypeOK, GateOnJournal, GateQuiet, GateNoneHanding,
     GateHeld, GateLocked, GateInPlace, GateFaultless
<1> QED
  BY <1>1, <1>2

\* A release that is done or has failed is what its last step left.
LEMMA GateInvSettles == GateInv => GateCutsNothing /\ GateSettles
<1> SUFFICES ASSUME GateInv PROVE GateCutsNothing /\ GateSettles
  OBVIOUS
<1>1. GateCutsNothing
  BY DEF GateInv, GateCutsNothing
<1>2. \A r \in Releases : admission # r => process.owner # r
  BY ReleaseGateAssumption DEF GateInv, GateOnJournal
<1> QED
  BY <1>1, <1>2 DEF GateInv, GateInPlace, GateFaultless, GateSettles

\* Work begins in a process without an owner, whose journal is empty.
LEMMA GateBeginsOpen ==
  ASSUME GateInv, [GateNext]_gateVars
  PROVE  \A w \in Work : work[w] = "idle" /\ work'[w] = "handing" => admission = NoOwner
<1> SUFFICES ASSUME NEW w \in Work, work[w] = "idle", work'[w] = "handing"
             PROVE  admission = NoOwner
  OBVIOUS
<1>1. CASE \E v \in Work : GateWorkBegins(v)
  BY <1>1 DEF GateWorkBegins, GateWritable, GateInv, GateTypeOK, GateOnJournal
<1>2. CASE ~(\E v \in Work : GateWorkBegins(v))
  <2>1. work'[w] # "handing"
    <3>1. CASE \E v \in Work : GateWorkAccepted(v) \/ GateWorkEnds(v)
      BY <3>1 DEF GateWorkAccepted, GateWorkEnds, GateInv, GateTypeOK
    <3>2. CASE GateStopped \/ GateCrash
      BY <3>2, GateDownEffect DEF GateStopped, GateCrash, GateInv, GateNoneHanding
    <3>3. CASE UNCHANGED work
      BY <3>3
    <3>4. CASE GateStart \/ GateUpdatePrepare \/ GateUpdateLaunch \/ GateOperatorOpens
      BY <3>3, <3>4 DEF GateStart, GateUpdatePrepare, GateUpdateLaunch, GateOperatorOpens
    <3>5. ASSUME NEW r \in Releases, GateScript(r) \/ GateScriptDies(r) \/ GateLatePrepare(r)
          PROVE  UNCHANGED work
      BY <3>5
         DEF GateScript, GateScriptDies, GateLatePrepare, GateBegin, GateClaim, GateGiveBack,
         GateBootout, GateOldDead, GateInstall, GateBootstrap, GateVerify, GateCommit, GateFinish,
         GateAgain, GateCheck, GateRollbackStop, GateRestore, GateReopen, GateScriptOnly
    <3> QED
      BY <1>2, <3>1, <3>2, <3>3, <3>4, <3>5 DEF GateNext, gateVars
  <2> QED
    BY <2>1
<1> QED
  BY <1>1, <1>2

\* What the gate, its journal and the releases know of each other.
THEOREM GateInvariant == GateSpec => []GateInv
  BY GateInitHolds, GateStepHolds, PTL DEF GateSpec

\* No cutover stops a process in the middle of a hand-off, unless an operator opened
\* the gate under the release about to stop it.
THEOREM GateCutNothing == GateSpec => []GateCutsNothing
  BY GateInvariant, GateInvSettles, PTL

\* A release that is done has its artifact in place and its gate open; one that failed
\* without a fault has put the old artifact back and opened its gate.
THEOREM GateSettled == GateSpec => []GateSettles
  BY GateInvariant, GateInvSettles, PTL

\* assertRuntimeWritable takes up no work while the journal names a release, in the
\* process that closed the gate or in any that is started later.
THEOREM GateHeldShut == GateSpec => GateHolds
<1>1. GateInv /\ [GateNext]_gateVars =>
        [\A w \in Work : work[w] = "idle" /\ work'[w] = "handing" => admission = NoOwner]_gateVars
  BY GateBeginsOpen
<1> QED
  BY <1>1, GateInvariant, PTL DEF GateSpec, GateHolds
==============================================================================
