------------------------------ MODULE NpmUpdate ------------------------------
(***************************************************************************)
(* An npm update of the Gateway: the release plan and its directories       *)
(* (src/server/npm-release.ts), the detached helper that outlives the old   *)
(* process (src/server/restart-helper.ts, restart.ts) and the processes it  *)
(* starts (src/server/index.ts).                                            *)
(*                                                                         *)
(* The plan's phase is written durably before each rename, so every write   *)
(* and every rename is a step of its own: the helper may die between any    *)
(* two, somebody may install another runtime over the target, and the same  *)
(* helper may be run again on the plan, which it can only while the target  *)
(* holds the entry file it looks for.  A directory is what it holds:        *)
(* nothing, the runtime the plan replaces ("old"), the prepared one ("new") *)
(* or anything else ("other").  The process lock is taken at its promise    *)
(* (module ServiceLock): a process that comes up while another holds it     *)
(* exits.                                                                   *)
(***************************************************************************)
EXTENDS Naturals

CONSTANTS MaxRuns,      \* bound: runs of the helper on one plan
          MaxInstalls,  \* bound: installations by somebody else
          MaxNpmFaults     \* bound: waits that time out, failed saves, dead helpers

ASSUME NpmUpdateAssumption ==
  MaxRuns \in Nat \ {0} /\ MaxInstalls \in Nat /\ MaxNpmFaults \in Nat

VARIABLES
  dir,        \* what target, candidate, backup and failed hold
  phase,      \* plan.phase in release.json
  helper,     \* where the helper is
  gateway,    \* the Gateway processes, by who started them
  answered,   \* the process whose /api/build the helper accepted
  newCode,    \* how the prepared runtime behaves when it is started
  runs, installs, npmFaults,
  installed,  \* history: what the user last installed in target
  stranded    \* history: the helper died or gave up where it starts nothing

npmVars == <<dir, phase, helper, gateway, answered, newCode, runs, installs,
             npmFaults, installed, stranded>>

NpmRuntimes == {"absent", "old", "new", "other"}
NpmDirs == {"target", "candidate", "backup", "failed"}
NpmPhases == {"prepared", "backing-up", "activating", "active", "verified",
              "rolling-back", "rolled-back"}
NpmGateways == {"parent", "updated", "restored", "stray"}
NpmGatewayStates == {"none", "spawned", "starting", "serving", "stopping", "exited"}
NpmHelperPlaces == {"waitParent", "activate", "backUp", "backedUp", "place", "placed",
                    "start", "watch", "confirm", "kill", "killWait", "rollback",
                    "unplace", "restore", "restored", "startPrevious",
                    "watchPrevious", "done", "failed", "dead"}
NpmEnded == {"done", "failed", "dead"}

NpmInit ==
  /\ dir = [d \in NpmDirs |-> CASE d = "target" -> "old"
                                [] d = "candidate" -> "new"
                                [] OTHER -> "absent"]
  /\ phase = "prepared"
  /\ helper = "waitParent"
  /\ gateway = [g \in NpmGateways |->
                  [st |-> IF g = "parent" THEN "serving" ELSE "none", code |-> "old"]]
  /\ answered = "none"
  /\ newCode \in {"healthy", "exits", "hangs"}
  /\ runs = 1 /\ installs = 0 /\ npmFaults = 0
  /\ installed = "old"
  /\ stranded = FALSE

-----------------------------------------------------------------------------
\* The processes.

NpmHolds(g) == gateway[g].st \in {"starting", "serving", "stopping"}

NpmPut(g, st) == gateway' = [gateway EXCEPT ![g].st = st]

\* startService(): the entry of whatever the target holds now.
NpmSpawned(g) == [gateway EXCEPT ![g] = [st |-> "spawned", code |-> dir.target]]

NpmOnlyGateways == UNCHANGED <<dir, phase, helper, answered, newCode, runs, installs,
                               npmFaults, installed, stranded>>

\* A process without an entry file, or that finds the lock taken, exits.
NpmComeUp(g) ==
  /\ gateway[g].st = "spawned"
  /\ NpmPut(g, IF gateway[g].code = "absent" \/ \E q \in NpmGateways \ {g} : NpmHolds(q)
               THEN "exited" ELSE "starting")
  /\ NpmOnlyGateways

\* The listener opens; the prepared runtime may instead exit or never serve.
NpmServe(g) ==
  /\ gateway[g].st = "starting"
  /\ gateway[g].code = "new" => newCode # "hangs"
  /\ NpmPut(g, IF gateway[g].code = "new" /\ newCode = "exits" THEN "exited" ELSE "serving")
  /\ NpmOnlyGateways

\* exitAfterShutdown: the parent once its helper is launched; cleanup, then
\* the lock is released and the process exits.
NpmShutDown(g) ==
  /\ \/ g = "parent" /\ gateway[g].st = "serving" /\ NpmPut(g, "stopping")
     \/ gateway[g].st = "stopping" /\ NpmPut(g, "exited")
  /\ NpmOnlyGateways

\* A supervisor or the user starts a Gateway of its own beside the helper.
NpmStray ==
  /\ gateway["stray"].st = "none"
  /\ gateway["parent"].st = "exited"
  /\ gateway' = NpmSpawned("stray")
  /\ NpmOnlyGateways

\* Somebody installs another runtime over the target.
NpmInstall ==
  /\ installs < MaxInstalls
  /\ installs' = installs + 1
  /\ dir' = [dir EXCEPT !.target = "other"]
  /\ installed' = "other"
  /\ UNCHANGED <<phase, helper, gateway, answered, newCode, runs, npmFaults, stranded>>

-----------------------------------------------------------------------------
\* The helper.

NpmGo(place) == helper' = place
NpmPhase(p) == phase' = p
NpmMove(from, to) == dir' = [dir EXCEPT ![to] = dir[from], ![from] = "absent"]
NpmKeeps == UNCHANGED <<gateway, answered, newCode, runs, installs, npmFaults, installed, stranded>>
NpmIdle == UNCHANGED <<dir, phase>> /\ NpmKeeps

\* waitForProcessExit(parentPid, 60 s): a timeout ends the helper.
NpmWaitParent ==
  /\ helper = "waitParent"
  /\ gateway["parent"].st = "exited"
  /\ NpmGo("activate") /\ NpmIdle

\* activateNpmRelease up to its first effect: an earlier run may have stopped
\* anywhere, so the phase and the directories are judged together.  The case of
\* an absent target beside its backup is the code's: no run of this helper comes
\* to it (NpmRetry).
NpmActivate ==
  /\ helper = "activate"
  /\ \/ /\ phase \in {"active", "verified"}
        /\ NpmGo("start") /\ UNCHANGED phase
     \/ /\ \/ phase \in {"rolling-back", "rolled-back"}
           \/ phase \in {"prepared", "backing-up", "activating"}
              /\ dir.candidate \notin {"absent", "new"}
           \/ phase \in {"prepared", "backing-up"} /\ dir.backup = "absent" /\ dir.target # "old"
           \/ phase \in {"prepared", "backing-up"} /\ dir.backup # "absent" /\ dir.target # "absent"
        /\ NpmGo("kill") /\ UNCHANGED phase
     \/ /\ dir.candidate \in {"absent", "new"}
        /\ \/ /\ phase \in {"prepared", "backing-up"}
              /\ \/ dir.backup = "absent" /\ dir.target = "old"
                    /\ NpmPhase("backing-up") /\ NpmGo("backUp")
                 \/ dir.backup # "absent" /\ dir.target = "absent"
                    /\ NpmPhase("activating") /\ NpmGo("place")
           \/ /\ phase = "activating"
              /\ NpmGo("place") /\ UNCHANGED phase
  /\ UNCHANGED dir /\ NpmKeeps

\* renameSync(target, backup)
NpmBackUp ==
  /\ helper = "backUp"
  /\ NpmMove("target", "backup")
  /\ NpmGo("backedUp")
  /\ UNCHANGED phase /\ NpmKeeps

\* phase = "activating", saved before the candidate is moved.
NpmBackedUp ==
  /\ helper = "backedUp"
  /\ NpmPhase("activating") /\ NpmGo("place")
  /\ UNCHANGED dir /\ NpmKeeps

\* renameSync(candidate, target), unless a runtime already stands there.
NpmPlace ==
  /\ helper = "place"
  /\ IF dir.target = "absent" /\ dir.candidate # "absent"
     THEN NpmMove("candidate", "target") ELSE UNCHANGED dir
  /\ NpmGo(IF dir.target = "absent" /\ dir.candidate = "absent" THEN "kill" ELSE "placed")
  /\ UNCHANGED phase /\ NpmKeeps

\* The bytes now in the target must be the sealed ones.
NpmPlaced ==
  /\ helper = "placed"
  /\ IF dir.target = "new" THEN NpmPhase("active") /\ NpmGo("start")
                           ELSE NpmGo("kill") /\ UNCHANGED phase
  /\ UNCHANGED dir /\ NpmKeeps

NpmStart ==
  /\ helper = "start"
  /\ gateway' = NpmSpawned("updated")
  /\ NpmGo("watch")
  /\ UNCHANGED <<dir, phase, answered, newCode, runs, installs, npmFaults, installed, stranded>>

\* Mutant: any Gateway of the expected version on the port will do.
NpmAnswersAnyone(g, child, version) ==
  gateway[g].st = "serving" /\ gateway[g].code = version

\* /api/build on the port: the version and the pid must be the child's own.
NpmAnswers(g, child, version) ==
  gateway[g].st = "serving" /\ g = child /\ gateway[g].code = version

NpmWatch ==
  /\ helper = "watch"
  /\ \/ /\ gateway["updated"].st = "exited"
        /\ NpmGo("kill") /\ UNCHANGED answered
     \/ \E g \in NpmGateways :
          /\ NpmAnswers(g, "updated", "new")
          /\ answered' = g
          /\ NpmGo("confirm")
  /\ UNCHANGED <<dir, phase, gateway, newCode, runs, installs, npmFaults, installed, stranded>>

\* confirmNpmRelease: a plan that is verified already, by an earlier run, fails.
NpmConfirm ==
  /\ helper = "confirm"
  /\ IF phase = "active" THEN NpmPhase("verified") /\ NpmGo("done")
                         ELSE NpmGo("kill") /\ UNCHANGED phase
  /\ UNCHANGED dir /\ NpmKeeps

\* The catch clause: a child that still runs is told to stop and waited for.
NpmKill ==
  /\ helper = "kill"
  /\ IF gateway["updated"].st \in {"none", "exited"}
     THEN NpmGo("rollback") /\ UNCHANGED gateway
     ELSE /\ NpmGo("killWait")
          /\ NpmPut("updated", IF gateway["updated"].st = "serving" THEN "stopping"
                                                                   ELSE "exited")
  /\ UNCHANGED <<dir, phase, answered, newCode, runs, installs, npmFaults, installed, stranded>>

NpmKillWait ==
  /\ helper = "killWait"
  /\ gateway["updated"].st = "exited"
  /\ NpmGo("rollback") /\ NpmIdle

\* Mutant: a release that was never moved has nothing to restart.
NpmRollbackStops ==
  /\ helper = "rollback"
  /\ \/ dir.backup = "absent" /\ NpmGo("failed") /\ UNCHANGED phase
     \/ dir.backup # "absent" /\ NpmGo("unplace") /\ NpmPhase("rolling-back")
  /\ UNCHANGED dir /\ NpmKeeps

\* rollbackNpmRelease: with no backup the target must still be the old runtime.
NpmRollback ==
  /\ helper = "rollback"
  /\ \/ phase = "rolled-back" /\ NpmGo("startPrevious") /\ UNCHANGED phase
     \/ phase # "rolled-back" /\ dir.backup = "absent" /\ dir.target = "old"
        /\ NpmGo("startPrevious") /\ NpmPhase("rolled-back")
     \/ phase # "rolled-back" /\ dir.backup = "absent" /\ dir.target # "old"
        /\ NpmGo("failed") /\ UNCHANGED phase
     \/ phase # "rolled-back" /\ dir.backup # "absent"
        /\ NpmGo("unplace") /\ NpmPhase("rolling-back")
  /\ UNCHANGED dir /\ NpmKeeps

\* Mutant: the failed runtime is deleted instead of retained.
NpmUnplaceDeletes ==
  /\ helper = "unplace"
  /\ dir' = [dir EXCEPT !.target = "absent"]
  /\ NpmGo("restore")
  /\ UNCHANGED phase /\ NpmKeeps

\* The runtime found in the target is retained, never overwritten.
NpmUnplace ==
  /\ helper = "unplace"
  /\ \/ dir.target = "absent" /\ NpmGo("restore") /\ UNCHANGED dir
     \/ dir.target # "absent" /\ dir.failed # "absent" /\ NpmGo("failed") /\ UNCHANGED dir
     \/ dir.target # "absent" /\ dir.failed = "absent"
        /\ NpmMove("target", "failed") /\ NpmGo("restore")
  /\ UNCHANGED phase /\ NpmKeeps

\* renameSync(backup, target): fails on a directory that came back meanwhile.
NpmRestore ==
  /\ helper = "restore"
  /\ IF dir.target = "absent" THEN NpmMove("backup", "target") /\ NpmGo("restored")
                              ELSE NpmGo("failed") /\ UNCHANGED dir
  /\ UNCHANGED phase /\ NpmKeeps

NpmRestored ==
  /\ helper = "restored"
  /\ NpmPhase("rolled-back") /\ NpmGo("startPrevious")
  /\ UNCHANGED dir /\ NpmKeeps

NpmStartPrevious ==
  /\ helper = "startPrevious"
  /\ gateway' = NpmSpawned("restored")
  /\ NpmGo("watchPrevious")
  /\ UNCHANGED <<dir, phase, answered, newCode, runs, installs, npmFaults, installed, stranded>>

\* Either way the helper ends with the error of the update; the process it
\* started is left running.
NpmWatchPrevious ==
  /\ helper = "watchPrevious"
  /\ gateway["restored"].st = "exited" \/ NpmAnswers("restored", "restored", "old")
  /\ NpmGo("failed") /\ NpmIdle

NpmStep ==
  \/ NpmWaitParent \/ NpmActivate \/ NpmBackUp \/ NpmBackedUp \/ NpmPlace \/ NpmPlaced
  \/ NpmStart \/ NpmWatch \/ NpmConfirm \/ NpmKill \/ NpmKillWait \/ NpmRollback
  \/ NpmUnplace \/ NpmRestore \/ NpmRestored \/ NpmStartPrevious \/ NpmWatchPrevious

\* waitForVersion gives up after 30 seconds.
NpmDeadline ==
  /\ \/ helper = "watch" /\ gateway["updated"].st # "exited" /\ NpmGo("kill")
     \/ helper = "watchPrevious" /\ NpmGo("failed")
  /\ NpmIdle

\* A failed save of the plan; a wait for an exit that ends at its deadline (60
\* seconds for the parent, 10 for the child); the death of the helper.
NpmFault ==
  /\ npmFaults < MaxNpmFaults
  /\ npmFaults' = npmFaults + 1
  /\ \/ /\ helper \in {"activate", "backedUp", "placed", "confirm"}
        /\ NpmGo("kill") /\ UNCHANGED stranded
     \/ /\ \/ helper = "waitParent" /\ gateway["parent"].st # "exited" /\ NpmGo("failed")
           \/ helper \in {"killWait", "rollback", "restored"} /\ NpmGo("failed")
           \/ helper \notin NpmEnded /\ NpmGo("dead")
        /\ stranded' = TRUE
  /\ UNCHANGED <<dir, phase, gateway, answered, newCode, runs, installs, installed>>

\* The same command is run on the plan again once no Gateway runs.  The entry
\* file it looks for first, and the helper itself, are files of the target: with
\* no runtime there the run ends at once and starts nothing.
NpmRetry ==
  /\ helper \in NpmEnded
  /\ runs < MaxRuns
  /\ \A g \in NpmGateways : gateway[g].st \in {"none", "exited"}
  /\ runs' = runs + 1
  /\ NpmGo(IF dir.target = "absent" THEN "failed" ELSE "activate")
  /\ gateway' = [gateway EXCEPT !["updated"].st = "none", !["restored"].st = "none"]
  /\ stranded' = (dir.target = "absent")
  /\ UNCHANGED <<dir, phase, answered, newCode, installs, npmFaults, installed>>

NpmNext ==
  \/ NpmStep \/ NpmDeadline \/ NpmFault \/ NpmRetry \/ NpmInstall \/ NpmStray
  \/ \E g \in NpmGateways : NpmComeUp(g) \/ NpmServe(g) \/ NpmShutDown(g)

\* The helper is one sequential program and its waits have deadlines; a process
\* that was started gets to run.
NpmFairness ==
  /\ WF_npmVars(NpmStep \/ NpmDeadline)
  /\ \A g \in NpmGateways : WF_npmVars(NpmComeUp(g) \/ NpmServe(g) \/ NpmShutDown(g))

NpmSpec == NpmInit /\ [][NpmNext]_npmVars /\ NpmFairness

-----------------------------------------------------------------------------
NpmTypeOK ==
  /\ dir \in [NpmDirs -> NpmRuntimes]
  /\ phase \in NpmPhases
  /\ helper \in NpmHelperPlaces
  /\ gateway \in [NpmGateways -> [st : NpmGatewayStates, code : NpmRuntimes]]
  /\ answered \in NpmGateways \cup {"none"}
  /\ newCode \in {"healthy", "exits", "hangs"}
  /\ runs \in 0..MaxRuns /\ installs \in 0..MaxInstalls /\ npmFaults \in 0..MaxNpmFaults
  /\ installed \in NpmRuntimes /\ stranded \in BOOLEAN

\* The runtime the user last installed is in the target, the backup or the
\* directory of the failed runtime.
NpmRuntimeKept == installed \in {dir["target"], dir["backup"], dir["failed"]}

\* The phase a reader finds in the plan is true of the directories.
NpmPhaseIsTrue == installs = 0 =>
  /\ phase = "prepared" => dir["target"] = "old"
  /\ phase \in {"active", "verified"} => dir["target"] = "new" /\ dir["backup"] = "old"
  /\ phase = "rolled-back" => dir["target"] = "old"

\* Through every rename, save, death, retry and rollback no runtime is lost and
\* the plan tells a reader which one stands in the target.
NpmPlanHolds == NpmTypeOK /\ NpmRuntimeKept /\ NpmPhaseIsTrue

\* A release is verified only on the answer of the very process the helper
\* started from the new runtime, whoever else answers on the port.
NpmVerifiedByOwnChild ==
  [][phase # "verified" /\ phase' = "verified" =>
       answered = "updated" /\ gateway["updated"].code = "new"]_npmVars

\* Once the old process is gone the update ends with a Gateway that serves,
\* the new one or the old one: whatever the new runtime does and whichever save
\* of the activation fails; so does a later run on the plan of a helper that
\* died, from wherever that one left it.  Left out are a helper that dies or
\* cannot roll back with no such run after it, one that died between the two
\* renames (no later run finds an entry file in the target), a runtime installed
\* meanwhile, and somebody else's process that holds the lock with a runtime
\* that does not serve.
NpmEndsServing ==
  gateway["parent"].st = "exited" ~>
    \/ helper \in NpmEnded /\ \E g \in NpmGateways : gateway[g].st = "serving"
    \/ stranded \/ installs > 0
    \/ gateway["stray"].code = "new" /\ newCode # "healthy"
=============================================================================
