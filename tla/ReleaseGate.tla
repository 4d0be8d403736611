----------------------------- MODULE ReleaseGate -----------------------------
(***************************************************************************)
(* Release admission: the gate that is closed to new work while a cutover    *)
(* replaces the Gateway.  src/server/account-manager.ts keeps it,           *)
(* release-admission.ts persists it, bridge/restart-work.ts says which work  *)
(* forbids closing it; its owners are the releases of                       *)
(* scripts/release-local.mjs (persistent, over HTTP) and the update endpoint *)
(* of http-server.ts (for the life of the process).                         *)
(*                                                                         *)
(* A release is a process of its own: its calls may be lost, answered too    *)
(* late or carried out after it gave up; it may die anywhere; an operator    *)
(* may open the gate with the id the status shows.  The Gateway dies and is  *)
(* started again by launchd while its service is loaded.  Work is a hand-off *)
(* of one message to a native owner: it blocks a cutover until its receipt   *)
(* is durable and its execution provably lives elsewhere.                    *)
(***************************************************************************)
EXTENDS Naturals, FiniteSets

CONSTANTS Releases,    \* invocations of release-local.mjs switch, one artifact each
          Work,        \* hand-offs that messages ask for
          Update,      \* the owner the update endpoint makes up
          NoOwner,
          MaxPids,     \* bound: Gateway processes
          MaxGateFaults    \* bound: lost calls, deadlines, deaths, operator's openings

ASSUME ReleaseGateAssumption ==
  /\ Update \notin Releases /\ NoOwner \notin Releases \cup {Update} /\ Update # NoOwner
  /\ "old" \notin Releases
  /\ MaxPids \in Nat \ {0} /\ MaxGateFaults \in Nat

VARIABLES
  admission,    \* release-admission.json: NoOwner when absent, or its id
  process,      \* the Gateway: its state, pid, artifact and releaseOwner
  loaded,       \* the service is loaded in launchd
  live,         \* the artifact in dist/
  work,         \* where each hand-off is
  release,      \* where each release is
  releaseLock,  \* release.lock: the release that holds it
  confirmed,    \* the pid each release has verified
  late,         \* prepare requests their release has given up on
  gateFaults,
  gateRaced,    \* history: the operator opened the gate under a release that had
                \* already made sure of it and was about to stop the process
  gateCut       \* history: hand-offs a cutover has cut off

gateVars == <<admission, process, loaded, live, work, release, releaseLock,
              confirmed, late, gateFaults, gateRaced, gateCut>>

GateArtifacts == {"old"} \cup Releases
GateWorkStates == {"idle", "handing", "observed", "done", "lost"}
GatePlaces == {"idle", "claim", "unclaim", "claimed", "dying", "dead", "placed", "verify",
               "verified", "finish", "check", "rollbackStop", "rollbackDying", "restore",
               "restored", "reopen", "cancel", "done", "failed", "unopened", "crashed"}
GateEnded == {"idle", "done", "failed", "unopened", "crashed"}

GateProcess == [st : {"down", "up", "stopping"}, pid : 0..MaxPids, code : GateArtifacts,
                owner : Releases \cup {Update, NoOwner}, persistent : BOOLEAN]

\* pid 0 stands for no process; the previous pid of a release is the one its
\* manifest names.
GateInit ==
  /\ admission = NoOwner
  /\ process = [st |-> "up", pid |-> 1, code |-> "old", owner |-> NoOwner,
                persistent |-> FALSE]
  /\ loaded = TRUE
  /\ live = "old"
  /\ work = [w \in Work |-> "idle"]
  /\ release = [r \in Releases |-> "idle"]
  /\ releaseLock = NoOwner
  /\ confirmed = [r \in Releases |-> 0]
  /\ late = {}
  /\ gateFaults = 0 /\ gateRaced = FALSE /\ gateCut = {}

-----------------------------------------------------------------------------
\* The Gateway.

\* assertRuntimeWritable: neither owned by a release nor stopping.
GateWritable == process.st = "up" /\ process.owner = NoOwner

GateWorkOnly == UNCHANGED <<admission, process, loaded, live, release, releaseLock, confirmed, late,
                            gateFaults, gateRaced, gateCut>>

\* RestartWork.run: the lease is taken with the admission, before any await.
GateWorkBegins(w) ==
  /\ work[w] = "idle"
  /\ GateWritable
  /\ work' = [work EXCEPT ![w] = "handing"]
  /\ GateWorkOnly

\* accepted(scope): the exact native receipt is durable, and the backend proves
\* that the execution is observed independently of this process.
GateWorkAccepted(w) ==
  /\ work[w] = "handing"
  /\ process.st # "down"
  /\ work' = [work EXCEPT ![w] = "observed"]
  /\ GateWorkOnly

\* finally: the lease goes with the action, delivered or refused.
GateWorkEnds(w) ==
  /\ work[w] \in {"handing", "observed"}
  /\ process.st # "down"
  /\ work' = [work EXCEPT ![w] = "done"]
  /\ GateWorkOnly

\* hasBlockingWork: a lease without a scope, or with one nobody else carries.
GateBlocking == {w \in Work : work[w] = "handing"}

\* prepareRelease: repeating the own id is an acknowledgement; otherwise busy
\* work, another owner or a shutdown refuses, and checking and freezing share
\* one event-loop turn.  saveReleaseOwner creates the journal exclusively.
GatePrepared(id) == process.owner = id
GateCanPrepare(id, persist) ==
  /\ process.st = "up" /\ process.owner = NoOwner
  /\ GateBlocking = {}
  /\ persist => admission = NoOwner

GatePrepare(id, persist) ==
  /\ process' = [process EXCEPT !.owner = id, !.persistent = persist]
  /\ admission' = IF persist THEN id ELSE admission

\* cancelRelease: only the owner's id opens, the journal first.
GateCancel(id) ==
  IF process.st # "down" /\ process.owner = id
  THEN /\ process' = [process EXCEPT !.owner = NoOwner, !.persistent = FALSE]
       /\ admission' = IF process.persistent THEN NoOwner ELSE admission
  ELSE UNCHANGED <<process, admission>>

\* The process is gone: leases in memory are gone with it.  A cutover that
\* takes hand-offs with it is remembered.
GateDown(cutover) ==
  /\ process' = [process EXCEPT !.st = "down", !.owner = NoOwner, !.persistent = FALSE]
  /\ work' = [w \in Work |-> IF work[w] \in {"handing", "observed"} THEN "lost" ELSE work[w]]
  /\ gateCut' = IF cutover THEN gateCut \cup GateBlocking ELSE gateCut

\* Mutant: the constructor does not read the journal.
GateStartOpen ==
  /\ loaded /\ process.st = "down" /\ process.pid < MaxPids
  /\ process' = [st |-> "up", pid |-> process.pid + 1, code |-> live, owner |-> NoOwner,
                 persistent |-> FALSE]
  /\ UNCHANGED <<admission, loaded, live, work, release, releaseLock, confirmed, late,
                 gateFaults, gateRaced, gateCut>>

\* launchd, the restart helper or bootstrap starts the artifact in place: the
\* constructor reads the journal and starts closed if it names an owner.
GateStart ==
  /\ loaded /\ process.st = "down" /\ process.pid < MaxPids
  /\ process' = [st |-> "up", pid |-> process.pid + 1, code |-> live, owner |-> admission,
                 persistent |-> admission # NoOwner]
  /\ UNCHANGED <<admission, loaded, live, work, release, releaseLock, confirmed, late, gateFaults,
                 gateRaced, gateCut>>

\* SIGTERM of bootout or exitAfterShutdown has been handled.
GateStopped ==
  /\ process.st = "stopping"
  /\ GateDown(TRUE)
  /\ UNCHANGED <<admission, loaded, live, release, releaseLock, confirmed, late, gateFaults, gateRaced>>

GateCrash ==
  /\ process.st # "down" /\ gateFaults < MaxGateFaults
  /\ gateFaults' = gateFaults + 1
  /\ GateDown(FALSE)
  /\ UNCHANGED <<admission, loaded, live, release, releaseLock, confirmed, late, gateRaced>>

\* POST /api/update: the lease, then 250 ms later the helper is launched and the
\* process exits, or the launch fails and the lease is given back.
GateUpdatePrepare ==
  /\ GateCanPrepare(Update, FALSE)
  /\ GatePrepare(Update, FALSE)
  /\ UNCHANGED <<loaded, live, work, release, releaseLock, confirmed, late, gateFaults, gateRaced, gateCut>>

GateUpdateLaunch ==
  /\ process.st = "up" /\ process.owner = Update
  /\ \/ process' = [process EXCEPT !.st = "stopping"] /\ UNCHANGED admission
     \/ GateCancel(Update)
  /\ UNCHANGED <<loaded, live, work, release, releaseLock, confirmed, late, gateFaults, gateRaced, gateCut>>

\* A request to prepare is carried out after its release gave up on it.
GateLatePrepare(r) ==
  /\ r \in late
  /\ late' = late \ {r}
  /\ \/ GateCanPrepare(r, TRUE) /\ GatePrepare(r, TRUE)
     \/ ~GateCanPrepare(r, TRUE) /\ UNCHANGED <<process, admission>>
  /\ UNCHANGED <<loaded, live, work, release, releaseLock, confirmed, gateFaults, gateRaced,
                 gateCut>>

\* The operator reads the id in the status and opens the gate.
GateOperatorOpens ==
  /\ process.st = "up" /\ process.owner \in Releases /\ gateFaults < MaxGateFaults
  /\ gateFaults' = gateFaults + 1
  /\ GateCancel(process.owner)
  /\ gateRaced' = (gateRaced \/ \E r \in Releases : release[r] \in {"claimed", "rollbackStop"})
  /\ UNCHANGED <<loaded, live, work, release, releaseLock, confirmed, late, gateCut>>

-----------------------------------------------------------------------------
\* release-local.mjs switch.

GateTo(r, place) == release' = [release EXCEPT ![r] = place]
GateFault == gateFaults < MaxGateFaults /\ gateFaults' = gateFaults + 1
GateScriptOnly == UNCHANGED <<work, confirmed, late, gateFaults, gateRaced, gateCut>>

\* withReleaseOwnership and the preconditions: the artifact and the process are
\* still the ones the manifest was prepared against.
GateBegin(r) ==
  /\ release[r] = "idle"
  /\ releaseLock = NoOwner
  /\ live = "old" /\ process.pid = 1 /\ process.st # "down"
  /\ releaseLock' = r
  /\ GateTo(r, "claim")
  /\ UNCHANGED <<admission, process, loaded, live>> /\ GateScriptOnly

GateEnd(r, place) ==
  /\ GateTo(r, place)
  /\ releaseLock' = IF releaseLock = r THEN NoOwner ELSE releaseLock

\* claimRuntimeRelease: prepare is answered for the expected pid, or refused;
\* a refusal and a lost answer are both followed by an exact cancellation.
GateClaim(r) ==
  /\ release[r] = "claim"
  /\ \/ /\ GateCanPrepare(r, TRUE)
        /\ GatePrepare(r, TRUE)
        /\ GateTo(r, IF process.pid = 1 THEN "claimed" ELSE "unclaim")
        /\ UNCHANGED <<late, gateFaults>>
     \/ /\ ~GateCanPrepare(r, TRUE)
        /\ GateTo(r, "unclaim")
        /\ UNCHANGED <<process, admission, late, gateFaults>>
     \/ /\ GateFault
        /\ GateCanPrepare(r, TRUE) /\ GatePrepare(r, TRUE)
        /\ GateTo(r, "unclaim") /\ UNCHANGED late
     \/ /\ GateFault
        /\ late' = late \cup {r}
        /\ GateTo(r, "unclaim") /\ UNCHANGED <<process, admission>>
  /\ UNCHANGED <<loaded, live, releaseLock, confirmed, work, gateRaced, gateCut>>

\* Mutant: a release that fails leaves the gate to its operator.
GateGiveBackNothing(r) ==
  /\ release[r] \in {"unclaim", "cancel"}
  /\ GateEnd(r, "failed")
  /\ UNCHANGED <<admission, process, loaded, live, work, confirmed, late, gateFaults,
                 gateRaced, gateCut>>

\* The cancellation after a failed claim, and the one of the finally clause:
\* posted once, to whatever process answers.
GateGiveBack(r) ==
  /\ release[r] \in {"unclaim", "cancel"}
  /\ \/ GateCancel(r) /\ UNCHANGED gateFaults
     \/ GateFault /\ UNCHANGED <<process, admission>>
  /\ GateEnd(r, "failed")
  /\ UNCHANGED <<loaded, live, work, confirmed, late, gateRaced, gateCut>>

\* The preflight fails before anything was stopped, or the service is booted
\* out: the process gets SIGTERM and launchd no longer restarts it.
GateBootout(r) ==
  /\ release[r] = "claimed"
  /\ \/ /\ GateTo(r, "cancel") /\ UNCHANGED <<loaded, process>>
     \/ /\ GateTo(r, "dying")
        /\ loaded' = FALSE
        /\ process' = IF process.st = "up" THEN [process EXCEPT !.st = "stopping"] ELSE process
  /\ UNCHANGED <<admission, live, releaseLock>> /\ GateScriptOnly

\* dead(previousPid): gone, or still there after 25 seconds.  Nobody waits for a
\* process that launchd started in its place before the service was booted out.
GateOldDead(r) ==
  /\ release[r] = "dying"
  /\ \/ (process.st = "down" \/ process.pid # 1) /\ GateTo(r, "dead") /\ UNCHANGED gateFaults
     \/ process.st # "down" /\ process.pid = 1 /\ GateFault /\ GateTo(r, "cancel")
  /\ UNCHANGED <<admission, process, loaded, live, releaseLock, work, confirmed, late, gateRaced, gateCut>>

\* dist -> dist-previous, staged -> dist; a failing second rename is undone and
\* the old artifact is started again.
GateInstall(r) ==
  /\ release[r] = "dead"
  /\ \/ live' = r /\ GateTo(r, "placed") /\ UNCHANGED gateFaults
     \/ GateFault /\ GateTo(r, "restored") /\ UNCHANGED live
  /\ UNCHANGED <<admission, process, loaded, releaseLock, work, confirmed, late, gateRaced, gateCut>>

\* bootstrap of the service, of the new artifact or of the restored one.
GateBootstrap(r) ==
  /\ release[r] \in {"placed", "restored"}
  /\ loaded' = TRUE
  /\ GateTo(r, IF release[r] = "placed" THEN "verify" ELSE "reopen")
  /\ UNCHANGED <<admission, process, live, releaseLock>> /\ GateScriptOnly

\* verify: the new artifact answers from a new process within 45 seconds, with
\* grants, permissions and bindings unchanged; or it does not.
GateVerify(r) ==
  /\ release[r] = "verify"
  /\ \/ /\ process.st = "up" /\ process.code = r /\ process.pid # 1
        /\ confirmed' = [confirmed EXCEPT ![r] = process.pid]
        /\ GateTo(r, "verified")
     \/ GateTo(r, "check") /\ UNCHANGED confirmed
  /\ UNCHANGED <<admission, process, loaded, live, releaseLock, work, late, gateFaults,
                 gateRaced, gateCut>>

\* m.status = "verified" is saved before the gate is opened: nothing after it
\* may kill the replacement.
GateCommit(r) ==
  /\ release[r] = "verified"
  /\ GateTo(r, "finish")
  /\ UNCHANGED <<admission, process, loaded, live, releaseLock>> /\ GateScriptOnly

\* finishRuntimeRelease(newPid): an open gate is success; another owner or
\* another process is not.
GateFinish(r) ==
  /\ release[r] = "finish"
  /\ \/ /\ process.st = "up" /\ process.pid = confirmed[r]
        /\ process.owner \in {NoOwner, r}
        /\ GateCancel(r) /\ GateEnd(r, "done") /\ UNCHANGED gateFaults
     \/ /\ ~ (/\ process.st = "up" /\ process.pid = confirmed[r]
             /\ process.owner \in {NoOwner, r})
        /\ GateEnd(r, "unopened") /\ UNCHANGED <<process, admission, gateFaults>>
     \/ /\ GateFault
        /\ GateEnd(r, "unopened") /\ UNCHANGED <<process, admission>>
  /\ UNCHANGED <<loaded, live, work, confirmed, late, gateRaced, gateCut>>

\* switch or verify run again on a verified manifest: verifyAndReopen.
GateAgain(r) ==
  /\ release[r] = "unopened"
  /\ releaseLock = NoOwner
  /\ process.st = "up" /\ process.code = r /\ process.pid # 1
  /\ releaseLock' = r
  /\ confirmed' = [confirmed EXCEPT ![r] = process.pid]
  /\ GateTo(r, "finish")
  /\ UNCHANGED <<admission, process, loaded, live, work, late, gateFaults, gateRaced, gateCut>>

\* Mutant: a failed readiness check is reason enough to stop the replacement.
GateCheckNothing(r) ==
  /\ release[r] = "check"
  /\ GateTo(r, "rollbackStop")
  /\ UNCHANGED <<admission, process, loaded, live, releaseLock>> /\ GateScriptOnly

\* assertRollbackAdmission: with the gate reopened by somebody else the
\* replacement is left alone.
GateCheck(r) ==
  /\ release[r] = "check"
  /\ IF admission = r THEN GateTo(r, "rollbackStop") /\ UNCHANGED releaseLock
                      ELSE GateEnd(r, "failed")
  /\ UNCHANGED <<admission, process, loaded, live>> /\ GateScriptOnly

GateRollbackStop(r) ==
  /\ release[r] = "rollbackStop"
  /\ loaded' = FALSE
  /\ process' = IF process.st = "up" THEN [process EXCEPT !.st = "stopping"] ELSE process
  /\ GateTo(r, "rollbackDying")
  /\ UNCHANGED <<admission, live, releaseLock>> /\ GateScriptOnly

\* dead(failedPid), then the artifacts are exchanged back.
GateRestore(r) ==
  /\ release[r] = "rollbackDying"
  /\ \/ process.st = "down" /\ live' = "old" /\ GateTo(r, "restored")
        /\ UNCHANGED <<gateFaults, releaseLock>>
     \/ process.st # "down" /\ GateFault /\ GateEnd(r, "failed") /\ UNCHANGED live
  /\ UNCHANGED <<admission, process, loaded, work, confirmed, late, gateRaced, gateCut>>

\* The loop of 45 seconds that opens the gate of the restored process.
GateReopen(r) ==
  /\ release[r] = "reopen"
  /\ \/ /\ process.st = "up" /\ process.owner \in {NoOwner, r} /\ process.code = "old"
        /\ GateCancel(r) /\ UNCHANGED gateFaults
     \/ GateFault /\ UNCHANGED <<process, admission>>
  /\ GateEnd(r, "failed")
  /\ UNCHANGED <<loaded, live, work, confirmed, late, gateRaced, gateCut>>

\* The script dies: release.lock stays for the operator to judge.
GateScriptDies(r) ==
  /\ release[r] \notin GateEnded
  /\ GateFault
  /\ GateTo(r, "crashed")
  /\ UNCHANGED <<admission, process, loaded, live, work, releaseLock, confirmed, late, gateRaced, gateCut>>

GateScript(r) ==
  \/ GateBegin(r) \/ GateClaim(r) \/ GateGiveBack(r) \/ GateBootout(r) \/ GateOldDead(r)
  \/ GateInstall(r) \/ GateBootstrap(r) \/ GateVerify(r) \/ GateCommit(r) \/ GateFinish(r)
  \/ GateAgain(r) \/ GateCheck(r) \/ GateRollbackStop(r) \/ GateRestore(r) \/ GateReopen(r)

GateNext ==
  \/ \E w \in Work : GateWorkBegins(w) \/ GateWorkAccepted(w) \/ GateWorkEnds(w)
  \/ GateStart \/ GateStopped \/ GateCrash \/ GateUpdatePrepare \/ GateUpdateLaunch
  \/ GateOperatorOpens
  \/ \E r \in Releases : GateScript(r) \/ GateScriptDies(r) \/ GateLatePrepare(r)

GateSpec == GateInit /\ [][GateNext]_gateVars

-----------------------------------------------------------------------------
GateTypeOK ==
  /\ admission \in Releases \cup {NoOwner}
  /\ process \in GateProcess
  /\ loaded \in BOOLEAN /\ live \in GateArtifacts
  /\ work \in [Work -> GateWorkStates]
  /\ release \in [Releases -> GatePlaces]
  /\ releaseLock \in Releases \cup {NoOwner}
  /\ confirmed \in [Releases -> 0..MaxPids]
  /\ late \subseteq Releases
  /\ gateFaults \in 0..MaxGateFaults /\ gateRaced \in BOOLEAN /\ gateCut \subseteq Work

\* While the journal names a release no new work is taken up, in whichever
\* process: the one that closed the gate, its replacement, or the one launchd
\* starts after a crash.
GateHolds ==
  [][\A w \in Work : work[w] = "idle" /\ work'[w] = "handing" => admission = NoOwner]_gateVars

\* A cutover never takes down a process in the middle of a hand-off: neither
\* the first stop, nor the rollback of a replacement that was opened meanwhile.
GateCutsNothing == GateTypeOK /\ (gateRaced \/ gateCut = {})

\* A release that ends well has its artifact in place and its gate open; one
\* that fails without a fault around it has restored the old artifact and also
\* opened its gate.
GateSettles == \A r \in Releases :
  /\ release[r] = "done" => live = r /\ admission # r /\ process.owner # r
  /\ release[r] = "failed" /\ gateFaults = 0 =>
       live # r /\ admission # r /\ process.owner # r
=============================================================================
