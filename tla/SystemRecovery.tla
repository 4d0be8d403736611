---------------------------- MODULE SystemRecovery ----------------------------
(***************************************************************************)
(* System error recovery: a failed thread is archived and unarchived, so     *)
(* that its native runtime lets go of it, and then loaded again.             *)
(*   src/server/system-error-recovery.ts   the Gateway's ledger;             *)
(*   src/peer/execution-service.ts, peer/recovery-journal.ts, peer/backend.ts *)
(*                                         the Connector on the device;       *)
(*   src/codex/app-server-runner.ts        the native calls;                 *)
(*   src/server/account-manager.ts         the gate before other inputs.     *)
(*                                                                         *)
(* One thread and one failed turn.  Before the archive the Gateway makes the *)
(* duty to restore the thread durable, the device does too; each may die,    *)
(* lose the other, or learn nothing of what became of a native call.  An     *)
(* operation runs on the device and calls back; it outlives its connection.  *)
(* Cooldowns, attempts and notices are left out: a request may come whenever *)
(* the code allows one.                                                     *)
(***************************************************************************)
EXTENDS Naturals, FiniteSets

CONSTANTS SysOps,         \* operations the device can be working on at once
          NoSysOp,
          MaxSysFaults    \* bound: lost lines, deaths, shutdowns, failed writes and calls

ASSUME SystemRecoveryAssumption == NoSysOp \notin SysOps /\ MaxSysFaults \in Nat

VARIABLES
  ledger,     \* system-error-recovery.json: the record of the failed turn
  sysRow,     \* the record the operation in flight holds in memory
  coordinator,    \* the coordinator: up, stopped (its process still answers), down
  asked,      \* the operation in flight at the Gateway (pending), or NoSysOp
  bound,      \* a conversation is bound to the thread
  prompt,     \* an input from a conversation: none, on its way, running
  device,     \* the Connector is up
  deviceRow,  \* recovery-restores.json
  sysOp,      \* the operations on the device
  thread,     \* the native thread
  sysFaults,
  slips       \* history: "reply": the answer to restored was lost; "muted": a
              \* stopped coordinator answered for a ledger it no longer writes

sysVars == <<ledger, sysRow, coordinator, asked, bound, prompt, device, deviceRow, sysOp,
             thread, sysFaults, slips>>

SysPhases == {"none", "recovering", "restoring", "recovered", "failed"}
SysRecord == [phase : SysPhases, duty : BOOLEAN, confirmed : BOOLEAN]
SysPlaces == {"free", "asked", "restore", "tell", "told", "inspect", "announce",
              "record", "guardArchive", "archive", "tellArchived", "guardResume", "resume",
              "returned", "failed"}

\* An operation: what it does next, whether it only restores, whether it may go
\* on after the thread is restored, whether it knows of the archive, whether its
\* connection is open and its source is still the current one.
SysOperation == [at : SysPlaces, restoring : BOOLEAN, onward : BOOLEAN,
                 confirmed : BOOLEAN, line : BOOLEAN, valid : BOOLEAN]

SysIdle == [at |-> "free", restoring |-> FALSE, onward |-> FALSE, confirmed |-> FALSE,
            line |-> FALSE, valid |-> FALSE]

\* The native thread: listed or archived, its runtime, whether the failed turn
\* is still the last one, and an archive call that will still be carried out.
SysThread == [listed : BOOLEAN, runtime : {"systemError", "notLoaded", "idle", "active"},
              failed : BOOLEAN, late : BOOLEAN]

SysInit ==
  /\ ledger = [phase |-> "none", duty |-> FALSE, confirmed |-> FALSE]
  /\ sysRow = ledger
  /\ coordinator = "up" /\ asked = NoSysOp /\ bound = TRUE /\ prompt = "none"
  /\ device = TRUE /\ deviceRow = "none"
  /\ sysOp = [o \in SysOps |-> SysIdle]
  /\ thread = [listed |-> TRUE, runtime |-> "systemError", failed |-> TRUE, late |-> FALSE]
  /\ sysFaults = 0 /\ slips = {}

SysFault == sysFaults < MaxSysFaults /\ sysFaults' = sysFaults + 1
SysGo(o, place) == sysOp' = [sysOp EXCEPT ![o].at = place]
SysHealthy == thread.listed /\ thread.runtime \in {"idle", "active"}

\* save: a retired coordinator does not write any more.
SysSave(record) == ledger' = IF coordinator = "up" THEN record ELSE ledger

-----------------------------------------------------------------------------
\* The Gateway.

\* guard: not stopped, not cancelled, no submission in doubt, the lease of the
\* binding the request began with.
SysGuard(o) == coordinator = "up" /\ prompt # "submitting" /\ sysOp[o].valid

\* A callback finds its handler.
SysReaches(o) == sysOp[o].line /\ asked = o /\ coordinator # "down"

\* The Connector has one connection and opens the next one when that is closed.
SysBegin(o, restoring) ==
  /\ \A p \in SysOps : ~sysOp[p].line
  /\ asked' = o
  /\ sysOp' = [p \in SysOps |->
       IF p = o THEN [at |-> "asked", restoring |-> restoring, onward |-> TRUE,
                      confirmed |-> restoring /\ ledger.confirmed, line |-> TRUE,
                      valid |-> bound]
       ELSE [sysOp[p] EXCEPT !.valid = FALSE]]

\* Mutant: a restore that was begun once is not begun again.
SysRequestRestoreOnce(o) ==
  /\ coordinator = "up" /\ asked = NoSysOp /\ device
  /\ ledger.duty /\ ledger.phase # "restoring"
  /\ sysOp[o].at = "free"
  /\ SysBegin(o, TRUE)
  /\ SysSave([ledger EXCEPT !.phase = "restoring"])
  /\ sysRow' = [ledger EXCEPT !.phase = "restoring"]
  /\ UNCHANGED <<coordinator, bound, prompt, device, deviceRow, thread, sysFaults, slips>>

\* request with a duty on record: restore, bound or not.
SysRequestRestore(o) ==
  /\ coordinator = "up" /\ asked = NoSysOp /\ device
  /\ ledger.duty
  /\ sysOp[o].at = "free"
  /\ SysBegin(o, TRUE)
  /\ SysSave([ledger EXCEPT !.phase = "restoring"])
  /\ sysRow' = [ledger EXCEPT !.phase = "restoring"]
  /\ UNCHANGED <<coordinator, bound, prompt, device, deviceRow, thread, sysFaults, slips>>

\* request of an observed failure: recover(), whose first native read may find
\* the thread well again or doing something else.
SysRequestRecover(o) ==
  /\ coordinator = "up" /\ asked = NoSysOp /\ device
  /\ ~ledger.duty /\ ledger.phase # "recovering"
  /\ bound /\ prompt # "submitting" /\ thread.failed
  /\ \A p \in SysOps : sysOp[p].at = "free"
  /\ IF thread.listed /\ thread.runtime \in {"systemError", "notLoaded"}
     THEN /\ SysBegin(o, FALSE)
          /\ SysSave([ledger EXCEPT !.phase = "recovering"])
          /\ sysRow' = [ledger EXCEPT !.phase = "recovering"]
     ELSE /\ SysSave([ledger EXCEPT !.phase = IF SysHealthy THEN "recovered" ELSE "failed"])
          /\ UNCHANGED <<sysRow, asked, sysOp>>
  /\ UNCHANGED <<coordinator, bound, prompt, device, deviceRow, thread, sysFaults, slips>>

\* reconcile: a recovery another process left behind is only looked at.
SysReconcile ==
  /\ coordinator = "up" /\ asked = NoSysOp /\ device
  /\ ~ledger.duty /\ ledger.phase = "recovering"
  /\ bound /\ prompt # "submitting"
  /\ SysSave([ledger EXCEPT !.phase = IF SysHealthy THEN "recovered" ELSE "failed"])
  /\ UNCHANGED <<sysRow, coordinator, asked, bound, prompt, device, deviceRow, sysOp, thread,
                 sysFaults, slips>>

\* The call returns or its connection is lost: an independent read decides what
\* is recorded, and a duty in memory always is.
SysFinish(o) ==
  /\ asked = o /\ coordinator # "down"
  /\ ~sysOp[o].line \/ sysOp[o].at \in {"returned", "failed"}
  /\ LET well == sysOp[o].line /\ sysOp[o].at = "returned" /\ device /\ SysHealthy
                 /\ (sysOp[o].restoring \/ SysGuard(o))
     IN SysSave([sysRow EXCEPT !.phase = IF sysRow.duty THEN "restoring"
                                         ELSE IF well THEN "recovered" ELSE "failed"])
  /\ asked' = NoSysOp
  /\ sysOp' = [sysOp EXCEPT ![o] =
                 IF @.at \in {"returned", "failed"} THEN SysIdle ELSE [@ EXCEPT !.valid = FALSE]]
  /\ UNCHANGED <<sysRow, coordinator, bound, prompt, device, deviceRow, thread, sysFaults, slips>>

\* Mutant: an input is let in while the thread has still to be restored.
SysInputUngated ==
  /\ coordinator = "up" /\ bound /\ prompt = "none"
  /\ prompt' = "submitting"
  /\ sysOp' = [o \in SysOps |-> IF o = asked THEN [sysOp[o] EXCEPT !.valid = FALSE] ELSE sysOp[o]]
  /\ UNCHANGED <<ledger, sysRow, coordinator, asked, bound, device, deviceRow, thread,
                 sysFaults, slips>>

\* The hook before every other native write: refused while a restore is due,
\* otherwise it cancels the recovery in flight.
SysInput ==
  /\ coordinator = "up" /\ bound /\ prompt = "none"
  /\ ~ledger.duty
  /\ prompt' = "submitting"
  /\ sysOp' = [o \in SysOps |-> IF o = asked THEN [sysOp[o] EXCEPT !.valid = FALSE] ELSE sysOp[o]]
  /\ UNCHANGED <<ledger, sysRow, coordinator, asked, bound, device, deviceRow, thread,
                 sysFaults, slips>>

\* The binding goes or another one comes: the leases taken before are void.
SysRebind ==
  /\ bound' = ~bound
  /\ sysOp' = [o \in SysOps |-> [sysOp[o] EXCEPT !.valid = FALSE]]
  /\ UNCHANGED <<ledger, sysRow, coordinator, asked, prompt, device, deviceRow, thread,
                 sysFaults, slips>>

SysStop ==
  /\ coordinator = "up" /\ SysFault
  /\ coordinator' = "stopped"
  /\ UNCHANGED <<ledger, sysRow, asked, bound, prompt, device, deviceRow, sysOp, thread, slips>>

SysGatewayDown ==
  /\ \/ coordinator = "stopped" /\ UNCHANGED sysFaults
     \/ coordinator = "up" /\ SysFault
  /\ coordinator' = "down" /\ asked' = NoSysOp
  /\ UNCHANGED <<ledger, sysRow, bound, prompt, device, deviceRow, sysOp, thread, slips>>

SysGatewayUp ==
  /\ coordinator = "down" /\ coordinator' = "up"
  /\ UNCHANGED <<ledger, sysRow, asked, bound, prompt, device, deviceRow, sysOp, thread,
                 sysFaults, slips>>

-----------------------------------------------------------------------------
\* The device.  Every step of an operation is taken while the Connector is up.

SysOnly(o) == UNCHANGED <<coordinator, asked, bound, prompt, device>>
SysOpOnly(o) == SysOnly(o) /\ UNCHANGED <<ledger, sysRow, deviceRow, thread, sysFaults, slips>>

\* Before a native write the origin is asked whether it still stands: the first
\* time at the door, for a restore as for anything else.
SysAsk(o) ==
  /\ device /\ sysOp[o].at = "asked"
  /\ SysGo(o, IF ~SysReaches(o) \/ ~SysGuard(o) THEN "failed"
              ELSE IF ~sysOp[o].restoring THEN "inspect"
              ELSE IF deviceRow = "restored" THEN "tell" ELSE "restore")
  /\ SysOpOnly(o)

\* recoverSystemError reads the thread twice and its queue before it touches it.
\* A restored thread is only loaded again, never archived.
SysInspect(o) ==
  /\ device /\ sysOp[o].at = "inspect"
  /\ LET fit == thread.listed /\ thread.failed /\ sysOp[o].line
     IN SysGo(o, IF fit /\ thread.runtime = "notLoaded" THEN "guardResume"
                 ELSE IF fit /\ thread.runtime = "systemError" /\ ~sysOp[o].restoring
                 THEN "announce" ELSE "returned")
  /\ SysOpOnly(o)

\* beforeArchive: the guard, then the duty is saved; a failed save stops the
\* archive and stays in memory.
SysAnnounce(o) ==
  /\ device /\ sysOp[o].at = "announce"
  /\ IF SysReaches(o) /\ SysGuard(o)
     THEN /\ sysRow' = [phase |-> "restoring", duty |-> TRUE, confirmed |-> FALSE]
          /\ \/ SysSave(sysRow') /\ SysGo(o, "record") /\ UNCHANGED sysFaults
             \/ SysFault /\ SysGo(o, "failed") /\ UNCHANGED ledger
     ELSE SysGo(o, "failed") /\ UNCHANGED <<ledger, sysRow, sysFaults>>
  /\ SysOnly(o) /\ UNCHANGED <<deviceRow, thread, slips>>

\* PeerRecoveryJournal.start: a record of this failed turn is kept as it is.
SysRecordDuty(o) ==
  /\ device /\ sysOp[o].at = "record"
  /\ deviceRow' = IF sysOp[o].line /\ deviceRow = "none" THEN "started" ELSE deviceRow
  /\ SysGo(o, IF sysOp[o].line THEN "guardArchive" ELSE "failed")
  /\ SysOnly(o) /\ UNCHANGED <<ledger, sysRow, thread, sysFaults, slips>>

\* guardNativeWrite: one more question to the origin, then no await.
SysGuardArchive(o) ==
  /\ device /\ sysOp[o].at = "guardArchive"
  /\ sysOp' = [sysOp EXCEPT ![o].at = IF SysReaches(o) /\ SysGuard(o) THEN "archive"
                                      ELSE "restore",
                            ![o].onward = SysReaches(o) /\ SysGuard(o)]
  /\ SysOpOnly(o)

\* thread/archive with its deadline: done, done and not answered, or not done
\* yet.  The acknowledgement is recorded on the device first.
SysArchive(o) ==
  /\ device /\ sysOp[o].at = "archive"
  /\ \/ /\ sysOp[o].line
        /\ thread' = [thread EXCEPT !.listed = FALSE, !.runtime = "notLoaded"]
        /\ deviceRow' = IF deviceRow = "started" THEN "confirmed" ELSE deviceRow
        /\ sysOp' = [sysOp EXCEPT ![o].at = "tellArchived", ![o].confirmed = TRUE]
        /\ UNCHANGED sysFaults
     \/ /\ sysOp[o].line /\ SysFault
        /\ \/ thread' = [thread EXCEPT !.listed = FALSE, !.runtime = "notLoaded"]
           \/ thread' = [thread EXCEPT !.late = TRUE]
           \/ UNCHANGED thread
        /\ sysOp' = [sysOp EXCEPT ![o].at = "restore", ![o].onward = FALSE]
        /\ UNCHANGED deviceRow
     \/ /\ ~sysOp[o].line
        /\ sysOp' = [sysOp EXCEPT ![o].at = "restore", ![o].onward = FALSE]
        /\ UNCHANGED <<thread, deviceRow, sysFaults>>
  /\ SysOnly(o) /\ UNCHANGED <<ledger, sysRow, slips>>

\* archived(): recorded at the Gateway, if it can be.
SysTellArchived(o) ==
  /\ device /\ sysOp[o].at = "tellArchived"
  /\ IF SysReaches(o)
     THEN /\ sysRow' = [sysRow EXCEPT !.confirmed = TRUE]
          /\ SysSave(sysRow')
          /\ slips' = IF coordinator = "up" THEN slips ELSE slips \cup {"muted"}
     ELSE UNCHANGED <<ledger, sysRow, slips>>
  /\ sysOp' = [sysOp EXCEPT ![o].at = "restore", ![o].onward = SysReaches(o)]
  /\ SysOnly(o) /\ UNCHANGED <<deviceRow, thread, sysFaults>>

\* Mutant: a thread that reads as active counts as restored.
SysRestoreOnRead(o) ==
  /\ device /\ sysOp[o].at = "restore"
  /\ thread' = [thread EXCEPT !.listed = TRUE]
  /\ deviceRow' = IF deviceRow = "none" THEN "none" ELSE "restored"
  /\ SysGo(o, "tell")
  /\ SysOnly(o) /\ UNCHANGED <<ledger, sysRow, sysFaults, slips>>

\* restoreRecoveryPersistence, on every way out of the archive: an archived
\* thread is unarchived; an active one is proof only if the archive is known to
\* have been carried out.  restored() is recorded first on the device, whose
\* record is there unless it is settled,
SysRestore(o) ==
  /\ device /\ sysOp[o].at = "restore"
  /\ \/ /\ ~thread.listed \/ sysOp[o].confirmed
        /\ thread' = [thread EXCEPT !.listed = TRUE]
        /\ deviceRow' = IF deviceRow = "none" THEN "none" ELSE "restored"
        /\ SysGo(o, "tell") /\ UNCHANGED sysFaults
     \/ /\ ~thread.listed /\ SysFault
        /\ thread' \in {thread, [thread EXCEPT !.listed = TRUE]}
        /\ SysGo(o, "failed") /\ UNCHANGED deviceRow
     \/ /\ thread.listed /\ ~sysOp[o].confirmed
        /\ SysGo(o, "returned") /\ UNCHANGED <<thread, deviceRow, sysFaults>>
  /\ SysOnly(o) /\ UNCHANGED <<ledger, sysRow, slips>>

\* then at the Gateway, where the duty ends,
SysTell(o) ==
  /\ device /\ sysOp[o].at = "tell"
  /\ IF SysReaches(o)
     THEN /\ sysRow' = [phase |-> "recovering", duty |-> FALSE, confirmed |-> FALSE]
          /\ SysSave(sysRow') /\ SysGo(o, "told")
          /\ slips' = IF coordinator = "up" THEN slips ELSE slips \cup {"muted"}
     ELSE SysGo(o, "failed") /\ UNCHANGED <<ledger, sysRow, slips>>
  /\ SysOnly(o) /\ UNCHANGED <<deviceRow, thread, sysFaults>>

\* and when the answer is there the device forgets.
SysTold(o) ==
  /\ device /\ sysOp[o].at = "told"
  /\ IF sysOp[o].line
     THEN /\ deviceRow' = "none"
          /\ sysOp' = [sysOp EXCEPT ![o].at = IF sysOp[o].onward THEN "inspect"
                                              ELSE "failed",
                                    ![o].restoring = TRUE]
     ELSE SysGo(o, "failed") /\ UNCHANGED deviceRow
  /\ SysOnly(o) /\ UNCHANGED <<ledger, sysRow, thread, sysFaults, slips>>

\* thread/resume of the same identity: it does not run anything.
SysGuardResume(o) ==
  /\ device /\ sysOp[o].at = "guardResume"
  /\ SysGo(o, IF SysReaches(o) /\ SysGuard(o) THEN "resume" ELSE "failed")
  /\ SysOpOnly(o)

SysResume(o) ==
  /\ device /\ sysOp[o].at = "resume"
  /\ \/ /\ sysOp[o].line /\ thread.listed /\ thread.runtime = "notLoaded"
        /\ \E r \in {"idle", "systemError"} : thread' = [thread EXCEPT !.runtime = r]
        /\ SysGo(o, "returned")
     \/ SysGo(o, "failed") /\ UNCHANGED thread
  /\ SysOnly(o) /\ UNCHANGED <<ledger, sysRow, deviceRow, sysFaults, slips>>

\* An operation nobody waits for any more has ended.
SysForget(o) ==
  /\ sysOp[o].at \in {"returned", "failed"} /\ asked # o
  /\ sysOp' = [sysOp EXCEPT ![o] = SysIdle]
  /\ SysOpOnly(o)

\* Losing the line takes along the answer to restored.
SysUnanswered(ops) ==
  IF deviceRow # "none" /\ \E o \in ops : sysOp[o].at = "told" THEN slips \cup {"reply"}
  ELSE slips

\* The line is lost; that of a Gateway that is gone, in any case.
SysLineLost(o) ==
  /\ sysOp[o].line
  /\ IF asked = o THEN SysFault ELSE UNCHANGED sysFaults
  /\ sysOp' = [sysOp EXCEPT ![o].line = FALSE]
  /\ slips' = SysUnanswered({o})
  /\ SysOnly(o) /\ UNCHANGED <<ledger, sysRow, deviceRow, thread>>

SysDeviceDown ==
  /\ device /\ SysFault
  /\ device' = FALSE
  /\ sysOp' = [o \in SysOps |->
       IF asked = o THEN [sysOp[o] EXCEPT !.at = "failed", !.line = FALSE] ELSE SysIdle]
  /\ slips' = SysUnanswered(SysOps)
  /\ UNCHANGED <<ledger, sysRow, coordinator, asked, bound, prompt, deviceRow, thread>>

\* restorePending before the Connector offers anything: an open duty is settled
\* with the native owner, or the Connector does not start.
SysDeviceUp ==
  /\ ~device
  /\ deviceRow = "started" => ~thread.listed
  /\ device' = TRUE
  /\ IF deviceRow \in {"started", "confirmed"}
     THEN deviceRow' = "restored" /\ thread' = [thread EXCEPT !.listed = TRUE]
     ELSE UNCHANGED <<deviceRow, thread>>
  /\ UNCHANGED <<ledger, sysRow, coordinator, asked, bound, prompt, sysOp, sysFaults, slips>>

-----------------------------------------------------------------------------
\* The native owner (external).

SysNativeOnly == UNCHANGED <<ledger, sysRow, coordinator, asked, bound, device, deviceRow, sysOp,
                             sysFaults, slips>>

SysArchivedLate ==
  /\ thread.late
  /\ thread' = [thread EXCEPT !.late = FALSE, !.listed = FALSE, !.runtime = "notLoaded"]
  /\ UNCHANGED prompt /\ SysNativeOnly

SysTurnStarts ==
  /\ prompt = "submitting"
  /\ \/ prompt' = "running" /\ thread' = [thread EXCEPT !.runtime = "active", !.failed = FALSE]
     \/ prompt' = "none" /\ UNCHANGED thread
  /\ SysNativeOnly

SysTurnEnds ==
  /\ prompt = "running"
  /\ prompt' = "none" /\ thread' = [thread EXCEPT !.runtime = "idle"]
  /\ SysNativeOnly

SysDeviceStep(o) ==
  \/ SysAsk(o) \/ SysInspect(o) \/ SysAnnounce(o) \/ SysRecordDuty(o) \/ SysGuardArchive(o)
  \/ SysArchive(o) \/ SysTellArchived(o) \/ SysRestore(o) \/ SysTell(o)
  \/ SysTold(o) \/ SysGuardResume(o) \/ SysResume(o)

SysNext ==
  \/ \E o \in SysOps :
       \/ SysRequestRestore(o) \/ SysRequestRecover(o) \/ SysFinish(o)
       \/ SysDeviceStep(o) \/ SysForget(o) \/ SysLineLost(o)
  \/ SysReconcile \/ SysInput \/ SysRebind \/ SysStop \/ SysGatewayDown \/ SysGatewayUp
  \/ SysDeviceDown \/ SysDeviceUp
  \/ SysArchivedLate \/ SysTurnStarts \/ SysTurnEnds

\* The event loops of the two processes run, supervisors start them again, the
\* line of a dead process is noticed and the restore timer fires while a duty is
\* on record.  Nothing is assumed of bindings, inputs and faults.
SysFairness ==
  /\ WF_sysVars(\E o \in SysOps : SysRequestRestore(o))
  /\ WF_sysVars(\E o \in SysOps : SysFinish(o))
  /\ \A o \in SysOps : WF_sysVars(SysDeviceStep(o) \/ SysForget(o))
  /\ WF_sysVars(\E o \in SysOps : asked # o /\ SysLineLost(o))
  /\ WF_sysVars(SysGatewayUp \/ (coordinator = "stopped" /\ SysGatewayDown))
  /\ WF_sysVars(SysDeviceUp)
  /\ WF_sysVars(SysTurnStarts)

SysSpec == SysInit /\ [][SysNext]_sysVars /\ SysFairness

-----------------------------------------------------------------------------
SysTypeOK ==
  /\ ledger \in SysRecord /\ sysRow \in SysRecord
  /\ coordinator \in {"up", "stopped", "down"} /\ asked \in SysOps \cup {NoSysOp}
  /\ bound \in BOOLEAN /\ prompt \in {"none", "submitting", "running"}
  /\ device \in BOOLEAN /\ deviceRow \in {"none", "started", "confirmed", "restored"}
  /\ sysOp \in [SysOps -> SysOperation]
  /\ thread \in SysThread
  /\ sysFaults \in 0..MaxSysFaults /\ slips \subseteq {"reply", "muted"}

\* What the audit of the feature says of the ledger: the thread is unarchived and
\* its activity confirmed first, and only then the duty is struck off.
SysClearedWhenActive == ~thread.listed \/ thread.late => ledger.duty

\* A thread that recovery has archived, or may still archive, is on record in the
\* Gateway's ledger whatever process died and whatever answer was lost, as long as
\* every answer to restored has reached the device.
SysDutyKept == SysTypeOK /\ ("reply" \notin slips => SysClearedWhenActive)

\* Input and archive exclude one another: a prompt that was let in never meets a
\* thread that recovery has put away or is about to put away.
SysInputApart == prompt # "none" /\ "reply" \notin slips => thread.listed /\ ~thread.late

\* Once a binding stays, a thread that was put away is listed again; and a duty
\* with proof that it is met, in the ledger or on the device, is struck off, so
\* that the inputs it holds back go on.  Left out are a second archive over a
\* record the device should have dropped, and a stopped coordinator's answers.
SysRestoreEnds ==
  (<>[]bound) =>
    /\ ~thread.listed ~> thread.listed \/ "reply" \in slips
    /\ ledger.duty /\ (ledger.confirmed \/ deviceRow = "restored")
         ~> ~ledger.duty \/ "muted" \in slips
=============================================================================
