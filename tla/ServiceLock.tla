----------------------------- MODULE ServiceLock -----------------------------
(***************************************************************************)
(* The lock that lets one Gateway process at a time write a state root:     *)
(* src/server/process-lock.ts, with the process that takes it in            *)
(* src/server/index.ts.                                                     *)
(*                                                                         *)
(* Two files decide.  service.lock is created exclusively and filled with   *)
(* the owner's record by a second system call.  A starter that finds it     *)
(* must hold service.lock.recovery while it reads the record, looks for the *)
(* process named there and removes a dead one's file; then it tries once    *)
(* more.  Every system call is a step of its own, since the starters are    *)
(* processes of their own, and a process may die between any two of them.   *)
(*                                                                         *)
(* A file is its content: nobody's (NoFile), or what process p made of it,  *)
(* with or without the record inside.  The random tokens of the code tell   *)
(* one creation from another; a process creates each file at most once at a *)
(* time, so its identity plays their part.                                  *)
(***************************************************************************)
EXTENDS Naturals, FiniteSets

CONSTANTS Starters,      \* the processes that may try to become the Gateway
          NoFile,        \* the file does not exist
          MaxCrashes     \* bound: deaths without a clean shutdown

ASSUME ServiceLockAssumption ==
  /\ NoFile \notin Starters
  /\ NoFile \notin [by : Starters, written : BOOLEAN]
  /\ MaxCrashes \in Nat

VARIABLES
  lockFile,       \* service.lock
  recoveryFile,   \* service.lock.recovery
  starter,        \* what each process is about to do
  crashes,        \* deaths so far
  alone,          \* history: nobody else was running since p began
  undercut        \* history: an owner removed its record between a claimant's
                  \* reading it and removing the file

lockVars == <<lockFile, recoveryFile, starter, crashes, alone, undercut>>

LockContent == {NoFile} \cup [by : Starters, written : BOOLEAN]

LockPlaces == {"absent", "create", "write", "owner", "check", "remove",
               "leaving", "claim", "claimWrite", "read", "probe", "unlink",
               "unclaim", "refused", "dead", "left"}

\* A process: the call it makes next, the attempts it has begun, the record it
\* has read and whether the finally clause ends in a refusal.
LockStarter == [at : LockPlaces, attempt : 1..2, seen : Starters \cup {NoFile},
                fails : BOOLEAN]

LockRunning(p) == starter[p].at \notin {"absent", "refused", "dead", "left"}

LockInit ==
  /\ lockFile = NoFile
  /\ recoveryFile = NoFile
  /\ starter = [p \in Starters |->
                  [at |-> "absent", attempt |-> 1, seen |-> NoFile, fails |-> FALSE]]
  /\ crashes = 0
  /\ alone = [p \in Starters |-> FALSE]
  /\ undercut = FALSE

LockAt(p, place) == starter' = [starter EXCEPT ![p].at = place]

LockReadable(file) == file # NoFile /\ file.written

-----------------------------------------------------------------------------
\* The operator, a supervisor or the restart helper starts a Gateway.
LockBegin(p) ==
  /\ starter[p].at = "absent"
  /\ LockAt(p, "create")
  /\ alone' = [q \in Starters |->
                 IF q = p THEN \A r \in Starters : ~LockRunning(r)
                 ELSE alone[q] /\ ~LockRunning(q)]
  /\ UNCHANGED <<lockFile, recoveryFile, crashes, undercut>>

\* openSync(lockPath, "wx"): exclusive creation, or EEXIST.
LockCreate(p) ==
  /\ starter[p].at = "create"
  /\ \/ /\ lockFile = NoFile
        /\ lockFile' = [by |-> p, written |-> FALSE]
        /\ LockAt(p, "write")
     \/ /\ lockFile # NoFile
        /\ LockAt(p, "claim")
        /\ UNCHANGED lockFile
  /\ UNCHANGED <<recoveryFile, crashes, alone, undercut>>

\* writeFileSync(descriptor, record): the bytes go to the file that was
\* opened, whatever the path names by now.  A failed write leaves the file.
LockWrite(p) ==
  /\ starter[p].at = "write"
  /\ \/ /\ lockFile' = IF lockFile # NoFile /\ lockFile.by = p
                       THEN [lockFile EXCEPT !.written = TRUE] ELSE lockFile
        /\ LockAt(p, "owner")
        /\ UNCHANGED crashes
     \/ /\ crashes < MaxCrashes
        /\ crashes' = crashes + 1
        /\ LockAt(p, "refused")
        /\ UNCHANGED lockFile
  /\ UNCHANGED <<recoveryFile, alone, undercut>>

\* Mutant: the stale file is removed without the second claim.
LockClaimByAll(p) ==
  /\ starter[p].at = "claim"
  /\ recoveryFile' = [by |-> p, written |-> FALSE]
  /\ LockAt(p, "claimWrite")
  /\ UNCHANGED <<lockFile, crashes, alone, undercut>>

\* EEXIST: the second exclusive claim serializes the removal of a stale file.
LockClaim(p) ==
  /\ starter[p].at = "claim"
  /\ \/ /\ recoveryFile = NoFile
        /\ recoveryFile' = [by |-> p, written |-> FALSE]
        /\ LockAt(p, "claimWrite")
     \/ /\ recoveryFile # NoFile
        /\ LockAt(p, "refused")
        /\ UNCHANGED recoveryFile
  /\ UNCHANGED <<lockFile, crashes, alone, undercut>>

LockClaimWrite(p) ==
  /\ starter[p].at = "claimWrite"
  /\ recoveryFile' = IF recoveryFile # NoFile /\ recoveryFile.by = p
                     THEN [recoveryFile EXCEPT !.written = TRUE] ELSE recoveryFile
  /\ LockAt(p, "read")
  /\ UNCHANGED <<lockFile, crashes, alone, undercut>>

\* readLockRecord(lockPath): an absent, empty or partial record refuses.
LockRead(p) ==
  /\ starter[p].at = "read"
  /\ starter' = IF LockReadable(lockFile)
                THEN [starter EXCEPT ![p].at = "probe", ![p].seen = lockFile.by]
                ELSE [starter EXCEPT ![p].at = "unclaim", ![p].fails = TRUE]
  /\ UNCHANGED <<lockFile, recoveryFile, crashes, alone, undercut>>

\* isProcessRunning(existing.pid): only a definitely missing process permits
\* the removal; a live one refuses the start.
LockProbe(p) ==
  /\ starter[p].at = "probe"
  /\ starter' = IF LockRunning(starter[p].seen)
                THEN [starter EXCEPT ![p].at = "unclaim", ![p].fails = TRUE]
                ELSE [starter EXCEPT ![p].at = "unlink"]
  /\ UNCHANGED <<lockFile, recoveryFile, crashes, alone, undercut>>

\* rmSync(lockPath, { force: true }): by path, without a second look.
LockUnlink(p) ==
  /\ starter[p].at = "unlink"
  /\ lockFile' = NoFile
  /\ LockAt(p, "unclaim")
  /\ UNCHANGED <<recoveryFile, crashes, alone, undercut>>

\* Mutant: the claim is removed on the way to the second attempt only.
LockUnclaimOnRetry(p) ==
  /\ starter[p].at = "unclaim"
  /\ recoveryFile' = IF starter[p].fails THEN recoveryFile ELSE NoFile
  /\ starter' = IF starter[p].fails \/ starter[p].attempt = 2
                THEN [starter EXCEPT ![p].at = "refused"]
                ELSE [starter EXCEPT ![p].at = "create", ![p].attempt = 2,
                                     ![p].seen = NoFile]
  /\ UNCHANGED <<lockFile, crashes, alone, undercut>>

\* The finally clause removes the claim that is still its own; then the loop
\* turns once more, or the start has failed.
LockUnclaim(p) ==
  /\ starter[p].at = "unclaim"
  /\ recoveryFile' = IF LockReadable(recoveryFile) /\ recoveryFile.by = p
                     THEN NoFile ELSE recoveryFile
  /\ starter' = IF starter[p].fails \/ starter[p].attempt = 2
                THEN [starter EXCEPT ![p].at = "refused"]
                ELSE [starter EXCEPT ![p].at = "create", ![p].attempt = 2,
                                     ![p].seen = NoFile]
  /\ UNCHANGED <<lockFile, crashes, alone, undercut>>

\* A clean shutdown: release() reads the record back and removes only its own.
LockLeave(p) ==
  /\ starter[p].at = "owner"
  /\ LockAt(p, "check")
  /\ UNCHANGED <<lockFile, recoveryFile, crashes, alone, undercut>>

LockReleaseRead(p) ==
  /\ starter[p].at = "check"
  /\ LockAt(p, IF LockReadable(lockFile) /\ lockFile.by = p THEN "remove" ELSE "leaving")
  /\ UNCHANGED <<lockFile, recoveryFile, crashes, alone, undercut>>

LockReleaseRemove(p) ==
  /\ starter[p].at = "remove"
  /\ lockFile' = NoFile
  /\ LockAt(p, "leaving")
  /\ undercut' = (undercut \/ \E q \in Starters :
                     starter[q].at \in {"probe", "unlink"} /\ starter[q].seen = p)
  /\ UNCHANGED <<recoveryFile, crashes, alone>>

\* process.exit(0) after shutdown(): the process can be seen until here.
LockExit(p) ==
  /\ starter[p].at = "leaving"
  /\ LockAt(p, "left")
  /\ UNCHANGED <<lockFile, recoveryFile, crashes, alone, undercut>>

\* kill -9, power loss of the process: the files stay as they are.
LockCrash(p) ==
  /\ LockRunning(p)
  /\ crashes < MaxCrashes
  /\ crashes' = crashes + 1
  /\ LockAt(p, "dead")
  /\ UNCHANGED <<lockFile, recoveryFile, alone, undercut>>

LockStep(p) ==
  \/ LockCreate(p) \/ LockWrite(p) \/ LockClaim(p) \/ LockClaimWrite(p)
  \/ LockRead(p) \/ LockProbe(p) \/ LockUnlink(p) \/ LockUnclaim(p)
  \/ LockReleaseRead(p) \/ LockReleaseRemove(p) \/ LockExit(p)

LockNext == \E p \in Starters :
  LockBegin(p) \/ LockStep(p) \/ LockLeave(p) \/ LockCrash(p)

LockSpec == LockInit /\ [][LockNext]_lockVars

-----------------------------------------------------------------------------
LockTypeOK ==
  /\ lockFile \in LockContent
  /\ recoveryFile \in LockContent
  /\ starter \in [Starters -> LockStarter]
  /\ crashes \in 0..MaxCrashes
  /\ alone \in [Starters -> BOOLEAN]
  /\ undercut \in BOOLEAN

LockOwners == {p \in Starters : starter[p].at \in {"write", "owner", "check", "remove"}}

\* What the comment over the recovery claim says it rules out: two processes
\* past the exclusive creation, both writers of the same state.
LockExclusive == Cardinality(LockOwners) <= 1

\* The record of the owner stays in service.lock until the owner itself removes
\* it: without it the next starter would be let in.
LockOwnerOnRecord == \A p \in Starters :
  starter[p].at \in {"owner", "check", "remove"} =>
    lockFile = [by |-> p, written |-> TRUE]

\* Two Gateways never write one state root, however starts, deaths and the
\* removal of a dead owner's file interleave, as long as no owner shuts down
\* cleanly between a claimant's look at its record and the removal of the file.
LockSafe == LockTypeOK /\ (~undercut => LockExclusive /\ LockOwnerOnRecord)

\* A start that nobody else disturbs, before which no process died in the
\* middle of writing one of the two files, is not refused.
LockLoneStart == \A p \in Starters :
  starter[p].at = "refused" /\ alone[p] =>
    \/ recoveryFile # NoFile /\ recoveryFile.by # p
    \/ lockFile # NoFile /\ ~lockFile.written

\* Without a death in between nothing stays behind: when no process runs any
\* more, both files are gone and the next start finds an empty state root.
LockLeavesNothing ==
  crashes = 0 /\ (\A p \in Starters : ~LockRunning(p)) =>
    lockFile = NoFile /\ recoveryFile = NoFile

\* The lock of a dead Gateway recovers without an operator, and a Gateway that
\* was not killed leaves nothing to recover from.
LockRecovers == LockLoneStart /\ LockLeavesNothing
=============================================================================
