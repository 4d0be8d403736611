-------------------------- MODULE ServiceLockProofs --------------------------
(***************************************************************************)
(* Proofs about ServiceLock for every set of starters and any number of    *)
(* deaths.                                                                 *)
(*                                                                         *)
(* What a file contains tells where the process that made it is (FileInv), *)
(* and where a process is tells what the file contains.  The recovery file *)
(* is the claimant's own between claim and unclaim (ClaimInv).  Therefore  *)
(* a claimant that has read a record finds the same record when it removes *)
(* the file, unless the record's owner removed it first (OwnInv); and a    *)
(* start that nobody disturbs meets only what the dead left (AloneInv).    *)
(***************************************************************************)
EXTENDS ServiceLock, FiniteSetTheorems, TLAPS

LockClaiming == {"claimWrite", "read", "probe", "unlink", "unclaim"}
LockHolding == {"owner", "check", "remove"}

MadeBy(file, p) == file # NoFile /\ file.by = p

LockOver(p) == starter[p].at \in {"refused", "dead", "left"}

\* service.lock.recovery is the one claimant's until it removes it, or died.
ClaimInv(p) ==
  /\ starter[p].at \in LockClaiming =>
       MadeBy(recoveryFile, p) /\ (recoveryFile.written <=> starter[p].at # "claimWrite")
  /\ MadeBy(recoveryFile, p) => starter[p].at \in LockClaiming \cup {"dead"}

\* What the content of service.lock says of the process that made it.
FileInv(p) ==
  /\ MadeBy(lockFile, p) =>
       /\ starter[p].at \in {"write", "dead", "refused"} \cup LockHolding
       /\ starter[p].at \in LockHolding => lockFile.written
       /\ starter[p].at = "refused" => crashes > 0
  /\ starter[p].at = "dead" => crashes > 0
  /\ starter[p].at = "absent" => starter[p].attempt = 1 /\ ~starter[p].fails

\* A claimant looks at another process that was started, and removes the file of one
\* that is gone for good.
SeenInv(p) ==
  starter[p].at \in {"probe", "unlink"} =>
    /\ starter[p].seen \in Starters \ {p}
    /\ starter[starter[p].seen].at # "absent"
    /\ starter[p].at = "unlink" => LockOver(starter[p].seen)

\* While no owner removed its record under a claimant's eyes.
OwnInv(p) ==
  /\ starter[p].at = "write" => MadeBy(lockFile, p) /\ ~lockFile.written
  /\ starter[p].at \in LockHolding => MadeBy(lockFile, p) /\ lockFile.written
  /\ starter[p].at \in {"probe", "unlink"} => MadeBy(lockFile, starter[p].seen) /\ lockFile.written

\* A file that no process will complete or remove any more.
LockStuck ==
  /\ lockFile # NoFile /\ ~lockFile.written /\ LockOver(lockFile.by)
  /\ \A q \in Starters : starter[q].at \notin {"probe", "unlink", "remove"}
RecoveryStuck == recoveryFile # NoFile /\ LockOver(recoveryFile.by)

\* The path of a start that nobody disturbs.
AlonePath(p) ==
  /\ starter[p].at = "create" =>
       ~starter[p].fails /\ (starter[p].attempt = 2 => lockFile = NoFile)
  /\ starter[p].at = "write" => MadeBy(lockFile, p) /\ ~lockFile.written
  /\ starter[p].at \in {"claim"} \cup LockClaiming => starter[p].attempt = 1
  /\ starter[p].at \in {"claim", "claimWrite", "read"} => lockFile # NoFile
  /\ starter[p].at \in {"claim", "claimWrite", "read", "probe", "unlink"} => ~starter[p].fails
  /\ starter[p].at = "unclaim" =>
       IF starter[p].fails THEN lockFile # NoFile /\ ~lockFile.written ELSE lockFile = NoFile

AloneInv(p) == alone[p] =>
  /\ LockRunning(p) => \A q \in Starters \ {p} : ~LockRunning(q)
  /\ AlonePath(p)
  /\ starter[p].at = "refused" => LockStuck \/ RecoveryStuck

LockInv ==
  /\ LockTypeOK
  /\ \A p \in Starters : ClaimInv(p) /\ FileInv(p) /\ SeenInv(p)
  /\ ~undercut => \A p \in Starters : OwnInv(p)
  /\ \A p \in Starters : AloneInv(p)

-----------------------------------------------------------------------------
(* Type correctness and the frame of a step of one process.                 *)

\* A file's record, and what completing it changes.
LEMMA RecordFacts ==
  ASSUME NEW f \in [by : Starters, written : BOOLEAN]
  PROVE  /\ f.by \in Starters /\ f.written \in BOOLEAN
         /\ f = [by |-> f.by, written |-> f.written]
         /\ [f EXCEPT !.written = TRUE] = [by |-> f.by, written |-> TRUE]
<1> DEFINE g == [f EXCEPT !.written = TRUE]
<1>1. /\ f.by \in Starters /\ f.written \in BOOLEAN
      /\ f = [by |-> f.by, written |-> f.written]
  OBVIOUS
<1>2. g \in [by : Starters, written : BOOLEAN] /\ g.by = f.by /\ g.written = TRUE
  OBVIOUS
<1> HIDE DEF g
<1>3. g = [by |-> g.by, written |-> g.written]
  BY <1>2
<1> QED
  BY <1>1, <1>2, <1>3 DEF g

\* The content of a file is no record exactly when the file does not exist.
LEMMA ContentFacts ==
  /\ \A p \in Starters, b \in BOOLEAN :
       [by |-> p, written |-> b] \in LockContent /\ [by |-> p, written |-> b] # NoFile
  /\ \A f \in LockContent : f # NoFile =>
       /\ f.by \in Starters /\ f.written \in BOOLEAN
       /\ f = [by |-> f.by, written |-> f.written]
       /\ [f EXCEPT !.written = TRUE] = [by |-> f.by, written |-> TRUE]
<1>1. \A p \in Starters, b \in BOOLEAN : [by |-> p, written |-> b] \in [by : Starters, written : BOOLEAN]
  OBVIOUS
<1> QED
  BY <1>1, RecordFacts, ServiceLockAssumption DEF LockContent

\* An existing file was made by a starter.
LEMMA ContentType ==
  \A f \in LockContent : f # NoFile => f.by \in Starters /\ f.written \in BOOLEAN
  BY DEF LockContent

\* LockAt changes one starter's place and nothing else.
LEMMA AtEffect ==
  ASSUME LockTypeOK, NEW p \in Starters, NEW place \in LockPlaces, LockAt(p, place)
  PROVE  /\ starter' \in [Starters -> LockStarter]
         /\ starter'[p].at = place
         /\ starter'[p].attempt = starter[p].attempt /\ starter'[p].seen = starter[p].seen
         /\ starter'[p].fails = starter[p].fails
         /\ \A q \in Starters \ {p} : starter'[q] = starter[q]
  BY DEF LockTypeOK, LockAt, LockStarter

\* What reading the record of service.lock does.
ReadDone(p) ==
  /\ starter[p].at = "read"
  /\ UNCHANGED <<lockFile, recoveryFile, crashes, alone, undercut>>
  /\ starter' \in [Starters -> LockStarter]
  /\ \A q \in Starters \ {p} : starter'[q] = starter[q]
  /\ starter'[p].attempt = starter[p].attempt
  /\ \/ /\ LockReadable(lockFile)
        /\ starter'[p].at = "probe" /\ starter'[p].seen = lockFile.by
        /\ starter'[p].fails = starter[p].fails
     \/ /\ ~LockReadable(lockFile)
        /\ starter'[p].at = "unclaim" /\ starter'[p].fails = TRUE

\* LockRead does what ReadDone says.
LEMMA ReadEffect ==
  ASSUME LockTypeOK, NEW p \in Starters, LockRead(p)
  PROVE  ReadDone(p)
<1> DEFINE s(who) == [starter[p] EXCEPT !.at = "probe", !.seen = who]
           t == [starter[p] EXCEPT !.at = "unclaim", !.fails = TRUE]
<1>0. starter[p].at = "read" /\ UNCHANGED <<lockFile, recoveryFile, crashes, alone, undercut>>
  BY DEF LockRead
<1>1. CASE LockReadable(lockFile)
  <2>1. lockFile.by \in Starters
    BY <1>1, ContentFacts DEF LockReadable, LockTypeOK
  <2>a. [starter[p] EXCEPT !.at = "probe"] \in LockStarter
    BY DEF LockTypeOK, LockStarter, LockPlaces
  <2>2. s(lockFile.by) \in LockStarter
    BY <2>1, <2>a DEF LockStarter
  <2>3. starter' = [starter EXCEPT ![p] = s(lockFile.by)]
    BY <1>1 DEF LockRead, LockTypeOK
  <2> QED
    BY <1>0, <1>1, <2>1, <2>2, <2>3 DEF LockTypeOK, LockStarter, ReadDone
<1>2. CASE ~LockReadable(lockFile)
  <2>2. t \in LockStarter
    BY DEF LockTypeOK, LockStarter, LockPlaces
  <2>3. starter' = [starter EXCEPT ![p] = t]
    BY <1>2 DEF LockRead, LockTypeOK
  <2> QED
    BY <1>0, <1>2, <2>2, <2>3 DEF LockTypeOK, LockStarter, ReadDone
<1> QED
  BY <1>1, <1>2 DEF LockRead

\* What looking for the recorded process does.
ProbeDone(p) ==
  /\ starter[p].at = "probe"
  /\ UNCHANGED <<lockFile, recoveryFile, crashes, alone, undercut>>
  /\ starter' \in [Starters -> LockStarter]
  /\ \A q \in Starters \ {p} : starter'[q] = starter[q]
  /\ starter'[p].attempt = starter[p].attempt /\ starter'[p].seen = starter[p].seen
  /\ \/ /\ LockRunning(starter[p].seen)
        /\ starter'[p].at = "unclaim" /\ starter'[p].fails = TRUE
     \/ /\ ~LockRunning(starter[p].seen)
        /\ starter'[p].at = "unlink" /\ starter'[p].fails = starter[p].fails

\* LockProbe does what ProbeDone says.
LEMMA ProbeEffect ==
  ASSUME LockTypeOK, NEW p \in Starters, LockProbe(p)
  PROVE  ProbeDone(p)
<1> DEFINE t == [starter[p] EXCEPT !.at = "unclaim", !.fails = TRUE]
           u == [starter[p] EXCEPT !.at = "unlink"]
<1>0. starter[p].at = "probe" /\ UNCHANGED <<lockFile, recoveryFile, crashes, alone, undercut>>
  BY DEF LockProbe
<1>1. CASE LockRunning(starter[p].seen)
  <2>1. t \in LockStarter
    BY DEF LockTypeOK, LockStarter, LockPlaces
  <2>2. starter' = [starter EXCEPT ![p] = t]
    BY <1>1 DEF LockProbe, LockTypeOK
  <2> QED
    BY <1>0, <1>1, <2>1, <2>2 DEF LockTypeOK, LockStarter, ProbeDone
<1>2. CASE ~LockRunning(starter[p].seen)
  <2>1. u \in LockStarter
    BY DEF LockTypeOK, LockStarter, LockPlaces
  <2>2. starter' = [starter EXCEPT ![p] = u]
    BY <1>2 DEF LockProbe, LockTypeOK
  <2> QED
    BY <1>0, <1>2, <2>1, <2>2 DEF LockTypeOK, LockStarter, ProbeDone
<1> QED
  BY <1>1, <1>2 DEF LockProbe

\* What the finally clause does.
LEMMA UnclaimEffect ==
  ASSUME LockTypeOK, NEW p \in Starters, LockUnclaim(p)
  PROVE  /\ starter[p].at = "unclaim"
         /\ UNCHANGED <<lockFile, crashes, alone, undercut>>
         /\ recoveryFile' = IF LockReadable(recoveryFile) /\ recoveryFile.by = p
                            THEN NoFile ELSE recoveryFile
         /\ starter' \in [Starters -> LockStarter]
         /\ \A q \in Starters \ {p} : starter'[q] = starter[q]
         /\ \/ /\ starter[p].fails \/ starter[p].attempt = 2
               /\ starter'[p].at = "refused"
            \/ /\ ~starter[p].fails /\ starter[p].attempt # 2
               /\ starter'[p].at = "create" /\ ~starter'[p].fails
<1> DEFINE t == [starter[p] EXCEPT !.at = "refused"]
           u == [starter[p] EXCEPT !.at = "create", !.attempt = 2, !.seen = NoFile]
<1>0. /\ starter[p].at = "unclaim"
      /\ UNCHANGED <<lockFile, crashes, alone, undercut>>
      /\ recoveryFile' = IF LockReadable(recoveryFile) /\ recoveryFile.by = p
                         THEN NoFile ELSE recoveryFile
  BY DEF LockUnclaim
<1>1. CASE starter[p].fails \/ starter[p].attempt = 2
  <2>1. t \in LockStarter
    BY DEF LockTypeOK, LockStarter, LockPlaces
  <2>2. starter' = [starter EXCEPT ![p] = t]
    BY <1>1 DEF LockUnclaim, LockTypeOK
  <2> QED
    BY <1>0, <1>1, <2>1, <2>2 DEF LockTypeOK, LockStarter
<1>2. CASE ~(starter[p].fails \/ starter[p].attempt = 2)
  <2>c. [starter[p] EXCEPT !.at = "create"] \in LockStarter
    BY DEF LockTypeOK, LockStarter, LockPlaces
  <2>a. [starter[p] EXCEPT !.at = "create", !.attempt = 2] \in LockStarter
    BY <2>c, 2 \in 1..2 DEF LockStarter
  <2>b. NoFile \in Starters \cup {NoFile}
    OBVIOUS
  <2>1. u \in LockStarter
    BY <2>a, <2>b DEF LockStarter
  <2>2. starter' = [starter EXCEPT ![p] = u]
    BY <1>2 DEF LockUnclaim, LockTypeOK
  <2> QED
    BY <1>0, <1>2, <2>1, <2>2 DEF LockTypeOK, LockStarter
<1> QED
  BY <1>1, <1>2

\* The exclusive creation of service.lock.
LEMMA CreateEffect ==
  ASSUME LockTypeOK, NEW p \in Starters, LockCreate(p)
  PROVE  /\ starter[p].at = "create"
         /\ UNCHANGED <<recoveryFile, crashes, alone, undercut>>
         /\ \/ /\ LockAt(p, "write") /\ lockFile = NoFile
               /\ lockFile' \in LockContent /\ MadeBy(lockFile', p) /\ ~lockFile'.written
            \/ LockAt(p, "claim") /\ lockFile # NoFile /\ lockFile' = lockFile
<1> DEFINE f == [by |-> p, written |-> FALSE]
<1>1. f \in LockContent /\ f # NoFile /\ f.by = p /\ f.written = FALSE
  BY ContentFacts
<1> QED
  BY <1>1 DEF LockCreate, MadeBy

\* The creation of the second claim.
LEMMA ClaimEffect ==
  ASSUME LockTypeOK, NEW p \in Starters, LockClaim(p)
  PROVE  /\ starter[p].at = "claim"
         /\ UNCHANGED <<lockFile, crashes, alone, undercut>>
         /\ \/ /\ LockAt(p, "claimWrite") /\ recoveryFile = NoFile
               /\ recoveryFile' \in LockContent /\ MadeBy(recoveryFile', p) /\ ~recoveryFile'.written
            \/ LockAt(p, "refused") /\ recoveryFile # NoFile /\ recoveryFile' = recoveryFile
<1> DEFINE f == [by |-> p, written |-> FALSE]
<1>1. f \in LockContent /\ f # NoFile /\ f.by = p /\ f.written = FALSE
  BY ContentFacts
<1> QED
  BY <1>1 DEF LockClaim, MadeBy

\* What completing a file, if it is still its maker's, makes of it.
LEMMA FilledFile ==
  ASSUME NEW f \in LockContent, NEW p \in Starters, NEW g,
         g = IF f # NoFile /\ f.by = p THEN [f EXCEPT !.written = TRUE] ELSE f
  PROVE  /\ g \in LockContent
         /\ MadeBy(f, p) => MadeBy(g, p) /\ g.written
         /\ ~MadeBy(f, p) => g = f
<1>1. CASE MadeBy(f, p)
  <2>1. f \in [by : Starters, written : BOOLEAN] /\ f # NoFile /\ f.by = p
    BY <1>1 DEF LockContent, MadeBy
  <2>2. g = [by |-> p, written |-> TRUE]
    BY <2>1, RecordFacts
  <2>3. [by |-> p, written |-> TRUE] \in LockContent /\ [by |-> p, written |-> TRUE] # NoFile
    BY ContentFacts
  <2> QED
    BY <1>1, <2>2, <2>3 DEF MadeBy
<1>2. CASE ~MadeBy(f, p)
  BY <1>2 DEF MadeBy
<1> QED
  BY <1>1, <1>2

\* The write of service.lock's record.
LEMMA WriteEffect ==
  ASSUME LockTypeOK, NEW p \in Starters, LockWrite(p)
  PROVE  /\ starter[p].at = "write"
         /\ UNCHANGED <<recoveryFile, alone, undercut>>
         /\ lockFile' \in LockContent
         /\ \/ /\ LockAt(p, "owner") /\ crashes' = crashes
               /\ MadeBy(lockFile, p) => MadeBy(lockFile', p) /\ lockFile'.written
               /\ ~MadeBy(lockFile, p) => lockFile' = lockFile
            \/ /\ LockAt(p, "refused") /\ crashes < MaxCrashes /\ crashes' = crashes + 1
               /\ lockFile' = lockFile
<1>1. lockFile \in LockContent
  BY DEF LockTypeOK
<1>2. \A g : g = (IF lockFile # NoFile /\ lockFile.by = p
                 THEN [lockFile EXCEPT !.written = TRUE] ELSE lockFile) =>
         /\ g \in LockContent
         /\ MadeBy(lockFile, p) => MadeBy(g, p) /\ g.written
         /\ ~MadeBy(lockFile, p) => g = lockFile
  BY <1>1, FilledFile
<1> QED
  BY <1>1, <1>2 DEF LockWrite

\* The write of the second claim's record.
LEMMA ClaimWriteEffect ==
  ASSUME LockTypeOK, NEW p \in Starters, LockClaimWrite(p)
  PROVE  /\ starter[p].at = "claimWrite"
         /\ UNCHANGED <<lockFile, crashes, alone, undercut>>
         /\ LockAt(p, "read")
         /\ recoveryFile' \in LockContent
         /\ MadeBy(recoveryFile, p) => MadeBy(recoveryFile', p) /\ recoveryFile'.written
         /\ ~MadeBy(recoveryFile, p) => recoveryFile' = recoveryFile
<1>1. recoveryFile \in LockContent
  BY DEF LockTypeOK
<1>2. \A g : g = (IF recoveryFile # NoFile /\ recoveryFile.by = p
                 THEN [recoveryFile EXCEPT !.written = TRUE] ELSE recoveryFile) =>
         /\ g \in LockContent
         /\ MadeBy(recoveryFile, p) => MadeBy(g, p) /\ g.written
         /\ ~MadeBy(recoveryFile, p) => g = recoveryFile
  BY <1>1, FilledFile
<1> QED
  BY <1>1, <1>2 DEF LockClaimWrite

\* Every step keeps the types.
LEMMA StepType ==
  ASSUME LockTypeOK, LockNext
  PROVE  LockTypeOK'
<1> USE ContentFacts DEF LockTypeOK
<1> SUFFICES ASSUME NEW p \in Starters,
                    LockBegin(p) \/ LockStep(p) \/ LockLeave(p) \/ LockCrash(p)
             PROVE  LockTypeOK'
  BY DEF LockNext
<1>1. CASE LockBegin(p)
  BY <1>1, AtEffect DEF LockBegin, LockPlaces
<1>2. CASE LockCreate(p)
  BY <1>2, AtEffect, CreateEffect DEF LockPlaces
<1>3. CASE LockWrite(p)
  BY <1>3, WriteEffect, AtEffect, ServiceLockAssumption DEF LockPlaces
<1>4. CASE LockClaim(p)
  BY <1>4, AtEffect, ClaimEffect DEF LockPlaces
<1>5. CASE LockClaimWrite(p)
  BY <1>5, AtEffect, ClaimWriteEffect DEF LockPlaces
<1>6. CASE LockRead(p)
  BY <1>6, ReadEffect DEF ReadDone
<1>7. CASE LockProbe(p)
  BY <1>7, ProbeEffect DEF ProbeDone
<1>8. CASE LockUnlink(p)
  BY <1>8, AtEffect DEF LockUnlink, LockPlaces, LockContent
<1>9. CASE LockUnclaim(p)
  BY <1>9, UnclaimEffect DEF LockUnclaim, LockContent
<1>10. CASE LockReleaseRead(p)
  BY <1>10, AtEffect DEF LockReleaseRead, LockPlaces
<1>11. CASE LockReleaseRemove(p)
  BY <1>11, AtEffect DEF LockReleaseRemove, LockPlaces, LockContent
<1>12. CASE LockExit(p)
  BY <1>12, AtEffect DEF LockExit, LockPlaces
<1>13. CASE LockLeave(p)
  BY <1>13, AtEffect DEF LockLeave, LockPlaces
<1>14. CASE LockCrash(p)
  BY <1>14, AtEffect, ServiceLockAssumption DEF LockCrash, LockPlaces
<1> QED
  BY <1>1, <1>2, <1>3, <1>4, <1>5, <1>6, <1>7, <1>8, <1>9, <1>10, <1>11, <1>12, <1>13, <1>14
     DEF LockStep
-----------------------------------------------------------------------------
(* Every step keeps each part of the invariant.                             *)

\* The second claim has one maker at a time, who is between its creation and its
\* removal or died there.
LEMMA ClaimStep ==
  ASSUME LockInv, LockNext, NEW r \in Starters
  PROVE  ClaimInv(r)'
<1> USE ContentType
   DEF LockInv, LockTypeOK, LockPlaces, LockClaiming, ClaimInv, LockReadable, MadeBy
<1>1. PICK p \in Starters : LockBegin(p) \/ LockStep(p) \/ LockLeave(p) \/ LockCrash(p)
  BY DEF LockNext
<1>2. CASE LockBegin(p)
  BY <1>2, AtEffect DEF LockBegin
<1>3. CASE LockCreate(p)
  BY <1>3, AtEffect, CreateEffect
<1>4. CASE LockWrite(p)
  BY <1>4, AtEffect, WriteEffect
<1>5. CASE LockClaim(p)
  BY <1>5, AtEffect, ClaimEffect
<1>6. CASE LockClaimWrite(p)
  BY <1>6, AtEffect, ClaimWriteEffect
<1>7. CASE LockRead(p)
  <2>1. ReadDone(p)
    BY <1>7, ReadEffect
  <2> QED
    BY <2>1 DEF ReadDone
<1>8. CASE LockProbe(p)
  <2>1. ProbeDone(p)
    BY <1>8, ProbeEffect
  <2> QED
    BY <2>1 DEF ProbeDone
<1>9. CASE LockUnlink(p)
  BY <1>9, AtEffect DEF LockUnlink
<1>10. CASE LockUnclaim(p)
  BY <1>10, UnclaimEffect
<1>11. CASE LockReleaseRead(p)
  BY <1>11, AtEffect DEF LockReleaseRead
<1>12. CASE LockReleaseRemove(p)
  BY <1>12, AtEffect DEF LockReleaseRemove
<1>13. CASE LockExit(p)
  BY <1>13, AtEffect DEF LockExit
<1>14. CASE LockLeave(p)
  BY <1>14, AtEffect DEF LockLeave
<1>15. CASE LockCrash(p)
  BY <1>15, AtEffect DEF LockCrash
<1> QED
  BY <1>1, <1>2, <1>3, <1>4, <1>5, <1>6, <1>7, <1>8, <1>9, <1>10, <1>11, <1>12, <1>13, <1>14,
     <1>15 DEF LockStep

\* Who made service.lock is past the exclusive creation, or gone.
LEMMA FileStep ==
  ASSUME LockInv, LockNext, NEW r \in Starters
  PROVE  FileInv(r)'
<1> USE ContentType
   DEF LockInv, LockTypeOK, LockPlaces, LockHolding, FileInv, LockReadable, LockRunning, MadeBy
<1>1. PICK p \in Starters : LockBegin(p) \/ LockStep(p) \/ LockLeave(p) \/ LockCrash(p)
  BY DEF LockNext
<1>2. CASE LockBegin(p)
  BY <1>2, AtEffect DEF LockBegin
<1>3. CASE LockCreate(p)
  BY <1>3, AtEffect, CreateEffect
<1>4. CASE LockWrite(p)
  BY <1>4, AtEffect, WriteEffect
<1>5. CASE LockClaim(p)
  BY <1>5, AtEffect, ClaimEffect
<1>6. CASE LockClaimWrite(p)
  BY <1>6, AtEffect, ClaimWriteEffect
<1>7. CASE LockRead(p)
  <2>1. ReadDone(p)
    BY <1>7, ReadEffect
  <2> QED
    BY <2>1 DEF ReadDone
<1>8. CASE LockProbe(p)
  <2>1. ProbeDone(p)
    BY <1>8, ProbeEffect
  <2> QED
    BY <2>1 DEF ProbeDone
<1>9. CASE LockUnlink(p)
  BY <1>9, AtEffect DEF LockUnlink
<1>10. CASE LockUnclaim(p)
  BY <1>10, UnclaimEffect
<1>11. CASE LockReleaseRead(p)
  BY <1>11, AtEffect DEF LockReleaseRead
<1>12. CASE LockReleaseRemove(p)
  BY <1>12, AtEffect DEF LockReleaseRemove
<1>13. CASE LockExit(p)
  BY <1>13, AtEffect DEF LockExit
<1>14. CASE LockLeave(p)
  BY <1>14, AtEffect DEF LockLeave
<1>15. CASE LockCrash(p)
  BY <1>15, AtEffect DEF LockCrash
<1> QED
  BY <1>1, <1>2, <1>3, <1>4, <1>5, <1>6, <1>7, <1>8, <1>9, <1>10, <1>11, <1>12, <1>13, <1>14,
     <1>15 DEF LockStep

\* The record a claimant read names another process, which was running once.
LEMMA SeenStep ==
  ASSUME LockInv, LockNext, NEW r \in Starters
  PROVE  SeenInv(r)'
<1> USE ContentType
   DEF LockInv, LockTypeOK, LockPlaces, LockClaiming, SeenInv, FileInv, ClaimInv, LockReadable,
   LockRunning, LockOver, MadeBy
<1>1. PICK p \in Starters : LockBegin(p) \/ LockStep(p) \/ LockLeave(p) \/ LockCrash(p)
  BY DEF LockNext
<1>2. CASE LockBegin(p)
  BY <1>2, AtEffect DEF LockBegin
<1>3. CASE LockCreate(p)
  BY <1>3, AtEffect, CreateEffect
<1>4. CASE LockWrite(p)
  BY <1>4, AtEffect, WriteEffect
<1>5. CASE LockClaim(p)
  BY <1>5, AtEffect, ClaimEffect
<1>6. CASE LockClaimWrite(p)
  BY <1>6, AtEffect, ClaimWriteEffect
<1>7. CASE LockRead(p)
  <2>1. ReadDone(p)
    BY <1>7, ReadEffect
  <2>2. CASE LockReadable(lockFile)
    <3>2. lockFile.by \in Starters
      BY <2>2
    <3>3. starter[lockFile.by].at \in {"write", "dead", "refused", "owner", "check", "remove"}
      BY <2>2, <3>2 DEF LockHolding
    <3>1. lockFile.by \in Starters \ {p} /\ starter[lockFile.by].at # "absent"
      BY <2>1, <3>2, <3>3 DEF ReadDone
    <3> QED
      BY <2>1, <2>2, <3>1 DEF ReadDone
  <2>3. CASE ~LockReadable(lockFile)
    BY <2>1, <2>3 DEF ReadDone
  <2> QED
    BY <2>2, <2>3
<1>8. CASE LockProbe(p)
  <2>1. ProbeDone(p)
    BY <1>8, ProbeEffect
  <2> QED
    BY <2>1 DEF ProbeDone
<1>9. CASE LockUnlink(p)
  BY <1>9, AtEffect DEF LockUnlink
<1>10. CASE LockUnclaim(p)
  BY <1>10, UnclaimEffect
<1>11. CASE LockReleaseRead(p)
  BY <1>11, AtEffect DEF LockReleaseRead
<1>12. CASE LockReleaseRemove(p)
  BY <1>12, AtEffect DEF LockReleaseRemove
<1>13. CASE LockExit(p)
  BY <1>13, AtEffect DEF LockExit
<1>14. CASE LockLeave(p)
  BY <1>14, AtEffect DEF LockLeave
<1>15. CASE LockCrash(p)
  BY <1>15, AtEffect DEF LockCrash
<1> QED
  BY <1>1, <1>2, <1>3, <1>4, <1>5, <1>6, <1>7, <1>8, <1>9, <1>10, <1>11, <1>12, <1>13, <1>14,
     <1>15 DEF LockStep

\* Until an owner shuts down under a claimant's eyes, what a process believes of
\* service.lock is what the file says.
LEMMA OwnStep ==
  ASSUME LockInv, LockNext, ~undercut', NEW r \in Starters
  PROVE  OwnInv(r)'
<1> USE ContentType
   DEF LockInv, LockTypeOK, LockPlaces, LockHolding, LockClaiming, OwnInv, SeenInv, FileInv,
   ClaimInv, LockReadable, LockRunning, LockOver, MadeBy
<1>1. PICK p \in Starters : LockBegin(p) \/ LockStep(p) \/ LockLeave(p) \/ LockCrash(p)
  BY DEF LockNext
<1>2. CASE LockBegin(p)
  BY <1>2, AtEffect DEF LockBegin
<1>3. CASE LockCreate(p)
  BY <1>3, AtEffect, CreateEffect
<1>4. CASE LockWrite(p)
  BY <1>4, AtEffect, WriteEffect
<1>5. CASE LockClaim(p)
  BY <1>5, AtEffect, ClaimEffect
<1>6. CASE LockClaimWrite(p)
  BY <1>6, AtEffect, ClaimWriteEffect
<1>7. CASE LockRead(p)
  <2>1. ReadDone(p)
    BY <1>7, ReadEffect
  <2> QED
    BY <2>1 DEF ReadDone
<1>8. CASE LockProbe(p)
  <2>1. ProbeDone(p)
    BY <1>8, ProbeEffect
  <2> QED
    BY <2>1 DEF ProbeDone
<1>9. CASE LockUnlink(p)
  BY <1>9, AtEffect DEF LockUnlink
<1>10. CASE LockUnclaim(p)
  BY <1>10, UnclaimEffect
<1>11. CASE LockReleaseRead(p)
  BY <1>11, AtEffect DEF LockReleaseRead
<1>12. CASE LockReleaseRemove(p)
  BY <1>12, AtEffect DEF LockReleaseRemove
<1>13. CASE LockExit(p)
  BY <1>13, AtEffect DEF LockExit
<1>14. CASE LockLeave(p)
  BY <1>14, AtEffect DEF LockLeave
<1>15. CASE LockCrash(p)
  BY <1>15, AtEffect DEF LockCrash
<1> QED
  BY <1>1, <1>2, <1>3, <1>4, <1>5, <1>6, <1>7, <1>8, <1>9, <1>10, <1>11, <1>12, <1>13, <1>14,
     <1>15 DEF LockStep

\* A process that ended stays ended.
LEMMA OverStep ==
  ASSUME LockInv, LockNext, NEW r \in Starters, LockOver(r)
  PROVE  LockOver(r)'
<1> USE ContentType DEF LockInv, LockTypeOK, LockPlaces, LockRunning, LockOver
<1>1. PICK p \in Starters : LockBegin(p) \/ LockStep(p) \/ LockLeave(p) \/ LockCrash(p)
  BY DEF LockNext
<1>2. CASE LockBegin(p)
  BY <1>2, AtEffect DEF LockBegin
<1>3. CASE LockCreate(p)
  BY <1>3, AtEffect, CreateEffect
<1>4. CASE LockWrite(p)
  BY <1>4, AtEffect, WriteEffect
<1>5. CASE LockClaim(p)
  BY <1>5, AtEffect, ClaimEffect
<1>6. CASE LockClaimWrite(p)
  BY <1>6, AtEffect, ClaimWriteEffect
<1>7. CASE LockRead(p)
  <2>1. ReadDone(p)
    BY <1>7, ReadEffect
  <2> QED
    BY <2>1 DEF ReadDone
<1>8. CASE LockProbe(p)
  <2>1. ProbeDone(p)
    BY <1>8, ProbeEffect
  <2> QED
    BY <2>1 DEF ProbeDone
<1>9. CASE LockUnlink(p)
  BY <1>9, AtEffect DEF LockUnlink
<1>10. CASE LockUnclaim(p)
  BY <1>10, UnclaimEffect
<1>11. CASE LockReleaseRead(p)
  BY <1>11, AtEffect DEF LockReleaseRead
<1>12. CASE LockReleaseRemove(p)
  BY <1>12, AtEffect DEF LockReleaseRemove
<1>13. CASE LockExit(p)
  BY <1>13, AtEffect DEF LockExit
<1>14. CASE LockLeave(p)
  BY <1>14, AtEffect DEF LockLeave
<1>15. CASE LockCrash(p)
  BY <1>15, AtEffect DEF LockCrash
<1> QED
  BY <1>1, <1>2, <1>3, <1>4, <1>5, <1>6, <1>7, <1>8, <1>9, <1>10, <1>11, <1>12, <1>13, <1>14,
     <1>15 DEF LockStep

\* Nobody completes or removes what a dead writer left of service.lock.
LEMMA LockStuckStep ==
  ASSUME LockInv, LockNext, LockStuck
  PROVE  LockStuck'
<1> USE ContentType
   DEF LockInv, LockTypeOK, LockPlaces, LockStuck, LockOver, LockReadable, MadeBy
<1>1. PICK p \in Starters : LockBegin(p) \/ LockStep(p) \/ LockLeave(p) \/ LockCrash(p)
  BY DEF LockNext
<1>2. CASE LockBegin(p)
  BY <1>2, AtEffect DEF LockBegin
<1>3. CASE LockCreate(p)
  BY <1>3, AtEffect, CreateEffect
<1>4. CASE LockWrite(p)
  BY <1>4, AtEffect, WriteEffect
<1>5. CASE LockClaim(p)
  BY <1>5, AtEffect, ClaimEffect
<1>6. CASE LockClaimWrite(p)
  BY <1>6, AtEffect, ClaimWriteEffect
<1>7. CASE LockRead(p)
  <2>1. ReadDone(p)
    BY <1>7, ReadEffect
  <2> QED
    BY <2>1 DEF ReadDone
<1>8. CASE LockProbe(p)
  <2>1. ProbeDone(p)
    BY <1>8, ProbeEffect
  <2> QED
    BY <2>1 DEF ProbeDone
<1>9. CASE LockUnlink(p)
  BY <1>9, AtEffect DEF LockUnlink
<1>10. CASE LockUnclaim(p)
  BY <1>10, UnclaimEffect
<1>11. CASE LockReleaseRead(p)
  BY <1>11, AtEffect DEF LockReleaseRead
<1>12. CASE LockReleaseRemove(p)
  BY <1>12, AtEffect DEF LockReleaseRemove
<1>13. CASE LockExit(p)
  BY <1>13, AtEffect DEF LockExit
<1>14. CASE LockLeave(p)
  BY <1>14, AtEffect DEF LockLeave
<1>15. CASE LockCrash(p)
  BY <1>15, AtEffect DEF LockCrash
<1> QED
  BY <1>1, <1>2, <1>3, <1>4, <1>5, <1>6, <1>7, <1>8, <1>9, <1>10, <1>11, <1>12, <1>13, <1>14,
     <1>15 DEF LockStep

\* Nobody removes the second claim of a process that ended.
LEMMA RecoveryStuckStep ==
  ASSUME LockInv, LockNext, RecoveryStuck
  PROVE  RecoveryStuck'
<1> USE ContentType
   DEF LockInv, LockTypeOK, LockPlaces, RecoveryStuck, LockOver, LockReadable, MadeBy
<1>1. PICK p \in Starters : LockBegin(p) \/ LockStep(p) \/ LockLeave(p) \/ LockCrash(p)
  BY DEF LockNext
<1>2. CASE LockBegin(p)
  BY <1>2, AtEffect DEF LockBegin
<1>3. CASE LockCreate(p)
  BY <1>3, AtEffect, CreateEffect
<1>4. CASE LockWrite(p)
  BY <1>4, AtEffect, WriteEffect
<1>5. CASE LockClaim(p)
  BY <1>5, AtEffect, ClaimEffect
<1>6. CASE LockClaimWrite(p)
  BY <1>6, AtEffect, ClaimWriteEffect
<1>7. CASE LockRead(p)
  <2>1. ReadDone(p)
    BY <1>7, ReadEffect
  <2> QED
    BY <2>1 DEF ReadDone
<1>8. CASE LockProbe(p)
  <2>1. ProbeDone(p)
    BY <1>8, ProbeEffect
  <2> QED
    BY <2>1 DEF ProbeDone
<1>9. CASE LockUnlink(p)
  BY <1>9, AtEffect DEF LockUnlink
<1>10. CASE LockUnclaim(p)
  BY <1>10, UnclaimEffect
<1>11. CASE LockReleaseRead(p)
  BY <1>11, AtEffect DEF LockReleaseRead
<1>12. CASE LockReleaseRemove(p)
  BY <1>12, AtEffect DEF LockReleaseRemove
<1>13. CASE LockExit(p)
  BY <1>13, AtEffect DEF LockExit
<1>14. CASE LockLeave(p)
  BY <1>14, AtEffect DEF LockLeave
<1>15. CASE LockCrash(p)
  BY <1>15, AtEffect DEF LockCrash
<1> QED
  BY <1>1, <1>2, <1>3, <1>4, <1>5, <1>6, <1>7, <1>8, <1>9, <1>10, <1>11, <1>12, <1>13, <1>14,
     <1>15 DEF LockStep

\* The start of another process, or a step of one, leaves a lone start alone
\* only when it is over.
LEMMA AloneOther ==
  ASSUME LockInv, LockNext, NEW r \in Starters, starter'[r] = starter[r], alone[r] \/ ~alone'[r],
         LockRunning(r) => ~alone'[r]
  PROVE  AloneInv(r)'
<1>1. starter[r].at = "refused" /\ alone[r] => (LockStuck \/ RecoveryStuck)'
  BY LockStuckStep, RecoveryStuckStep DEF LockInv, AloneInv
<1> QED
  BY <1>1 DEF AloneInv, AlonePath, LockRunning, LockInv, LockTypeOK, LockStarter, LockClaiming

\* Nobody else moves while a lone start is under way.
LEMMA AloneStepOther ==
  ASSUME LockInv, LockNext, NEW p \in Starters, NEW r \in Starters \ {p},
         LockBegin(p) \/ LockStep(p) \/ LockLeave(p) \/ LockCrash(p)
  PROVE  AloneInv(r)'
<1> USE DEF LockInv, LockTypeOK, LockPlaces
<1>1. CASE LockBegin(p)
  <2>1. starter'[r] = starter[r]
    BY <1>1, AtEffect DEF LockBegin
  <2>2. alone'[r] = (alone[r] /\ ~LockRunning(r))
    BY <1>1 DEF LockBegin
  <2> QED
    BY <2>1, <2>2, AloneOther DEF LockRunning
<1>2. CASE ~LockBegin(p)
  <2>1. LockRunning(p) /\ starter'[r] = starter[r] /\ alone' = alone
    <3>1. CASE LockCreate(p)
      BY <3>1, AtEffect, CreateEffect DEF LockRunning
    <3>2. CASE LockWrite(p)
      BY <3>2, AtEffect, WriteEffect DEF LockRunning
    <3>3. CASE LockClaim(p)
      BY <3>3, AtEffect, ClaimEffect DEF LockRunning
    <3>4. CASE LockClaimWrite(p)
      BY <3>4, AtEffect, ClaimWriteEffect DEF LockRunning
    <3>5. CASE LockRead(p)
      BY <3>5, ReadEffect DEF ReadDone, LockRunning
    <3>6. CASE LockProbe(p)
      BY <3>6, ProbeEffect DEF ProbeDone, LockRunning
    <3>7. CASE LockUnlink(p)
      BY <3>7, AtEffect DEF LockRunning, LockUnlink
    <3>8. CASE LockUnclaim(p)
      BY <3>8, UnclaimEffect DEF LockRunning
    <3>9. CASE LockReleaseRead(p)
      BY <3>9, AtEffect DEF LockRunning, LockReleaseRead
    <3>10. CASE LockReleaseRemove(p)
      BY <3>10, AtEffect DEF LockRunning, LockReleaseRemove
    <3>11. CASE LockExit(p)
      BY <3>11, AtEffect DEF LockRunning, LockExit
    <3>12. CASE LockLeave(p)
      BY <3>12, AtEffect DEF LockRunning, LockLeave
    <3>13. CASE LockCrash(p)
      BY <3>13, AtEffect DEF LockRunning, LockCrash
    <3> QED
      BY <1>2, <3>1, <3>2, <3>3, <3>4, <3>5, <3>6, <3>7, <3>8, <3>9, <3>10, <3>11, <3>12,
         <3>13 DEF LockStep
  <2>2. LockRunning(r) => ~alone[r]
    BY <2>1 DEF AloneInv
  <2> QED
    BY <2>1, <2>2, AloneOther
<1> QED
  BY <1>1, <1>2

\* A lone start ends up refused only by what the dead left.
LEMMA AloneStepSelf ==
  ASSUME LockInv, LockNext, NEW p \in Starters,
         LockBegin(p) \/ LockStep(p) \/ LockLeave(p) \/ LockCrash(p)
  PROVE  AloneInv(p)'
<1> USE ContentType DEF LockInv, LockTypeOK, LockPlaces, LockClaiming, MadeBy
<1>1. CASE LockBegin(p)
  <2>1. /\ starter'[p].at = "create" /\ starter'[p].attempt = 1 /\ ~starter'[p].fails
        /\ \A q \in Starters \ {p} : starter'[q] = starter[q]
    BY <1>1, AtEffect DEF LockBegin, FileInv
  <2>2. alone'[p] => \A q \in Starters : ~LockRunning(q)
    BY <1>1 DEF LockBegin
  <2> QED
    BY <2>1, <2>2 DEF AloneInv, AlonePath, LockRunning
<1>2. CASE ~LockBegin(p)
  <2> SUFFICES ASSUME alone[p], alone' = alone, \A q \in Starters \ {p} : starter'[q] = starter[q],
                      LockRunning(p)
               PROVE  AloneInv(p)'
    <3> SUFFICES alone' = alone /\ (\A q \in Starters \ {p} : starter'[q] = starter[q]) /\ LockRunning(p)
      BY DEF AloneInv
    <3>1. CASE LockCreate(p)
      BY <3>1, AtEffect, CreateEffect DEF LockRunning
    <3>2. CASE LockWrite(p)
      BY <3>2, AtEffect, WriteEffect DEF LockRunning
    <3>3. CASE LockClaim(p)
      BY <3>3, AtEffect, ClaimEffect DEF LockRunning
    <3>4. CASE LockClaimWrite(p)
      BY <3>4, AtEffect, ClaimWriteEffect DEF LockRunning
    <3>5. CASE LockRead(p)
      BY <3>5, ReadEffect DEF ReadDone, LockRunning
    <3>6. CASE LockProbe(p)
      BY <3>6, ProbeEffect DEF ProbeDone, LockRunning
    <3>7. CASE LockUnlink(p)
      BY <3>7, AtEffect DEF LockRunning, LockUnlink
    <3>8. CASE LockUnclaim(p)
      BY <3>8, UnclaimEffect DEF LockRunning
    <3>9. CASE LockReleaseRead(p)
      BY <3>9, AtEffect DEF LockRunning, LockReleaseRead
    <3>10. CASE LockReleaseRemove(p)
      BY <3>10, AtEffect DEF LockRunning, LockReleaseRemove
    <3>11. CASE LockExit(p)
      BY <3>11, AtEffect DEF LockRunning, LockExit
    <3>12. CASE LockLeave(p)
      BY <3>12, AtEffect DEF LockRunning, LockLeave
    <3>13. CASE LockCrash(p)
      BY <3>13, AtEffect DEF LockRunning, LockCrash
    <3> QED
      BY <1>2, <3>1, <3>2, <3>3, <3>4, <3>5, <3>6, <3>7, <3>8, <3>9, <3>10, <3>11, <3>12,
         <3>13 DEF LockStep
  <2>1. \A q \in Starters \ {p} : ~LockRunning(q) /\ ~LockRunning(q)'
    BY DEF AloneInv, LockRunning
  <2>2. AlonePath(p)
    BY DEF AloneInv
  <2> SUFFICES AlonePath(p)' /\ (starter'[p].at = "refused" => (LockStuck \/ RecoveryStuck)')
    BY <2>1 DEF AloneInv
  <2>3. CASE LockCreate(p)
    <3>1. CASE LockAt(p, "write") /\ MadeBy(lockFile', p) /\ ~lockFile'.written
      BY <3>1, AtEffect DEF AlonePath
    <3>2. CASE LockAt(p, "claim") /\ lockFile # NoFile /\ lockFile' = lockFile
      BY <2>2, <2>3, <3>2, AtEffect, CreateEffect DEF AlonePath, LockStarter
    <3> QED
      BY <2>3, <3>1, <3>2, CreateEffect
  <2>4. CASE LockWrite(p)
    <3>1. CASE LockAt(p, "owner")
      BY <3>1, AtEffect DEF AlonePath
    <3>2. CASE LockAt(p, "refused") /\ lockFile' = lockFile
      <4>1. MadeBy(lockFile, p) /\ ~lockFile.written
        BY <2>2, <2>4, WriteEffect DEF AlonePath
      <4>2. starter'[p].at = "refused"
        BY <3>2, AtEffect
      <4>3. LockStuck'
        BY <2>1, <3>2, <4>1, <4>2 DEF LockStuck, LockOver, LockRunning
      <4> QED
        BY <4>2, <4>3 DEF AlonePath
    <3> QED
      BY <2>4, <3>1, <3>2, WriteEffect
  <2>5. CASE LockClaim(p)
    <3>1. CASE LockAt(p, "claimWrite")
      BY <2>2, <2>5, <3>1, AtEffect, ClaimEffect DEF AlonePath
    <3>2. CASE LockAt(p, "refused") /\ recoveryFile # NoFile /\ recoveryFile' = recoveryFile
      <4>1. recoveryFile.by \in Starters /\ ClaimInv(recoveryFile.by)
        BY <3>2
      <4>2. starter[recoveryFile.by].at \in LockClaiming \cup {"dead"}
        BY <3>2, <4>1 DEF ClaimInv
      <4>3. recoveryFile.by # p
        BY <2>5, <4>2, ClaimEffect
      <4>4. starter'[recoveryFile.by].at = "dead"
        BY <2>1, <4>1, <4>2, <4>3 DEF LockRunning
      <4>5. starter'[p].at = "refused" /\ RecoveryStuck'
        BY <3>2, <4>4, AtEffect DEF RecoveryStuck, LockOver
      <4> QED
        BY <4>5 DEF AlonePath
    <3> QED
      BY <2>5, <3>1, <3>2, ClaimEffect
  <2>6. CASE LockClaimWrite(p)
    BY <2>1, <2>2, <2>6, AtEffect, ClaimWriteEffect DEF AlonePath
  <2>7. CASE LockRead(p)
    <3>1. ReadDone(p)
      BY <2>7, ReadEffect
    <3> QED
      BY <2>1, <2>2, <3>1 DEF ReadDone, AlonePath, LockReadable, SeenInv
  <2>8. CASE LockProbe(p)
    <3>1. ProbeDone(p)
      BY <2>8, ProbeEffect
    <3> QED
      BY <2>1, <2>2, <3>1 DEF ProbeDone, AlonePath, LockReadable, SeenInv
  <2>9. CASE LockUnlink(p)
    BY <2>1, <2>2, <2>9, AtEffect DEF AlonePath, LockUnlink
  <2>10. CASE LockUnclaim(p)
    <3>1. CASE starter[p].fails
      <4>1. starter'[p].at = "refused" /\ lockFile' = lockFile /\ lockFile # NoFile /\ ~lockFile.written
        BY <2>2, <2>10, <3>1, UnclaimEffect DEF AlonePath
      <4>2. lockFile.by \in Starters /\ FileInv(lockFile.by)
        BY <4>1
      <4>3. starter[lockFile.by].at \in {"write", "dead", "refused"} \cup LockHolding
        BY <4>1, <4>2 DEF FileInv
      <4>4. lockFile.by # p
        BY <2>10, <4>3, UnclaimEffect DEF LockHolding
      <4>5. starter'[lockFile.by].at \in {"dead", "refused"}
        BY <2>1, <4>2, <4>3, <4>4 DEF LockRunning, LockHolding
      <4>6. LockStuck'
        BY <2>1, <4>1, <4>5 DEF LockStuck, LockOver, LockRunning
      <4> QED
        BY <4>1, <4>6 DEF AlonePath
    <3>2. CASE ~starter[p].fails
      BY <2>2, <2>10, <3>2, UnclaimEffect DEF AlonePath
    <3> QED
      BY <3>1, <3>2
  <2>11. CASE LockReleaseRead(p)
    BY <2>1, <2>2, <2>11, AtEffect DEF AlonePath, LockReleaseRead
  <2>12. CASE LockReleaseRemove(p)
    BY <2>1, <2>2, <2>12, AtEffect DEF AlonePath, LockReleaseRemove
  <2>13. CASE LockExit(p)
    BY <2>1, <2>2, <2>13, AtEffect DEF AlonePath, LockExit
  <2>14. CASE LockLeave(p)
    BY <2>1, <2>2, <2>14, AtEffect DEF AlonePath, LockLeave
  <2>15. CASE LockCrash(p)
    BY <2>1, <2>2, <2>15, AtEffect DEF AlonePath, LockCrash
  <2> QED
    BY <1>2, <2>3, <2>4, <2>5, <2>6, <2>7, <2>8, <2>9, <2>10, <2>11, <2>12, <2>13, <2>14,
       <2>15 DEF LockStep
<1> QED
  BY <1>1, <1>2

-----------------------------------------------------------------------------
(* The invariant and what follows from it.                                 *)

\* Nobody has started yet.
LEMMA InitHolds == LockInit => LockInv
<1> SUFFICES ASSUME LockInit PROVE LockInv
  OBVIOUS
<1> DEFINE idle == [at |-> "absent", attempt |-> 1, seen |-> NoFile, fails |-> FALSE]
<1>1. idle \in LockStarter
  BY DEF LockStarter, LockPlaces
<1>2. LockTypeOK
  <2>1. starter \in [Starters -> LockStarter] /\ alone \in [Starters -> BOOLEAN]
    BY <1>1 DEF LockInit
  <2>2. lockFile \in LockContent /\ recoveryFile \in LockContent /\ undercut \in BOOLEAN
    BY DEF LockInit, LockContent
  <2>3. crashes \in 0..MaxCrashes
    BY ServiceLockAssumption DEF LockInit
  <2> QED
    BY <2>1, <2>2, <2>3 DEF LockTypeOK
<1>3. \A p \in Starters : starter[p].at = "absent" /\ starter[p].attempt = 1 /\ ~starter[p].fails /\ ~alone[p]
  BY DEF LockInit
<1> QED
  BY <1>2, <1>3 DEF LockInit, LockInv, ClaimInv, FileInv, SeenInv, OwnInv, AloneInv,
       LockClaiming, LockHolding, MadeBy

\* The invariant is inductive.
LEMMA StepHolds == LockInv /\ [LockNext]_lockVars => LockInv'
<1> SUFFICES ASSUME LockInv, [LockNext]_lockVars PROVE LockInv'
  OBVIOUS
<1>1. CASE LockNext
  <2>1. LockTypeOK'
    BY <1>1, StepType DEF LockInv
  <2>2. \A r \in Starters : (ClaimInv(r) /\ FileInv(r) /\ SeenInv(r))'
    BY <1>1, ClaimStep, FileStep, SeenStep
  <2>3. ~undercut' => \A r \in Starters : OwnInv(r)'
    BY <1>1, OwnStep
  <2>4. \A r \in Starters : AloneInv(r)'
    <3>1. PICK p \in Starters : LockBegin(p) \/ LockStep(p) \/ LockLeave(p) \/ LockCrash(p)
      BY <1>1 DEF LockNext
    <3> QED
      BY <1>1, <3>1, AloneStepOther, AloneStepSelf
  <2> QED
    BY <2>1, <2>2, <2>3, <2>4 DEF LockInv
<1>2. CASE UNCHANGED lockVars
  BY <1>2 DEF lockVars, LockInv, LockTypeOK, ClaimInv, FileInv, SeenInv, OwnInv, AloneInv,
       AlonePath, LockStuck, RecoveryStuck, LockOver, LockRunning
<1> QED
  BY <1>1, <1>2

\* Every process past the exclusive creation is the maker of the one service.lock.
LEMMA InvSafe == LockInv => LockSafe
<1> SUFFICES ASSUME LockInv, ~undercut PROVE LockExclusive /\ LockOwnerOnRecord
  BY DEF LockInv, LockSafe
<1>1. \A p \in LockOwners : p \in Starters /\ p = lockFile.by
  BY DEF LockInv, OwnInv, LockOwners, LockHolding, MadeBy
<1>2. LockOwners \subseteq {lockFile.by}
  BY <1>1
<1>3. LockExclusive
  <2>1. IsFiniteSet({lockFile.by}) /\ Cardinality({lockFile.by}) = 1
    BY FS_Singleton
  <2>2. IsFiniteSet(LockOwners) /\ Cardinality(LockOwners) <= 1
    BY <1>2, <2>1, FS_Subset
  <2> QED
    BY <2>2 DEF LockExclusive
<1>4. LockOwnerOnRecord
  <2> SUFFICES ASSUME NEW p \in Starters, starter[p].at \in LockHolding
               PROVE  lockFile = [by |-> p, written |-> TRUE]
    BY DEF LockOwnerOnRecord, LockHolding
  <2>1. lockFile # NoFile /\ lockFile.by = p /\ lockFile.written
    BY DEF LockInv, OwnInv, MadeBy
  <2>2. lockFile = [by |-> lockFile.by, written |-> lockFile.written] /\ lockFile.written \in BOOLEAN
    BY <2>1, ContentFacts DEF LockInv, LockTypeOK
  <2>3. lockFile.written = TRUE
    BY <2>1, <2>2
  <2> QED
    BY <2>1, <2>2, <2>3
<1> QED
  BY <1>3, <1>4

\* A file left behind has a maker that died with it.
LEMMA InvRecovers == LockInv => LockRecovers
<1> SUFFICES ASSUME LockInv PROVE LockRecovers
  OBVIOUS
<1> USE DEF LockInv, LockTypeOK
<1>1. LockLoneStart
  <2> SUFFICES ASSUME NEW p \in Starters, starter[p].at = "refused", alone[p]
               PROVE  \/ recoveryFile # NoFile /\ recoveryFile.by # p
                      \/ lockFile # NoFile /\ ~lockFile.written
    BY DEF LockLoneStart
  <2>1. LockStuck \/ RecoveryStuck
    BY DEF AloneInv
  <2>2. MadeBy(recoveryFile, p) => FALSE
    BY DEF ClaimInv, LockClaiming
  <2> QED
    BY <2>1, <2>2 DEF LockStuck, RecoveryStuck, MadeBy
<1>2. LockLeavesNothing
  <2> SUFFICES ASSUME crashes = 0, \A p \in Starters : ~LockRunning(p)
               PROVE  lockFile = NoFile /\ recoveryFile = NoFile
    BY DEF LockLeavesNothing
  <2>1. \A p \in Starters : starter[p].at # "dead" /\ ~MadeBy(lockFile, p) /\ ~MadeBy(recoveryFile, p)
    BY DEF FileInv, ClaimInv, LockRunning, LockHolding, LockClaiming
  <2> QED
    BY <2>1, ContentType DEF MadeBy
<1> QED
  BY <1>1, <1>2 DEF LockRecovers

\* Who may hold service.lock, at every moment, whatever the number of starters.
THEOREM LockInvariant == LockSpec => []LockInv
  BY InitHolds, StepHolds, PTL DEF LockSpec

\* acquireGatewayProcessLock lets no two processes past its exclusive creation,
\* and the owner's record stays, until an owner shuts down under a claimant's eyes.
THEOREM LockIsExclusive == LockSpec => []LockSafe
  BY LockInvariant, InvSafe, PTL

\* A start nobody disturbs is refused only for what a death left half done; without
\* a death both files are gone when the last process is.
THEOREM LockIsRecovered == LockSpec => []LockRecovers
  BY LockInvariant, InvRecovers, PTL
==============================================================================
