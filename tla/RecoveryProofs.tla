-------------------------- MODULE RecoveryProofs ----------------------------
(***************************************************************************)
(* Proofs about what a Gateway brings back after an interruption:          *)
(* SystemRecovery, for any number of operations, messages and faults, and  *)
(* CapacityRecovery, for any number of turns, attempts and faults.         *)
(*                                                                         *)
(* System error recovery.  The native thread, the device's record and the  *)
(* Gateway's ledger, on disk and in memory, are written one after the      *)
(* other and a crash, a lost answer or a failed save may come between any  *)
(* two. At most one operation has an open connection (SysOneLine), and its *)
(* place says what the records say: before the archive no duty is on       *)
(* record, during it the duty is and the archive is not confirmed          *)
(* (SysOpening, SysArchiving, SysTelling); where no duty is on record the  *)
(* thread is at home (SysRecords), and an archive nobody knows the outcome *)
(* of is confirmed by nobody (SysLate).  None of it holds once the device  *)
(* missed the answer to restored ("reply" in slips), so the properties     *)
(* speak of the other behaviours.                                          *)
(*                                                                         *)
(* Capacity recovery.  One record, of which a restart may read an older    *)
(* copy, must answer for everything that was sent: CapRecordOK is what any *)
(* record, in memory or in the file, says of the thread.  It knows every   *)
(* turn that was resumed (CapSentOK), what may still be applied or was     *)
(* applied unknown to it is its own pending attempt (CapDoubtOK), and it   *)
(* counts the chain that leads to the turn it resumes next (CapCountOK).   *)
(* Claims are written before they are sent, so the file is the record      *)
(* while an attempt is between the two (CapExecOK).  A chain is linked     *)
(* (CapLink) because a client id still in doubt when a later one was sent  *)
(* is excepted (CapOrderOK).  Steps that change the record alone have the  *)
(* lemmas CapOver, CapCarriedOn, CapReceived, CapDeferred and CapBegun,    *)
(* about what the new record says of an unchanged thread.                  *)
(***************************************************************************)
EXTENDS SystemRecovery, CapacityRecovery, TLAPS

-----------------------------------------------------------------------------
(* System error recovery: the inductive invariant.                         *)

\* At most one operation has an open connection; while one that may archive has
\* it, there is no other.
SysOneLine == \A o, p \in SysOps :
  sysOp[o].line /\ o # p => ~sysOp[p].line /\ (sysOp[o].restoring \/ sysOp[p].at = "free")

\* What an operation is, by where it is.
SysPlaced == \A o \in SysOps :
  /\ sysOp[o].at = "free" => ~sysOp[o].line /\ ~sysOp[o].confirmed /\ asked # o
  /\ sysOp[o].at \in {"announce", "record", "guardArchive", "archive"} => ~sysOp[o].restoring
  /\ ~device => sysOp[o].at \in {"free", "failed"}

\* The Gateway waits only while it runs, and its memory holds the duty on disk.
SysGateway ==
  /\ coordinator = "down" => asked = NoSysOp
  /\ coordinator = "up" /\ asked # NoSysOp /\ ledger.duty => sysRow.duty
  /\ prompt = "running" => ~thread.failed

SysShape == SysOneLine /\ SysPlaced /\ SysGateway

\* The native thread is where it was or is back, and stays there.
SysHome == thread.listed /\ ~thread.late

\* The archive nobody knows the outcome of is known to nobody.
SysLate == thread.late =>
  /\ thread.listed /\ deviceRow \in {"none", "started"}
  /\ ~ledger.confirmed /\ ~sysRow.confirmed /\ \A o \in SysOps : ~sysOp[o].confirmed

\* The device's record and the Gateway's agree.
SysRecords ==
  /\ deviceRow = "restored" => SysHome
  /\ ~ledger.duty => SysHome
  /\ ~ledger.duty => \/ deviceRow = "none"
                     \/ deviceRow = "restored" /\ \E o \in SysOps : sysOp[o].at = "told" /\ sysOp[o].line

\* The operation whose connection is open, at each place.
SysOpening(o) == sysOp[o].line /\ ~sysOp[o].restoring /\ sysOp[o].at \in {"asked", "inspect", "announce"} =>
  /\ ~ledger.duty /\ ~sysOp[o].confirmed
  /\ asked = o /\ sysOp[o].valid => prompt = "none"

SysArchiving(o) == sysOp[o].line /\ sysOp[o].at \in {"record", "guardArchive", "archive"} =>
  /\ ledger.duty /\ ~ledger.confirmed /\ ~sysRow.confirmed /\ ~sysOp[o].confirmed
  /\ SysHome /\ prompt = "none"
  /\ deviceRow = IF sysOp[o].at = "record" THEN "none" ELSE "started"

SysTelling(o) == sysOp[o].line =>
  /\ sysOp[o].at = "tellArchived" => sysOp[o].confirmed
  /\ sysOp[o].at \in {"tell", "told"} => SysHome /\ deviceRow \in {"none", "restored"}

SysSound ==
  /\ SysLate
  /\ SysRecords
  /\ \A o \in SysOps : SysOpening(o) /\ SysArchiving(o) /\ SysTelling(o)
  /\ prompt # "none" => SysHome

SysInv == SysTypeOK /\ SysShape /\ ("reply" \notin slips => SysSound)

-----------------------------------------------------------------------------
(* The effects of the operators the actions are made of.                    *)

LEMMA PhasedRecord ==
  ASSUME NEW record \in SysRecord, NEW phase \in SysPhases
  PROVE  LET new == [record EXCEPT !.phase = phase]
         IN  new \in SysRecord /\ new.duty = record.duty /\ new.confirmed = record.confirmed
  BY DEF SysRecord

LEMMA ConfirmedRecord ==
  ASSUME NEW record \in SysRecord
  PROVE  LET new == [record EXCEPT !.confirmed = TRUE]
         IN  new \in SysRecord /\ new.duty = record.duty /\ new.confirmed
  BY DEF SysRecord

LEMMA SavedRecord ==
  ASSUME ledger \in SysRecord, NEW record \in SysRecord, SysSave(record)
  PROVE  /\ ledger' \in SysRecord
         /\ coordinator = "up" => ledger'.duty = record.duty /\ ledger'.confirmed = record.confirmed
         /\ coordinator # "up" => ledger'.duty = ledger.duty /\ ledger'.confirmed = ledger.confirmed
  BY DEF SysSave

LEMMA FaultCount ==
  ASSUME SysTypeOK, SysFault
  PROVE  sysFaults' \in 0..MaxSysFaults
  BY SystemRecoveryAssumption DEF SysTypeOK, SysFault

\* Operation o is at another place; what it is, otherwise, stays.
SysMoved(o, place, restoring, confirmed) ==
  /\ sysOp' \in [SysOps -> SysOperation]
  /\ sysOp'[o].at = place /\ sysOp'[o].line = sysOp[o].line /\ sysOp'[o].valid = sysOp[o].valid
  /\ sysOp'[o].restoring = restoring /\ sysOp'[o].confirmed = confirmed
  /\ \A p \in SysOps : p # o => sysOp'[p] = sysOp[p]

LEMMA GoEffect ==
  ASSUME SysTypeOK, NEW o \in SysOps, NEW place \in SysPlaces, SysGo(o, place)
  PROVE  SysMoved(o, place, sysOp[o].restoring, sysOp[o].confirmed)
  BY DEF SysTypeOK, SysGo, SysMoved, SysOperation

LEMMA OnwardEffect ==
  ASSUME SysTypeOK, NEW o \in SysOps, NEW place \in SysPlaces, NEW onward \in BOOLEAN,
         sysOp' = [sysOp EXCEPT ![o].at = place, ![o].onward = onward]
  PROVE  SysMoved(o, place, sysOp[o].restoring, sysOp[o].confirmed)
<1> DEFINE mid == [sysOp[o] EXCEPT !.at = place]
           new == [mid EXCEPT !.onward = onward]
<1>1. sysOp' = [sysOp EXCEPT ![o] = new]
  BY DEF SysTypeOK
<1>2. /\ mid \in SysOperation /\ mid.at = place /\ mid.line = sysOp[o].line
      /\ mid.valid = sysOp[o].valid /\ mid.restoring = sysOp[o].restoring
      /\ mid.confirmed = sysOp[o].confirmed
  BY DEF SysTypeOK, SysOperation
<1> HIDE DEF mid
<1>3. /\ new \in SysOperation /\ new.at = place /\ new.line = sysOp[o].line
      /\ new.valid = sysOp[o].valid /\ new.restoring = sysOp[o].restoring
      /\ new.confirmed = sysOp[o].confirmed
  BY <1>2 DEF SysOperation
<1> HIDE DEF new
<1> QED
  BY <1>1, <1>3 DEF SysTypeOK, SysMoved

LEMMA ConfirmEffect ==
  ASSUME SysTypeOK, NEW o \in SysOps, NEW place \in SysPlaces,
         sysOp' = [sysOp EXCEPT ![o].at = place, ![o].confirmed = TRUE]
  PROVE  SysMoved(o, place, sysOp[o].restoring, TRUE)
<1> DEFINE mid == [sysOp[o] EXCEPT !.at = place]
           new == [mid EXCEPT !.confirmed = TRUE]
<1>1. sysOp' = [sysOp EXCEPT ![o] = new]
  BY DEF SysTypeOK
<1>2. /\ mid \in SysOperation /\ mid.at = place /\ mid.line = sysOp[o].line
      /\ mid.valid = sysOp[o].valid /\ mid.restoring = sysOp[o].restoring
  BY DEF SysTypeOK, SysOperation
<1> HIDE DEF mid
<1>3. /\ new \in SysOperation /\ new.at = place /\ new.line = sysOp[o].line
      /\ new.valid = sysOp[o].valid /\ new.restoring = sysOp[o].restoring /\ new.confirmed
  BY <1>2 DEF SysOperation
<1> HIDE DEF new
<1> QED
  BY <1>1, <1>3 DEF SysTypeOK, SysMoved

LEMMA RestoringEffect ==
  ASSUME SysTypeOK, NEW o \in SysOps, NEW place \in SysPlaces,
         sysOp' = [sysOp EXCEPT ![o].at = place, ![o].restoring = TRUE]
  PROVE  SysMoved(o, place, TRUE, sysOp[o].confirmed)
<1> DEFINE mid == [sysOp[o] EXCEPT !.at = place]
           new == [mid EXCEPT !.restoring = TRUE]
<1>1. sysOp' = [sysOp EXCEPT ![o] = new]
  BY DEF SysTypeOK
<1>2. /\ mid \in SysOperation /\ mid.at = place /\ mid.line = sysOp[o].line
      /\ mid.valid = sysOp[o].valid /\ mid.confirmed = sysOp[o].confirmed
  BY DEF SysTypeOK, SysOperation
<1> HIDE DEF mid
<1>3. /\ new \in SysOperation /\ new.at = place /\ new.line = sysOp[o].line
      /\ new.valid = sysOp[o].valid /\ new.restoring /\ new.confirmed = sysOp[o].confirmed
  BY <1>2 DEF SysOperation
<1> HIDE DEF new
<1> QED
  BY <1>1, <1>3 DEF SysTypeOK, SysMoved

\* Leases that are given up: nothing else of the operations changes.
SysVoided ==
  /\ sysOp' \in [SysOps -> SysOperation]
  /\ \A p \in SysOps :
       /\ sysOp'[p].at = sysOp[p].at /\ sysOp'[p].line = sysOp[p].line
       /\ sysOp'[p].restoring = sysOp[p].restoring /\ sysOp'[p].confirmed = sysOp[p].confirmed
       /\ sysOp'[p].valid => sysOp[p].valid

\* Operation o has ended or was given up: it knows nothing any more.
SysEnded(o) ==
  /\ sysOp' \in [SysOps -> SysOperation]
  /\ sysOp'[o].at = "free" /\ ~sysOp'[o].line /\ ~sysOp'[o].confirmed
  /\ \A p \in SysOps : p # o => sysOp'[p] = sysOp[p]

LEMMA EndedEffect ==
  ASSUME SysTypeOK, NEW o \in SysOps, sysOp' = [sysOp EXCEPT ![o] = SysIdle]
  PROVE  SysEnded(o)
<1>1. /\ SysIdle \in SysOperation /\ SysIdle.at = "free" /\ ~SysIdle.line /\ ~SysIdle.confirmed
  BY DEF SysIdle, SysOperation, SysPlaces
<1> QED
  BY <1>1 DEF SysTypeOK, SysEnded

\* The request that operation o answers.
SysBegun(o, restoring) ==
  /\ \A p \in SysOps : ~sysOp[p].line
  /\ asked' = o
  /\ sysOp' \in [SysOps -> SysOperation]
  /\ sysOp'[o].at = "asked" /\ sysOp'[o].line /\ sysOp'[o].restoring = restoring
  /\ sysOp'[o].confirmed = (restoring /\ ledger.confirmed)
  /\ \A p \in SysOps : p # o =>
       /\ sysOp'[p].at = sysOp[p].at /\ sysOp'[p].line = sysOp[p].line
       /\ sysOp'[p].restoring = sysOp[p].restoring /\ sysOp'[p].confirmed = sysOp[p].confirmed
       /\ ~sysOp'[p].valid

LEMMA BegunEffect ==
  ASSUME SysTypeOK, NEW o \in SysOps, NEW restoring \in BOOLEAN, SysBegin(o, restoring)
  PROVE  SysBegun(o, restoring)
<1>1. ledger.confirmed \in BOOLEAN /\ bound \in BOOLEAN
  BY DEF SysTypeOK, SysRecord
<1>2. ASSUME NEW p \in SysOps, p # o
      PROVE  /\ sysOp'[p] \in SysOperation
             /\ sysOp'[p].at = sysOp[p].at /\ sysOp'[p].line = sysOp[p].line
             /\ sysOp'[p].restoring = sysOp[p].restoring /\ sysOp'[p].confirmed = sysOp[p].confirmed
             /\ ~sysOp'[p].valid
  <2>1. sysOp'[p] = [sysOp[p] EXCEPT !.valid = FALSE]
    BY <1>2 DEF SysBegin
  <2> QED
    BY <2>1 DEF SysTypeOK, SysOperation
<1>3. sysOp'[o] = [at |-> "asked", restoring |-> restoring, onward |-> TRUE,
                   confirmed |-> restoring /\ ledger.confirmed, line |-> TRUE, valid |-> bound]
  BY DEF SysBegin
<1>4. /\ sysOp'[o] \in SysOperation
      /\ sysOp'[o].at = "asked" /\ sysOp'[o].line /\ sysOp'[o].restoring = restoring
      /\ sysOp'[o].confirmed = (restoring /\ ledger.confirmed)
  BY <1>1, <1>3 DEF SysOperation, SysPlaces
<1>5. sysOp' \in [SysOps -> SysOperation]
  BY <1>2, <1>4 DEF SysBegin
<1> QED
  BY <1>2, <1>4, <1>5 DEF SysBegin, SysBegun

-----------------------------------------------------------------------------
(* The step, action by action.                                              *)

LEMMA SysAskStep ==
  ASSUME SysInv, NEW o \in SysOps, SysAsk(o)
  PROVE  SysInv'
<1>1. /\ sysOp[o].at = "asked" /\ device
      /\ \E place \in {"failed", "inspect", "tell", "restore"} :
           /\ SysMoved(o, place, sysOp[o].restoring, sysOp[o].confirmed)
           /\ place = "inspect" => ~sysOp[o].restoring
           /\ place = "tell" => deviceRow = "restored"
      /\ UNCHANGED <<ledger, sysRow, coordinator, asked, bound, prompt, device, deviceRow, thread, sysFaults, slips>>
  BY GoEffect DEF SysInv, SysAsk, SysOpOnly, SysOnly, SysPlaces
<1>2. SysTypeOK'
  BY <1>1 DEF SysInv, SysTypeOK, SysMoved
<1>3. SysShape'
  <2>1. SysOneLine'
    BY <1>1 DEF SysInv, SysShape, SysOneLine, SysMoved
  <2>2. SysPlaced'
    BY <1>1 DEF SysInv, SysShape, SysPlaced, SysMoved
  <2>3. SysGateway'
    BY <1>1 DEF SysInv, SysShape, SysGateway, SysMoved
  <2> QED
    BY <2>1, <2>2, <2>3 DEF SysShape
<1>4. ASSUME "reply" \notin slips'
      PROVE  SysSound'
  <2>1. "reply" \notin slips /\ SysSound /\ SysShape /\ SysTypeOK
    BY <1>1, <1>4 DEF SysInv
  <2>2. SysLate'
    BY <1>1, <2>1 DEF SysSound, SysLate, SysMoved
  <2>3. SysRecords'
    BY <1>1, <2>1 DEF SysSound, SysHome, SysRecords, SysMoved
  <2>4. \A p \in SysOps : SysOpening(p)'
    BY <1>1, <2>1 DEF SysSound, SysOpening, SysMoved
  <2>5. \A p \in SysOps : SysArchiving(p)'
    BY <1>1, <2>1 DEF SysSound, SysHome, SysArchiving, SysMoved
  <2>6. \A p \in SysOps : SysTelling(p)'
    BY <1>1, <2>1
    DEF SysSound, SysHome, SysTelling, SysMoved, SysShape, SysOneLine, SysPlaced, SysLate,
      SysRecords
  <2>7. prompt' # "none" => SysHome'
    BY <1>1, <2>1 DEF SysSound, SysHome, SysMoved
  <2> QED
    BY <2>2, <2>3, <2>4, <2>5, <2>6, <2>7 DEF SysSound
<1> QED
  BY <1>2, <1>3, <1>4 DEF SysInv

LEMMA SysInspectStep ==
  ASSUME SysInv, NEW o \in SysOps, SysInspect(o)
  PROVE  SysInv'
<1>1. /\ sysOp[o].at = "inspect" /\ device
      /\ \E place \in SysPlaces :
           /\ SysMoved(o, place, sysOp[o].restoring, sysOp[o].confirmed)
           /\ place \in {"guardResume", "announce", "returned"}
           /\ place = "announce" => ~sysOp[o].restoring
      /\ UNCHANGED <<ledger, sysRow, coordinator, asked, bound, prompt, device, deviceRow, thread, sysFaults, slips>>
  BY GoEffect DEF SysInv, SysOpOnly, SysOnly, SysPlaces, SysInspect
<1>2. SysTypeOK'
  BY <1>1 DEF SysInv, SysTypeOK, SysMoved
<1>3. SysShape'
  <2>1. SysOneLine'
    BY <1>1 DEF SysInv, SysShape, SysOneLine, SysMoved
  <2>2. SysPlaced'
    BY <1>1 DEF SysInv, SysShape, SysPlaced, SysMoved
  <2>3. SysGateway'
    BY <1>1 DEF SysInv, SysShape, SysGateway, SysMoved
  <2> QED
    BY <2>1, <2>2, <2>3 DEF SysShape
<1>4. ASSUME "reply" \notin slips'
      PROVE  SysSound'
  <2>1. "reply" \notin slips /\ SysSound /\ SysShape /\ SysTypeOK
    BY <1>1, <1>4 DEF SysInv
  <2>2. SysLate'
    BY <1>1, <2>1 DEF SysSound, SysLate, SysMoved
  <2>3. SysRecords'
    BY <1>1, <2>1 DEF SysSound, SysHome, SysRecords, SysMoved
  <2>4. \A p \in SysOps : SysOpening(p)'
    BY <1>1, <2>1 DEF SysSound, SysOpening, SysMoved
  <2>5. \A p \in SysOps : SysArchiving(p)'
    BY <1>1, <2>1 DEF SysSound, SysHome, SysArchiving, SysMoved
  <2>6. \A p \in SysOps : SysTelling(p)'
    BY <1>1, <2>1 DEF SysSound, SysHome, SysTelling, SysMoved
  <2>7. prompt' # "none" => SysHome'
    BY <1>1, <2>1 DEF SysSound, SysHome, SysMoved
  <2> QED
    BY <2>2, <2>3, <2>4, <2>5, <2>6, <2>7 DEF SysSound
<1> QED
  BY <1>2, <1>3, <1>4 DEF SysInv

LEMMA SysGuardResumeStep ==
  ASSUME SysInv, NEW o \in SysOps, SysGuardResume(o)
  PROVE  SysInv'
<1>1. /\ sysOp[o].at = "guardResume" /\ device
      /\ \E place \in SysPlaces :
           /\ SysMoved(o, place, sysOp[o].restoring, sysOp[o].confirmed)
           /\ place \in {"resume", "failed"}
      /\ UNCHANGED <<ledger, sysRow, coordinator, asked, bound, prompt, device, deviceRow, thread, sysFaults, slips>>
  BY GoEffect DEF SysInv, SysOpOnly, SysOnly, SysPlaces, SysGuardResume
<1>2. SysTypeOK'
  BY <1>1 DEF SysInv, SysTypeOK, SysMoved
<1>3. SysShape'
  <2>1. SysOneLine'
    BY <1>1 DEF SysInv, SysShape, SysOneLine, SysMoved
  <2>2. SysPlaced'
    BY <1>1 DEF SysInv, SysShape, SysPlaced, SysMoved
  <2>3. SysGateway'
    BY <1>1 DEF SysInv, SysShape, SysGateway, SysMoved
  <2> QED
    BY <2>1, <2>2, <2>3 DEF SysShape
<1>4. ASSUME "reply" \notin slips'
      PROVE  SysSound'
  <2>1. "reply" \notin slips /\ SysSound /\ SysShape /\ SysTypeOK
    BY <1>1, <1>4 DEF SysInv
  <2>2. SysLate'
    BY <1>1, <2>1 DEF SysSound, SysLate, SysMoved
  <2>3. SysRecords'
    BY <1>1, <2>1 DEF SysSound, SysHome, SysRecords, SysMoved
  <2>4. \A p \in SysOps : SysOpening(p)'
    BY <1>1, <2>1 DEF SysSound, SysOpening, SysMoved
  <2>5. \A p \in SysOps : SysArchiving(p)'
    BY <1>1, <2>1 DEF SysSound, SysHome, SysArchiving, SysMoved
  <2>6. \A p \in SysOps : SysTelling(p)'
    BY <1>1, <2>1 DEF SysSound, SysHome, SysTelling, SysMoved
  <2>7. prompt' # "none" => SysHome'
    BY <1>1, <2>1 DEF SysSound, SysHome, SysMoved
  <2> QED
    BY <2>2, <2>3, <2>4, <2>5, <2>6, <2>7 DEF SysSound
<1> QED
  BY <1>2, <1>3, <1>4 DEF SysInv

LEMMA SysResumeStep ==
  ASSUME SysInv, NEW o \in SysOps, SysResume(o)
  PROVE  SysInv'
<1>1. /\ sysOp[o].at = "resume" /\ device
      /\ \E place \in SysPlaces :
           /\ SysMoved(o, place, sysOp[o].restoring, sysOp[o].confirmed)
           /\ place \in {"returned", "failed"}
      /\ thread' \in SysThread /\ thread'.listed = thread.listed /\ thread'.late = thread.late
      /\ thread'.failed = thread.failed
      /\ UNCHANGED <<ledger, sysRow, coordinator, asked, bound, prompt, device, deviceRow, sysFaults, slips>>
  BY GoEffect DEF SysInv, SysOpOnly, SysOnly, SysPlaces, SysResume, SysTypeOK, SysThread
<1>2. SysTypeOK'
  BY <1>1 DEF SysInv, SysTypeOK, SysMoved
<1>3. SysShape'
  <2>1. SysOneLine'
    BY <1>1 DEF SysInv, SysShape, SysOneLine, SysMoved
  <2>2. SysPlaced'
    BY <1>1 DEF SysInv, SysShape, SysPlaced, SysMoved
  <2>3. SysGateway'
    BY <1>1 DEF SysInv, SysShape, SysGateway, SysMoved
  <2> QED
    BY <2>1, <2>2, <2>3 DEF SysShape
<1>4. ASSUME "reply" \notin slips'
      PROVE  SysSound'
  <2>1. "reply" \notin slips /\ SysSound /\ SysShape /\ SysTypeOK
    BY <1>1, <1>4 DEF SysInv
  <2>2. SysLate'
    BY <1>1, <2>1 DEF SysSound, SysLate, SysMoved
  <2>3. SysRecords'
    BY <1>1, <2>1 DEF SysSound, SysHome, SysRecords, SysMoved
  <2>4. \A p \in SysOps : SysOpening(p)'
    BY <1>1, <2>1 DEF SysSound, SysOpening, SysMoved
  <2>5. \A p \in SysOps : SysArchiving(p)'
    BY <1>1, <2>1 DEF SysSound, SysHome, SysArchiving, SysMoved
  <2>6. \A p \in SysOps : SysTelling(p)'
    BY <1>1, <2>1 DEF SysSound, SysHome, SysTelling, SysMoved
  <2>7. prompt' # "none" => SysHome'
    BY <1>1, <2>1 DEF SysSound, SysHome, SysMoved
  <2> QED
    BY <2>2, <2>3, <2>4, <2>5, <2>6, <2>7 DEF SysSound
<1> QED
  BY <1>2, <1>3, <1>4 DEF SysInv

LEMMA SysForgetStep ==
  ASSUME SysInv, NEW o \in SysOps, SysForget(o)
  PROVE  SysInv'
<1>1. /\ sysOp[o].at \in {"returned", "failed"} /\ asked # o
      /\ SysEnded(o)
      /\ UNCHANGED <<ledger, sysRow, coordinator, asked, bound, prompt, device, deviceRow, thread, sysFaults, slips>>
  BY EndedEffect DEF SysInv, SysOpOnly, SysOnly, SysPlaces, SysForget
<1>2. SysTypeOK'
  BY <1>1 DEF SysInv, SysTypeOK, SysEnded
<1>3. SysShape'
  <2>1. SysOneLine'
    BY <1>1 DEF SysInv, SysShape, SysOneLine, SysEnded
  <2>2. SysPlaced'
    BY <1>1 DEF SysInv, SysShape, SysPlaced, SysEnded
  <2>3. SysGateway'
    BY <1>1 DEF SysInv, SysShape, SysGateway, SysEnded
  <2> QED
    BY <2>1, <2>2, <2>3 DEF SysShape
<1>4. ASSUME "reply" \notin slips'
      PROVE  SysSound'
  <2>1. "reply" \notin slips /\ SysSound /\ SysShape /\ SysTypeOK
    BY <1>1, <1>4 DEF SysInv
  <2>2. SysLate'
    BY <1>1, <2>1 DEF SysSound, SysLate, SysEnded
  <2>3. SysRecords'
    BY <1>1, <2>1 DEF SysSound, SysHome, SysRecords, SysEnded
  <2>4. \A p \in SysOps : SysOpening(p)'
    BY <1>1, <2>1 DEF SysSound, SysOpening, SysEnded
  <2>5. \A p \in SysOps : SysArchiving(p)'
    BY <1>1, <2>1 DEF SysSound, SysHome, SysArchiving, SysEnded
  <2>6. \A p \in SysOps : SysTelling(p)'
    BY <1>1, <2>1 DEF SysSound, SysHome, SysTelling, SysEnded
  <2>7. prompt' # "none" => SysHome'
    BY <1>1, <2>1 DEF SysSound, SysHome, SysEnded
  <2> QED
    BY <2>2, <2>3, <2>4, <2>5, <2>6, <2>7 DEF SysSound
<1> QED
  BY <1>2, <1>3, <1>4 DEF SysInv

LEMMA SysGuardArchiveStep ==
  ASSUME SysInv, NEW o \in SysOps, SysGuardArchive(o)
  PROVE  SysInv'
<1>1. /\ sysOp[o].at = "guardArchive" /\ device
      /\ \E place \in SysPlaces :
           /\ SysMoved(o, place, sysOp[o].restoring, sysOp[o].confirmed)
           /\ place \in {"archive", "restore"}
           /\ place = "archive" => SysReaches(o) /\ SysGuard(o)
      /\ UNCHANGED <<ledger, sysRow, coordinator, asked, bound, prompt, device, deviceRow, thread, sysFaults, slips>>
  <2>1. (SysReaches(o) /\ SysGuard(o)) \in BOOLEAN
    BY DEF SysReaches, SysGuard, SysInv, SysTypeOK, SysOperation
  <2>2. PICK place \in {"archive", "restore"}, onward \in BOOLEAN :
          /\ sysOp' = [sysOp EXCEPT ![o].at = place, ![o].onward = onward]
          /\ place = "archive" => SysReaches(o) /\ SysGuard(o)
    BY <2>1 DEF SysGuardArchive
  <2>3. place \in SysPlaces
    BY DEF SysPlaces
  <2>4. SysMoved(o, place, sysOp[o].restoring, sysOp[o].confirmed)
    BY <2>2, <2>3, OnwardEffect DEF SysInv
  <2> QED
    BY <2>2, <2>3, <2>4 DEF SysGuardArchive, SysOpOnly, SysOnly
<1>2. SysTypeOK'
  BY <1>1 DEF SysInv, SysTypeOK, SysMoved
<1>3. SysShape'
  <2>1. SysOneLine'
    BY <1>1 DEF SysInv, SysShape, SysOneLine, SysMoved
  <2>2. SysPlaced'
    BY <1>1 DEF SysInv, SysShape, SysPlaced, SysMoved
  <2>3. SysGateway'
    BY <1>1 DEF SysInv, SysShape, SysGateway, SysMoved
  <2> QED
    BY <2>1, <2>2, <2>3 DEF SysShape
<1>4. ASSUME "reply" \notin slips'
      PROVE  SysSound'
  <2>1. "reply" \notin slips /\ SysSound /\ SysShape /\ SysTypeOK
    BY <1>1, <1>4 DEF SysInv
  <2>2. SysLate'
    BY <1>1, <2>1 DEF SysSound, SysLate, SysMoved
  <2>3. SysRecords'
    BY <1>1, <2>1 DEF SysSound, SysHome, SysRecords, SysMoved
  <2>4. \A p \in SysOps : SysOpening(p)'
    BY <1>1, <2>1 DEF SysSound, SysOpening, SysMoved
  <2>5. \A p \in SysOps : SysArchiving(p)'
    BY <1>1, <2>1 DEF SysSound, SysHome, SysArchiving, SysMoved
  <2>6. \A p \in SysOps : SysTelling(p)'
    BY <1>1, <2>1 DEF SysSound, SysHome, SysTelling, SysMoved
  <2>7. prompt' # "none" => SysHome'
    BY <1>1, <2>1 DEF SysSound, SysHome, SysMoved
  <2> QED
    BY <2>2, <2>3, <2>4, <2>5, <2>6, <2>7 DEF SysSound
<1> QED
  BY <1>2, <1>3, <1>4 DEF SysInv

LEMMA SysRecordDutyStep ==
  ASSUME SysInv, NEW o \in SysOps, SysRecordDuty(o)
  PROVE  SysInv'
<1>1. /\ sysOp[o].at = "record" /\ device
      /\ \E place \in SysPlaces :
           /\ SysMoved(o, place, sysOp[o].restoring, sysOp[o].confirmed)
           /\ place \in {"guardArchive", "failed"}
      /\ deviceRow' = IF sysOp[o].line /\ deviceRow = "none" THEN "started" ELSE deviceRow
      /\ UNCHANGED <<ledger, sysRow, coordinator, asked, bound, prompt, device, thread, sysFaults, slips>>
  BY GoEffect DEF SysInv, SysOpOnly, SysOnly, SysPlaces, SysRecordDuty
<1>2. SysTypeOK'
  BY <1>1 DEF SysInv, SysTypeOK, SysMoved
<1>3. SysShape'
  <2>1. SysOneLine'
    BY <1>1 DEF SysInv, SysShape, SysOneLine, SysMoved
  <2>2. SysPlaced'
    BY <1>1 DEF SysInv, SysShape, SysPlaced, SysMoved
  <2>3. SysGateway'
    BY <1>1 DEF SysInv, SysShape, SysGateway, SysMoved
  <2> QED
    BY <2>1, <2>2, <2>3 DEF SysShape
<1>4. ASSUME "reply" \notin slips'
      PROVE  SysSound'
  <2>1. "reply" \notin slips /\ SysSound /\ SysShape /\ SysTypeOK
    BY <1>1, <1>4 DEF SysInv
  <2>2. SysLate'
    BY <1>1, <2>1 DEF SysSound, SysLate, SysMoved
  <2>3. SysRecords'
    BY <1>1, <2>1
    DEF SysSound, SysHome, SysRecords, SysMoved, SysShape, SysOneLine, SysPlaced, SysLate,
      SysOpening, SysArchiving, SysTelling
  <2>4. \A p \in SysOps : SysOpening(p)'
    BY <1>1, <2>1 DEF SysSound, SysOpening, SysMoved
  <2>5. \A p \in SysOps : SysArchiving(p)'
    BY <1>1, <2>1 DEF SysSound, SysHome, SysArchiving, SysMoved, SysShape, SysOneLine, SysPlaced
  <2>6. \A p \in SysOps : SysTelling(p)'
    BY <1>1, <2>1 DEF SysSound, SysHome, SysTelling, SysMoved, SysShape, SysOneLine, SysPlaced
  <2>7. prompt' # "none" => SysHome'
    BY <1>1, <2>1 DEF SysSound, SysHome, SysMoved
  <2> QED
    BY <2>2, <2>3, <2>4, <2>5, <2>6, <2>7 DEF SysSound
<1> QED
  BY <1>2, <1>3, <1>4 DEF SysInv

LEMMA SysToldStep ==
  ASSUME SysInv, NEW o \in SysOps, SysTold(o)
  PROVE  SysInv'
<1>1. /\ sysOp[o].at = "told" /\ device
      /\ \E place \in {"inspect", "failed"}, restoring \in BOOLEAN :
           /\ SysMoved(o, place, restoring, sysOp[o].confirmed)
           /\ place = "inspect" => restoring
           /\ restoring = sysOp[o].restoring \/ restoring = TRUE
      /\ deviceRow' = IF sysOp[o].line THEN "none" ELSE deviceRow
      /\ UNCHANGED <<ledger, sysRow, coordinator, asked, bound, prompt, device, thread, sysFaults, slips>>
  <2>1. CASE sysOp[o].line
    <3>1. PICK place \in {"inspect", "failed"} : sysOp' = [sysOp EXCEPT ![o].at = place, ![o].restoring = TRUE]
      BY <2>1 DEF SysTold
    <3>2. place \in SysPlaces
      BY DEF SysPlaces
    <3>3. SysMoved(o, place, TRUE, sysOp[o].confirmed)
      BY <3>1, <3>2, RestoringEffect DEF SysInv
    <3> QED
      BY <2>1, <3>3 DEF SysTold, SysOnly
  <2>2. CASE ~sysOp[o].line
    <3>1. SysMoved(o, "failed", sysOp[o].restoring, sysOp[o].confirmed) /\ sysOp[o].restoring \in BOOLEAN
      BY <2>2, GoEffect DEF SysTold, SysInv, SysTypeOK, SysOperation, SysPlaces
    <3> QED
      BY <2>2, <3>1 DEF SysTold, SysOnly
  <2> QED
    BY <2>1, <2>2
<1>2. SysTypeOK'
  BY <1>1 DEF SysInv, SysTypeOK, SysMoved
<1>3. SysShape'
  <2>1. SysOneLine'
    BY <1>1 DEF SysInv, SysShape, SysOneLine, SysMoved
  <2>2. SysPlaced'
    BY <1>1 DEF SysInv, SysShape, SysPlaced, SysMoved
  <2>3. SysGateway'
    BY <1>1 DEF SysInv, SysShape, SysGateway, SysMoved
  <2> QED
    BY <2>1, <2>2, <2>3 DEF SysShape
<1>4. ASSUME "reply" \notin slips'
      PROVE  SysSound'
  <2>1. "reply" \notin slips /\ SysSound /\ SysShape /\ SysTypeOK
    BY <1>1, <1>4 DEF SysInv
  <2>2. SysLate'
    BY <1>1, <2>1 DEF SysSound, SysLate, SysMoved
  <2>3. SysRecords'
    BY <1>1, <2>1 DEF SysSound, SysHome, SysRecords, SysMoved
  <2>4. \A p \in SysOps : SysOpening(p)'
    BY <1>1, <2>1 DEF SysSound, SysOpening, SysMoved
  <2>5. \A p \in SysOps : SysArchiving(p)'
    BY <1>1, <2>1 DEF SysSound, SysHome, SysArchiving, SysMoved, SysShape, SysOneLine, SysPlaced
  <2>6. \A p \in SysOps : SysTelling(p)'
    BY <1>1, <2>1 DEF SysSound, SysHome, SysTelling, SysMoved
  <2>7. prompt' # "none" => SysHome'
    BY <1>1, <2>1 DEF SysSound, SysHome, SysMoved
  <2> QED
    BY <2>2, <2>3, <2>4, <2>5, <2>6, <2>7 DEF SysSound
<1> QED
  BY <1>2, <1>3, <1>4 DEF SysInv

LEMMA SysRestoreStep ==
  ASSUME SysInv, NEW o \in SysOps, SysRestore(o)
  PROVE  SysInv'
<1>1. /\ sysOp[o].at = "restore" /\ device
      /\ \E place \in SysPlaces :
           /\ SysMoved(o, place, sysOp[o].restoring, sysOp[o].confirmed)
           /\ place \in {"tell", "failed", "returned"}
           /\ place = "tell" => ~thread.listed \/ sysOp[o].confirmed
           /\ deviceRow' = IF place = "tell" /\ deviceRow # "none" THEN "restored" ELSE deviceRow
           /\ place = "tell" => thread'.listed
      /\ thread' \in SysThread /\ thread'.late = thread.late /\ thread'.failed = thread.failed
      /\ thread.listed => thread'.listed
      /\ sysFaults' \in 0..MaxSysFaults
      /\ UNCHANGED <<ledger, sysRow, coordinator, asked, bound, prompt, device, slips>>
  <2>1. SysOnly(o) /\ UNCHANGED <<ledger, sysRow, slips>> /\ sysOp[o].at = "restore" /\ device
    BY DEF SysRestore
  <2>2. {"tell", "failed", "returned"} \subseteq SysPlaces /\ thread \in SysThread /\ sysFaults \in 0..MaxSysFaults
    BY DEF SysPlaces, SysInv, SysTypeOK
  <2>3. CASE /\ ~thread.listed \/ sysOp[o].confirmed
             /\ thread' = [thread EXCEPT !.listed = TRUE]
             /\ deviceRow' = IF deviceRow = "none" THEN "none" ELSE "restored"
             /\ SysGo(o, "tell") /\ UNCHANGED sysFaults
    <3>1. SysMoved(o, "tell", sysOp[o].restoring, sysOp[o].confirmed)
      BY <2>2, <2>3, GoEffect DEF SysInv
    <3> QED
      BY <2>1, <2>2, <2>3, <3>1 DEF SysThread, SysOnly
  <2>4. CASE /\ ~thread.listed /\ SysFault
             /\ thread' \in {thread, [thread EXCEPT !.listed = TRUE]}
             /\ SysGo(o, "failed") /\ UNCHANGED deviceRow
    <3>1. SysMoved(o, "failed", sysOp[o].restoring, sysOp[o].confirmed)
      BY <2>2, <2>4, GoEffect DEF SysInv
    <3>2. sysFaults' \in 0..MaxSysFaults
      BY <2>4, FaultCount DEF SysInv
    <3> QED
      BY <2>1, <2>2, <2>4, <3>1, <3>2 DEF SysThread, SysOnly
  <2>5. CASE /\ thread.listed /\ ~sysOp[o].confirmed
             /\ SysGo(o, "returned") /\ UNCHANGED <<thread, deviceRow, sysFaults>>
    <3>1. SysMoved(o, "returned", sysOp[o].restoring, sysOp[o].confirmed)
      BY <2>2, <2>5, GoEffect DEF SysInv
    <3> QED
      BY <2>1, <2>2, <2>5, <3>1 DEF SysOnly
  <2> QED
    BY <2>3, <2>4, <2>5 DEF SysRestore
<1>2. SysTypeOK'
  BY <1>1 DEF SysInv, SysTypeOK, SysMoved
<1>3. SysShape'
  <2>1. SysOneLine'
    BY <1>1 DEF SysInv, SysShape, SysOneLine, SysMoved
  <2>2. SysPlaced'
    BY <1>1 DEF SysInv, SysShape, SysPlaced, SysMoved
  <2>3. SysGateway'
    BY <1>1 DEF SysInv, SysShape, SysGateway, SysMoved
  <2> QED
    BY <2>1, <2>2, <2>3 DEF SysShape
<1>4. ASSUME "reply" \notin slips'
      PROVE  SysSound'
  <2>1. "reply" \notin slips /\ SysSound /\ SysShape /\ SysTypeOK
    BY <1>1, <1>4 DEF SysInv
  <2>2. SysLate'
    BY <1>1, <2>1 DEF SysSound, SysLate, SysMoved
  <2>3. SysRecords'
    BY <1>1, <2>1
    DEF SysSound, SysHome, SysRecords, SysMoved, SysShape, SysOneLine, SysPlaced, SysLate
  <2>4. \A p \in SysOps : SysOpening(p)'
    BY <1>1, <2>1 DEF SysSound, SysOpening, SysMoved
  <2>5. \A p \in SysOps : SysArchiving(p)'
    BY <1>1, <2>1 DEF SysSound, SysHome, SysArchiving, SysMoved, SysShape, SysOneLine, SysPlaced
  <2>6. \A p \in SysOps : SysTelling(p)'
    BY <1>1, <2>1
    DEF SysSound, SysHome, SysTelling, SysMoved, SysShape, SysOneLine, SysPlaced, SysLate,
      SysRecords
  <2>7. prompt' # "none" => SysHome'
    BY <1>1, <2>1 DEF SysSound, SysHome, SysMoved
  <2> QED
    BY <2>2, <2>3, <2>4, <2>5, <2>6, <2>7 DEF SysSound
<1> QED
  BY <1>2, <1>3, <1>4 DEF SysInv

LEMMA SysAnnounceStep ==
  ASSUME SysInv, NEW o \in SysOps, SysAnnounce(o)
  PROVE  SysInv'
<1>1. /\ sysOp[o].at = "announce" /\ device
      /\ \E place \in SysPlaces :
           /\ SysMoved(o, place, sysOp[o].restoring, sysOp[o].confirmed)
           /\ place \in {"record", "failed"}
           /\ place = "record" => /\ sysOp[o].line /\ asked = o /\ sysOp[o].valid
                                /\ sysRow'.duty
                                /\ ledger'.duty /\ ~ledger'.confirmed /\ ~sysRow'.confirmed
           /\ place = "failed" => ledger' = ledger
      /\ ledger' \in SysRecord /\ sysRow' \in SysRecord
      /\ (sysRow'.duty /\ ~sysRow'.confirmed) \/ sysRow' = sysRow
      /\ sysFaults' \in 0..MaxSysFaults
      /\ UNCHANGED <<coordinator, asked, bound, prompt, device, deviceRow, thread, slips>>
  <2>1. SysOnly(o) /\ UNCHANGED <<deviceRow, thread, slips>> /\ sysOp[o].at = "announce" /\ device
    BY DEF SysAnnounce
  <2>2. /\ {"record", "failed"} \subseteq SysPlaces /\ ledger \in SysRecord /\ sysRow \in SysRecord
        /\ sysFaults \in 0..MaxSysFaults
    BY DEF SysPlaces, SysInv, SysTypeOK
  <2>3. CASE SysReaches(o) /\ SysGuard(o)
    <3>1. /\ sysRow' = [phase |-> "restoring", duty |-> TRUE, confirmed |-> FALSE]
          /\ \/ SysSave(sysRow') /\ SysGo(o, "record") /\ UNCHANGED sysFaults
             \/ SysFault /\ SysGo(o, "failed") /\ UNCHANGED ledger
      BY <2>3 DEF SysAnnounce
    <3>2. sysRow' \in SysRecord /\ sysRow'.duty /\ ~sysRow'.confirmed
      BY <3>1 DEF SysRecord, SysPhases
    <3>3. sysOp[o].line /\ asked = o /\ sysOp[o].valid /\ coordinator = "up"
      BY <2>3 DEF SysReaches, SysGuard
    <3>4. CASE SysSave(sysRow') /\ SysGo(o, "record") /\ UNCHANGED sysFaults
      <4>1. SysMoved(o, "record", sysOp[o].restoring, sysOp[o].confirmed)
        BY <2>2, <3>4, GoEffect DEF SysInv
      <4>2. ledger' = sysRow'
        BY <3>3, <3>4 DEF SysSave
      <4> QED
        BY <2>1, <2>2, <3>2, <3>3, <3>4, <4>1, <4>2 DEF SysOnly
    <3>5. CASE SysFault /\ SysGo(o, "failed") /\ UNCHANGED ledger
      <4>1. SysMoved(o, "failed", sysOp[o].restoring, sysOp[o].confirmed)
        BY <2>2, <3>5, GoEffect DEF SysInv
      <4>2. sysFaults' \in 0..MaxSysFaults
        BY <3>5, FaultCount DEF SysInv
      <4> QED
        BY <2>1, <2>2, <3>2, <3>5, <4>1, <4>2 DEF SysOnly
    <3> QED
      BY <3>1, <3>4, <3>5
  <2>4. CASE ~(SysReaches(o) /\ SysGuard(o))
    <3>1. SysGo(o, "failed") /\ UNCHANGED <<ledger, sysRow, sysFaults>>
      BY <2>4 DEF SysAnnounce
    <3>2. SysMoved(o, "failed", sysOp[o].restoring, sysOp[o].confirmed)
      BY <2>2, <3>1, GoEffect DEF SysInv
    <3> QED
      BY <2>1, <2>2, <3>1, <3>2 DEF SysOnly
  <2> QED
    BY <2>3, <2>4
<1>2. SysTypeOK'
  BY <1>1 DEF SysInv, SysTypeOK, SysMoved
<1>3. SysShape'
  <2>1. SysOneLine'
    BY <1>1 DEF SysInv, SysShape, SysOneLine, SysMoved
  <2>2. SysPlaced'
    BY <1>1 DEF SysInv, SysShape, SysPlaced, SysMoved
  <2>3. SysGateway'
    BY <1>1 DEF SysInv, SysShape, SysGateway, SysMoved
  <2> QED
    BY <2>1, <2>2, <2>3 DEF SysShape
<1>4. ASSUME "reply" \notin slips'
      PROVE  SysSound'
  <2>1. "reply" \notin slips /\ SysSound /\ SysShape /\ SysTypeOK
    BY <1>1, <1>4 DEF SysInv
  <2>2. SysLate'
    BY <1>1, <2>1 DEF SysSound, SysLate, SysMoved
  <2>3. SysRecords'
    BY <1>1, <2>1 DEF SysSound, SysHome, SysRecords, SysMoved
  <2>4. \A p \in SysOps : SysOpening(p)'
    BY <1>1, <2>1 DEF SysSound, SysOpening, SysMoved, SysShape, SysOneLine, SysPlaced
  <2>5. \A p \in SysOps : SysArchiving(p)'
    BY <1>1, <2>1
    DEF SysSound, SysHome, SysArchiving, SysMoved, SysShape, SysOneLine, SysPlaced, SysLate,
      SysRecords, SysOpening, SysTelling
  <2>6. \A p \in SysOps : SysTelling(p)'
    BY <1>1, <2>1 DEF SysSound, SysHome, SysTelling, SysMoved
  <2>7. prompt' # "none" => SysHome'
    BY <1>1, <2>1 DEF SysSound, SysHome, SysMoved
  <2> QED
    BY <2>2, <2>3, <2>4, <2>5, <2>6, <2>7 DEF SysSound
<1> QED
  BY <1>2, <1>3, <1>4 DEF SysInv

LEMMA SysArchiveStep ==
  ASSUME SysInv, NEW o \in SysOps, SysArchive(o)
  PROVE  SysInv'
<1>1. /\ sysOp[o].at = "archive" /\ device
      /\ \E place \in {"tellArchived", "restore"}, confirmed \in BOOLEAN :
           /\ SysMoved(o, place, sysOp[o].restoring, confirmed)
           /\ IF place = "tellArchived"
              THEN /\ sysOp[o].line /\ confirmed /\ thread'.late = thread.late
                   /\ deviceRow' = IF deviceRow = "started" THEN "confirmed" ELSE deviceRow
              ELSE confirmed = sysOp[o].confirmed /\ deviceRow' = deviceRow
      /\ thread' \in SysThread /\ thread'.failed = thread.failed
      /\ thread'.late => thread.late \/ thread'.listed = thread.listed
      /\ ~sysOp[o].line => thread' = thread
      /\ sysFaults' \in 0..MaxSysFaults
      /\ UNCHANGED <<ledger, sysRow, coordinator, asked, bound, prompt, device, slips>>
  <2>1. SysOnly(o) /\ UNCHANGED <<ledger, sysRow, slips>> /\ sysOp[o].at = "archive" /\ device
    BY DEF SysArchive
  <2>2. /\ {"tellArchived", "restore"} \subseteq SysPlaces /\ thread \in SysThread
        /\ sysFaults \in 0..MaxSysFaults /\ sysOp[o].confirmed \in BOOLEAN
    BY DEF SysPlaces, SysInv, SysTypeOK, SysOperation
  <2> DEFINE gone == [thread EXCEPT !.listed = FALSE, !.runtime = "notLoaded"]
             later == [thread EXCEPT !.late = TRUE]
  <2>3. /\ gone \in SysThread /\ gone.failed = thread.failed /\ gone.late = thread.late
        /\ later \in SysThread /\ later.failed = thread.failed /\ later.listed = thread.listed
    <3> DEFINE mid == [thread EXCEPT !.listed = FALSE]
    <3>1. mid \in SysThread /\ mid.failed = thread.failed /\ mid.late = thread.late
      BY <2>2 DEF SysThread
    <3>2. gone = [mid EXCEPT !.runtime = "notLoaded"]
      OBVIOUS
    <3> HIDE DEF mid
    <3>3. gone \in SysThread /\ gone.failed = thread.failed /\ gone.late = thread.late
      BY <3>1, <3>2 DEF SysThread
    <3>4. later \in SysThread /\ later.failed = thread.failed /\ later.listed = thread.listed
      BY <2>2 DEF SysThread
    <3> QED
      BY <3>3, <3>4
  <2> HIDE DEF gone, later
  <2>4. CASE /\ sysOp[o].line
             /\ thread' = gone
             /\ deviceRow' = IF deviceRow = "started" THEN "confirmed" ELSE deviceRow
             /\ sysOp' = [sysOp EXCEPT ![o].at = "tellArchived", ![o].confirmed = TRUE]
             /\ UNCHANGED sysFaults
    <3>1. SysMoved(o, "tellArchived", sysOp[o].restoring, TRUE)
      BY <2>2, <2>4, ConfirmEffect DEF SysInv
    <3> QED
      BY <2>1, <2>2, <2>3, <2>4, <3>1 DEF SysOnly
  <2>5. CASE /\ sysOp' = [sysOp EXCEPT ![o].at = "restore", ![o].onward = FALSE]
             /\ \/ sysOp[o].line /\ SysFault /\ (thread' = gone \/ thread' = later \/ UNCHANGED thread)
                \/ ~sysOp[o].line /\ UNCHANGED <<thread, sysFaults>>
             /\ UNCHANGED deviceRow
    <3>1. SysMoved(o, "restore", sysOp[o].restoring, sysOp[o].confirmed)
      BY <2>2, <2>5, OnwardEffect DEF SysInv
    <3>2. sysFaults' \in 0..MaxSysFaults
      BY <2>2, <2>5, FaultCount DEF SysInv
    <3> QED
      BY <2>1, <2>2, <2>3, <2>5, <3>1, <3>2 DEF SysOnly
  <2> QED
    BY <2>4, <2>5 DEF SysArchive, gone, later
<1>2. SysTypeOK'
  BY <1>1 DEF SysInv, SysTypeOK, SysMoved
<1>3. SysShape'
  <2>1. SysOneLine'
    BY <1>1 DEF SysInv, SysShape, SysOneLine, SysMoved
  <2>2. SysPlaced'
    BY <1>1 DEF SysInv, SysShape, SysPlaced, SysMoved
  <2>3. SysGateway'
    BY <1>1 DEF SysInv, SysShape, SysGateway, SysMoved
  <2> QED
    BY <2>1, <2>2, <2>3 DEF SysShape
<1>4. ASSUME "reply" \notin slips'
      PROVE  SysSound'
  <2>1. "reply" \notin slips /\ SysSound /\ SysShape /\ SysTypeOK
    BY <1>1, <1>4 DEF SysInv
  <2>2. SysLate'
    BY <1>1, <2>1
    DEF SysSound, SysLate, SysMoved, SysShape, SysOneLine, SysPlaced, SysHome, SysRecords,
      SysOpening, SysArchiving, SysTelling
  <2>3. SysRecords'
    BY <1>1, <2>1
    DEF SysSound, SysHome, SysRecords, SysMoved, SysShape, SysOneLine, SysPlaced, SysLate,
      SysOpening, SysArchiving, SysTelling
  <2>4. \A p \in SysOps : SysOpening(p)'
    BY <1>1, <2>1 DEF SysSound, SysOpening, SysMoved
  <2>5. \A p \in SysOps : SysArchiving(p)'
    BY <1>1, <2>1 DEF SysSound, SysHome, SysArchiving, SysMoved, SysShape, SysOneLine, SysPlaced
  <2>6. \A p \in SysOps : SysTelling(p)'
    BY <1>1, <2>1 DEF SysSound, SysHome, SysTelling, SysMoved, SysShape, SysOneLine, SysPlaced
  <2>7. prompt' # "none" => SysHome'
    BY <1>1, <2>1
    DEF SysSound, SysHome, SysMoved, SysShape, SysOneLine, SysPlaced, SysLate, SysRecords,
      SysOpening, SysArchiving, SysTelling
  <2> QED
    BY <2>2, <2>3, <2>4, <2>5, <2>6, <2>7 DEF SysSound
<1> QED
  BY <1>2, <1>3, <1>4 DEF SysInv

LEMMA SysTellArchivedStep ==
  ASSUME SysInv, NEW o \in SysOps, SysTellArchived(o)
  PROVE  SysInv'
<1>1. /\ sysOp[o].at = "tellArchived" /\ device
      /\ SysMoved(o, "restore", sysOp[o].restoring, sysOp[o].confirmed)
      /\ ledger' \in SysRecord /\ sysRow' \in SysRecord /\ sysRow'.duty = sysRow.duty
      /\ \/ ledger' = ledger /\ sysRow' = sysRow
         \/ /\ sysOp[o].line /\ asked = o
            /\ \/ ledger'.duty = ledger.duty /\ ledger'.confirmed = ledger.confirmed
               \/ coordinator = "up" /\ ledger'.duty = sysRow.duty
      /\ slips \subseteq slips' /\ slips' \subseteq {"reply", "muted"}
      /\ UNCHANGED <<coordinator, asked, bound, prompt, device, deviceRow, thread, sysFaults>>
  <2>1. SysOnly(o) /\ UNCHANGED <<deviceRow, thread, sysFaults>> /\ sysOp[o].at = "tellArchived" /\ device
    BY DEF SysTellArchived
  <2>2. /\ "restore" \in SysPlaces /\ ledger \in SysRecord /\ sysRow \in SysRecord
        /\ SysReaches(o) \in BOOLEAN /\ slips \subseteq {"reply", "muted"}
    BY DEF SysPlaces, SysInv, SysTypeOK, SysReaches, SysOperation
  <2>3. SysMoved(o, "restore", sysOp[o].restoring, sysOp[o].confirmed)
    BY <2>2, OnwardEffect DEF SysTellArchived, SysInv
  <2>4. CASE SysReaches(o)
    <3>1. /\ sysRow' = [sysRow EXCEPT !.confirmed = TRUE] /\ SysSave(sysRow')
          /\ slips' = IF coordinator = "up" THEN slips ELSE slips \cup {"muted"}
      BY <2>4 DEF SysTellArchived
    <3>2. sysRow' \in SysRecord /\ sysRow'.duty = sysRow.duty
      BY <2>2, <3>1, ConfirmedRecord
    <3>3. /\ ledger' \in SysRecord
          /\ coordinator = "up" => ledger'.duty = sysRow'.duty /\ ledger'.confirmed = sysRow'.confirmed
          /\ coordinator # "up" => ledger'.duty = ledger.duty /\ ledger'.confirmed = ledger.confirmed
      BY <2>2, <3>1, <3>2 DEF SysSave
    <3> QED
      BY <2>1, <2>2, <2>3, <2>4, <3>1, <3>2, <3>3 DEF SysOnly, SysReaches
  <2>5. CASE ~SysReaches(o)
    <3>1. UNCHANGED <<ledger, sysRow, slips>>
      BY <2>5 DEF SysTellArchived
    <3> QED
      BY <2>1, <2>2, <2>3, <3>1 DEF SysOnly
  <2> QED
    BY <2>4, <2>5
<1>2. SysTypeOK'
  BY <1>1 DEF SysInv, SysTypeOK, SysMoved
<1>3. SysShape'
  <2>1. SysOneLine'
    BY <1>1 DEF SysInv, SysShape, SysOneLine, SysMoved
  <2>2. SysPlaced'
    BY <1>1 DEF SysInv, SysShape, SysPlaced, SysMoved
  <2>3. SysGateway'
    BY <1>1 DEF SysInv, SysShape, SysGateway, SysMoved
  <2> QED
    BY <2>1, <2>2, <2>3 DEF SysShape
<1>4. ASSUME "reply" \notin slips'
      PROVE  SysSound'
  <2>1. "reply" \notin slips /\ SysSound /\ SysShape /\ SysTypeOK
    BY <1>1, <1>4 DEF SysInv
  <2>2. SysLate'
    BY <1>1, <2>1
    DEF SysSound, SysLate, SysMoved, SysShape, SysOneLine, SysPlaced, SysHome, SysRecords,
      SysOpening, SysArchiving, SysTelling
  <2>3. SysRecords'
    BY <1>1, <2>1, SystemRecoveryAssumption
    DEF SysSound, SysHome, SysRecords, SysMoved, SysShape, SysOneLine, SysPlaced, SysLate,
      SysOpening, SysArchiving, SysTelling, SysGateway
  <2>4. \A p \in SysOps : SysOpening(p)'
    BY <1>1, <2>1 DEF SysSound, SysOpening, SysMoved, SysShape, SysOneLine, SysPlaced
  <2>5. \A p \in SysOps : SysArchiving(p)'
    BY <1>1, <2>1 DEF SysSound, SysHome, SysArchiving, SysMoved, SysShape, SysOneLine, SysPlaced
  <2>6. \A p \in SysOps : SysTelling(p)'
    BY <1>1, <2>1 DEF SysSound, SysHome, SysTelling, SysMoved
  <2>7. prompt' # "none" => SysHome'
    BY <1>1, <2>1 DEF SysSound, SysHome, SysMoved
  <2> QED
    BY <2>2, <2>3, <2>4, <2>5, <2>6, <2>7 DEF SysSound
<1> QED
  BY <1>2, <1>3, <1>4 DEF SysInv

LEMMA SysTellStep ==
  ASSUME SysInv, NEW o \in SysOps, SysTell(o)
  PROVE  SysInv'
<1>1. /\ sysOp[o].at = "tell" /\ device
      /\ \E place \in SysPlaces :
           /\ SysMoved(o, place, sysOp[o].restoring, sysOp[o].confirmed)
           /\ place \in {"told", "failed"}
           /\ IF place = "told" THEN /\ sysOp[o].line /\ ~sysRow'.duty /\ ~sysRow'.confirmed
                                   /\ IF coordinator = "up" THEN ~ledger'.duty /\ ~ledger'.confirmed ELSE ledger' = ledger
              ELSE ledger' = ledger /\ sysRow' = sysRow
      /\ ledger' \in SysRecord /\ sysRow' \in SysRecord
      /\ slips \subseteq slips' /\ slips' \subseteq {"reply", "muted"}
      /\ UNCHANGED <<coordinator, asked, bound, prompt, device, deviceRow, thread, sysFaults>>
  <2>1. SysOnly(o) /\ UNCHANGED <<deviceRow, thread, sysFaults>> /\ sysOp[o].at = "tell" /\ device
    BY DEF SysTell
  <2>2. /\ {"told", "failed"} \subseteq SysPlaces /\ ledger \in SysRecord /\ sysRow \in SysRecord
        /\ slips \subseteq {"reply", "muted"}
    BY DEF SysPlaces, SysInv, SysTypeOK
  <2>3. CASE SysReaches(o)
    <3>1. /\ sysRow' = [phase |-> "recovering", duty |-> FALSE, confirmed |-> FALSE]
          /\ SysSave(sysRow') /\ SysGo(o, "told")
          /\ slips' = IF coordinator = "up" THEN slips ELSE slips \cup {"muted"}
      BY <2>3 DEF SysTell
    <3>2. sysRow' \in SysRecord /\ ~sysRow'.duty /\ ~sysRow'.confirmed
      BY <3>1 DEF SysRecord, SysPhases
    <3>3. SysMoved(o, "told", sysOp[o].restoring, sysOp[o].confirmed)
      BY <2>2, <3>1, GoEffect DEF SysInv
    <3>4. ledger' = IF coordinator = "up" THEN sysRow' ELSE ledger
      BY <3>1 DEF SysSave
    <3> QED
      BY <2>1, <2>2, <2>3, <3>1, <3>2, <3>3, <3>4 DEF SysOnly, SysReaches
  <2>4. CASE ~SysReaches(o)
    <3>1. SysGo(o, "failed") /\ UNCHANGED <<ledger, sysRow, slips>>
      BY <2>4 DEF SysTell
    <3>2. SysMoved(o, "failed", sysOp[o].restoring, sysOp[o].confirmed)
      BY <2>2, <3>1, GoEffect DEF SysInv
    <3> QED
      BY <2>1, <2>2, <3>1, <3>2 DEF SysOnly
  <2> QED
    BY <2>3, <2>4
<1>2. SysTypeOK'
  BY <1>1 DEF SysInv, SysTypeOK, SysMoved
<1>3. SysShape'
  <2>1. SysOneLine'
    BY <1>1 DEF SysInv, SysShape, SysOneLine, SysMoved
  <2>2. SysPlaced'
    BY <1>1 DEF SysInv, SysShape, SysPlaced, SysMoved
  <2>3. SysGateway'
    BY <1>1 DEF SysInv, SysShape, SysGateway, SysMoved
  <2> QED
    BY <2>1, <2>2, <2>3 DEF SysShape
<1>4. ASSUME "reply" \notin slips'
      PROVE  SysSound'
  <2>1. "reply" \notin slips /\ SysSound /\ SysShape /\ SysTypeOK
    BY <1>1, <1>4 DEF SysInv
  <2>2. SysLate'
    BY <1>1, <2>1 DEF SysSound, SysLate, SysMoved
  <2>3. SysRecords'
    <3>1. CASE sysOp'[o].at = "told" /\ sysOp'[o].line
      <4>1. SysHome /\ deviceRow \in {"none", "restored"}
        BY <1>1, <2>1, <3>1 DEF SysSound, SysTelling, SysMoved
      <4> QED
        BY <1>1, <3>1, <4>1 DEF SysRecords, SysHome
    <3>2. CASE ledger' = ledger
      <4>1. \A p \in SysOps : sysOp[p].at = "told" /\ sysOp[p].line => sysOp'[p].at = "told" /\ sysOp'[p].line
        BY <1>1 DEF SysMoved
      <4> QED
        BY <1>1, <2>1, <3>2, <4>1 DEF SysSound, SysRecords, SysHome
    <3> QED
      BY <1>1, <3>1, <3>2 DEF SysMoved
  <2>4. \A p \in SysOps : SysOpening(p)'
    BY <1>1, <2>1 DEF SysSound, SysOpening, SysMoved
  <2>5. \A p \in SysOps : SysArchiving(p)'
    BY <1>1, <2>1 DEF SysSound, SysHome, SysArchiving, SysMoved, SysShape, SysOneLine, SysPlaced
  <2>6. \A p \in SysOps : SysTelling(p)'
    BY <1>1, <2>1 DEF SysSound, SysHome, SysTelling, SysMoved
  <2>7. prompt' # "none" => SysHome'
    BY <1>1, <2>1 DEF SysSound, SysHome, SysMoved
  <2> QED
    BY <2>2, <2>3, <2>4, <2>5, <2>6, <2>7 DEF SysSound
<1> QED
  BY <1>2, <1>3, <1>4 DEF SysInv

LEMMA SysRequestRestoreStep ==
  ASSUME SysInv, NEW o \in SysOps, SysRequestRestore(o)
  PROVE  SysInv'
<1>1. /\ coordinator = "up" /\ asked = NoSysOp /\ device /\ ledger.duty /\ sysOp[o].at = "free"
      /\ SysBegun(o, TRUE)
      /\ ledger' \in SysRecord /\ sysRow' \in SysRecord
      /\ ledger'.duty = ledger.duty /\ ledger'.confirmed = ledger.confirmed
      /\ sysRow'.duty = ledger.duty /\ sysRow'.confirmed = ledger.confirmed
      /\ UNCHANGED <<coordinator, bound, prompt, device, deviceRow, thread, sysFaults, slips>>
  <2>1. /\ coordinator = "up" /\ asked = NoSysOp /\ device /\ ledger.duty /\ sysOp[o].at = "free"
        /\ SysSave([ledger EXCEPT !.phase = "restoring"])
        /\ sysRow' = [ledger EXCEPT !.phase = "restoring"]
        /\ UNCHANGED <<coordinator, bound, prompt, device, deviceRow, thread, sysFaults, slips>>
    BY DEF SysRequestRestore
  <2>2. SysBegun(o, TRUE)
    BY BegunEffect DEF SysRequestRestore, SysInv
  <2>3. ledger \in SysRecord /\ "restoring" \in SysPhases
    BY DEF SysInv, SysTypeOK, SysPhases
  <2>4. sysRow' \in SysRecord /\ sysRow'.duty = ledger.duty /\ sysRow'.confirmed = ledger.confirmed
    BY <2>1, <2>3, PhasedRecord
  <2>5. ledger' = sysRow'
    BY <2>1 DEF SysSave
  <2> QED
    BY <2>1, <2>2, <2>4, <2>5
<1>2. SysTypeOK'
  BY <1>1 DEF SysInv, SysTypeOK, SysBegun
<1>3. SysShape'
  <2>1. SysOneLine'
    BY <1>1 DEF SysInv, SysShape, SysOneLine, SysBegun
  <2>2. SysPlaced'
    BY <1>1 DEF SysInv, SysShape, SysPlaced, SysBegun
  <2>3. SysGateway'
    BY <1>1 DEF SysInv, SysShape, SysGateway, SysBegun
  <2> QED
    BY <2>1, <2>2, <2>3 DEF SysShape
<1>4. ASSUME "reply" \notin slips'
      PROVE  SysSound'
  <2>1. "reply" \notin slips /\ SysSound /\ SysShape /\ SysTypeOK
    BY <1>1, <1>4 DEF SysInv
  <2>2. SysLate'
    BY <1>1, <2>1 DEF SysSound, SysLate, SysBegun
  <2>3. SysRecords'
    BY <1>1, <2>1 DEF SysSound, SysHome, SysRecords, SysBegun
  <2>4. \A p \in SysOps : SysOpening(p)'
    BY <1>1, <2>1 DEF SysSound, SysOpening, SysBegun
  <2>5. \A p \in SysOps : SysArchiving(p)'
    BY <1>1, <2>1 DEF SysSound, SysHome, SysArchiving, SysBegun
  <2>6. \A p \in SysOps : SysTelling(p)'
    BY <1>1, <2>1 DEF SysSound, SysHome, SysTelling, SysBegun
  <2>7. prompt' # "none" => SysHome'
    BY <1>1, <2>1 DEF SysSound, SysHome, SysBegun
  <2> QED
    BY <2>2, <2>3, <2>4, <2>5, <2>6, <2>7 DEF SysSound
<1> QED
  BY <1>2, <1>3, <1>4 DEF SysInv

LEMMA SysRequestRecoverStep ==
  ASSUME SysInv, NEW o \in SysOps, SysRequestRecover(o)
  PROVE  SysInv'
<1>1. /\ coordinator = "up" /\ asked = NoSysOp /\ device /\ ~ledger.duty
      /\ prompt # "submitting" /\ thread.failed
      /\ \A p \in SysOps : sysOp[p].at = "free"
      /\ ledger' \in SysRecord
      /\ ledger'.duty = ledger.duty /\ ledger'.confirmed = ledger.confirmed
      /\ \/ SysBegun(o, FALSE) /\ sysRow' = ledger'
         \/ UNCHANGED <<sysRow, asked, sysOp>>
      /\ UNCHANGED <<coordinator, bound, prompt, device, deviceRow, thread, sysFaults, slips>>
  <2>1. /\ coordinator = "up" /\ asked = NoSysOp /\ device /\ ~ledger.duty
        /\ prompt # "submitting" /\ thread.failed
        /\ \A p \in SysOps : sysOp[p].at = "free"
        /\ UNCHANGED <<coordinator, bound, prompt, device, deviceRow, thread, sysFaults, slips>>
    BY DEF SysRequestRecover
  <2>2. ledger \in SysRecord /\ {"recovering", "recovered", "failed"} \subseteq SysPhases
    BY DEF SysInv, SysTypeOK, SysPhases
  <2>3. CASE /\ SysBegin(o, FALSE)
             /\ SysSave([ledger EXCEPT !.phase = "recovering"])
             /\ sysRow' = [ledger EXCEPT !.phase = "recovering"]
    <3>1. SysBegun(o, FALSE)
      BY <2>3, BegunEffect DEF SysInv
    <3>2. sysRow' \in SysRecord /\ sysRow'.duty = ledger.duty /\ sysRow'.confirmed = ledger.confirmed
      BY <2>2, <2>3, PhasedRecord
    <3>3. ledger' = sysRow'
      BY <2>1, <2>3 DEF SysSave
    <3> QED
      BY <2>1, <3>1, <3>2, <3>3
  <2>4. ASSUME NEW phase \in {"recovered", "failed"}, SysSave([ledger EXCEPT !.phase = phase]),
               UNCHANGED <<sysRow, asked, sysOp>>
        PROVE  /\ ledger' \in SysRecord /\ ledger'.duty = ledger.duty
               /\ ledger'.confirmed = ledger.confirmed
    <3> DEFINE record == [ledger EXCEPT !.phase = phase]
    <3>1. record \in SysRecord /\ record.duty = ledger.duty /\ record.confirmed = ledger.confirmed
      BY <2>2, <2>4, PhasedRecord
    <3>2. ledger' = record
      BY <2>1, <2>4 DEF SysSave
    <3> QED
      BY <3>1, <3>2
  <2> QED
    BY <2>1, <2>3, <2>4 DEF SysRequestRecover
<1>2. SysTypeOK'
  BY <1>1 DEF SysInv, SysTypeOK, SysBegun
<1>3. SysShape'
  <2>1. SysOneLine'
    BY <1>1 DEF SysInv, SysShape, SysOneLine, SysBegun
  <2>2. SysPlaced'
    BY <1>1 DEF SysInv, SysShape, SysPlaced, SysBegun
  <2>3. SysGateway'
    BY <1>1 DEF SysInv, SysShape, SysGateway, SysBegun
  <2> QED
    BY <2>1, <2>2, <2>3 DEF SysShape
<1>4. ASSUME "reply" \notin slips'
      PROVE  SysSound'
  <2>1. "reply" \notin slips /\ SysSound /\ SysShape /\ SysTypeOK
    BY <1>1, <1>4 DEF SysInv
  <2>2. SysLate'
    BY <1>1, <2>1 DEF SysSound, SysLate, SysBegun
  <2>3. SysRecords'
    BY <1>1, <2>1 DEF SysSound, SysHome, SysRecords, SysBegun
  <2>4. \A p \in SysOps : SysOpening(p)'
    BY <1>1, <2>1, SystemRecoveryAssumption
    DEF SysSound, SysOpening, SysBegun, SysShape, SysOneLine, SysPlaced, SysHome, SysLate,
      SysRecords, SysArchiving, SysTelling, SysGateway, SysTypeOK, SysOperation, SysRecord,
      SysThread
  <2>5. \A p \in SysOps : SysArchiving(p)'
    BY <1>1, <2>1 DEF SysSound, SysHome, SysArchiving, SysBegun
  <2>6. \A p \in SysOps : SysTelling(p)'
    BY <1>1, <2>1 DEF SysSound, SysHome, SysTelling, SysBegun
  <2>7. prompt' # "none" => SysHome'
    BY <1>1, <2>1 DEF SysSound, SysHome, SysBegun
  <2> QED
    BY <2>2, <2>3, <2>4, <2>5, <2>6, <2>7 DEF SysSound
<1> QED
  BY <1>2, <1>3, <1>4 DEF SysInv

LEMMA SysReconcileStep ==
  ASSUME SysInv, SysReconcile
  PROVE  SysInv'
<1>1. /\ coordinator = "up" /\ asked = NoSysOp /\ ~ledger.duty
      /\ ledger' \in SysRecord
      /\ ledger'.duty = ledger.duty /\ ledger'.confirmed = ledger.confirmed
      /\ UNCHANGED <<sysRow, coordinator, asked, bound, prompt, device, deviceRow, sysOp, thread, sysFaults, slips>>
  <2>1. coordinator = "up" /\ asked = NoSysOp /\ ~ledger.duty /\ UNCHANGED <<sysRow, coordinator, asked, bound, prompt, device, deviceRow, sysOp, thread, sysFaults, slips>>
    BY DEF SysReconcile
  <2>2. PICK phase \in {"recovered", "failed"} : SysSave([ledger EXCEPT !.phase = phase])
    BY DEF SysReconcile
  <2>3. ledger \in SysRecord /\ phase \in SysPhases
    BY DEF SysInv, SysTypeOK, SysPhases
  <2> DEFINE record == [ledger EXCEPT !.phase = phase]
  <2>4. record \in SysRecord /\ record.duty = ledger.duty /\ record.confirmed = ledger.confirmed
    BY <2>3, PhasedRecord
  <2>5. ledger' = record
    BY <2>1, <2>2 DEF SysSave
  <2> QED
    BY <2>1, <2>4, <2>5
<1>2. SysTypeOK'
  BY <1>1 DEF SysInv, SysTypeOK
<1>3. SysShape'
  <2>1. SysOneLine'
    BY <1>1 DEF SysInv, SysShape, SysOneLine
  <2>2. SysPlaced'
    BY <1>1 DEF SysInv, SysShape, SysPlaced
  <2>3. SysGateway'
    BY <1>1 DEF SysInv, SysShape, SysGateway
  <2> QED
    BY <2>1, <2>2, <2>3 DEF SysShape
<1>4. ASSUME "reply" \notin slips'
      PROVE  SysSound'
  <2>1. "reply" \notin slips /\ SysSound /\ SysShape /\ SysTypeOK
    BY <1>1, <1>4 DEF SysInv
  <2>2. SysLate'
    BY <1>1, <2>1 DEF SysSound, SysLate
  <2>3. SysRecords'
    BY <1>1, <2>1 DEF SysSound, SysHome, SysRecords
  <2>4. \A p \in SysOps : SysOpening(p)'
    BY <1>1, <2>1 DEF SysSound, SysOpening
  <2>5. \A p \in SysOps : SysArchiving(p)'
    BY <1>1, <2>1 DEF SysSound, SysHome, SysArchiving
  <2>6. \A p \in SysOps : SysTelling(p)'
    BY <1>1, <2>1 DEF SysSound, SysHome, SysTelling
  <2>7. prompt' # "none" => SysHome'
    BY <1>1, <2>1 DEF SysSound, SysHome
  <2> QED
    BY <2>2, <2>3, <2>4, <2>5, <2>6, <2>7 DEF SysSound
<1> QED
  BY <1>2, <1>3, <1>4 DEF SysInv

LEMMA SysFinishStep ==
  ASSUME SysInv, NEW o \in SysOps, SysFinish(o)
  PROVE  SysInv'
<1>1. /\ asked = o /\ asked' = NoSysOp /\ coordinator # "down"
      /\ ~sysOp[o].line \/ sysOp[o].at \in {"returned", "failed"}
      /\ SysEnded(o) \/ (SysVoided /\ ~sysOp[o].line)
      /\ ledger' \in SysRecord
      /\ \/ ledger'.duty = ledger.duty /\ ledger'.confirmed = ledger.confirmed
         \/ coordinator = "up" /\ ledger'.duty = sysRow.duty /\ ledger'.confirmed = sysRow.confirmed
      /\ UNCHANGED <<sysRow, coordinator, bound, prompt, device, deviceRow, thread, sysFaults, slips>>
  <2>1. /\ asked = o /\ asked' = NoSysOp /\ coordinator # "down"
        /\ ~sysOp[o].line \/ sysOp[o].at \in {"returned", "failed"}
        /\ sysOp' = [sysOp EXCEPT ![o] =
             IF @.at \in {"returned", "failed"} THEN SysIdle ELSE [@ EXCEPT !.valid = FALSE]]
        /\ UNCHANGED <<sysRow, coordinator, bound, prompt, device, deviceRow, thread, sysFaults, slips>>
    BY DEF SysFinish
  <2>2. PICK phase \in {"restoring", "recovered", "failed"} : SysSave([sysRow EXCEPT !.phase = phase])
    BY DEF SysFinish
  <2>3. ledger \in SysRecord /\ sysRow \in SysRecord /\ phase \in SysPhases
    BY DEF SysInv, SysTypeOK, SysPhases
  <2> DEFINE record == [sysRow EXCEPT !.phase = phase]
  <2>4. record \in SysRecord /\ record.duty = sysRow.duty /\ record.confirmed = sysRow.confirmed
    BY <2>3, PhasedRecord
  <2>5. ledger' = IF coordinator = "up" THEN record ELSE ledger
    BY <2>2 DEF SysSave
  <2> HIDE DEF record
  <2>6. CASE sysOp[o].at \in {"returned", "failed"}
    <3>1. sysOp' = [sysOp EXCEPT ![o] = SysIdle]
      BY <2>1, <2>6
    <3>2. SysEnded(o)
      BY <3>1, EndedEffect DEF SysInv
    <3> QED
      BY <2>1, <2>3, <2>4, <2>5, <3>2
  <2>7. CASE sysOp[o].at \notin {"returned", "failed"}
    <3>1. sysOp' = [sysOp EXCEPT ![o] = [@ EXCEPT !.valid = FALSE]]
      BY <2>1, <2>7
    <3>2. SysVoided
      BY <3>1 DEF SysVoided, SysInv, SysTypeOK, SysOperation
    <3> QED
      BY <2>1, <2>3, <2>4, <2>5, <2>7, <3>2
  <2> QED
    BY <2>6, <2>7
<1>2. SysTypeOK'
  BY <1>1 DEF SysInv, SysTypeOK, SysVoided, SysEnded
<1>3. SysShape'
  <2>1. SysOneLine'
    BY <1>1 DEF SysInv, SysShape, SysOneLine, SysVoided, SysEnded
  <2>2. SysPlaced'
    BY <1>1, SystemRecoveryAssumption
    DEF SysInv, SysShape, SysPlaced, SysVoided, SysEnded, SysTypeOK, SysOneLine, SysGateway
  <2>3. SysGateway'
    BY <1>1 DEF SysInv, SysShape, SysGateway, SysVoided, SysEnded
  <2> QED
    BY <2>1, <2>2, <2>3 DEF SysShape
<1>4. ASSUME "reply" \notin slips'
      PROVE  SysSound'
  <2>1. "reply" \notin slips /\ SysSound /\ SysShape /\ SysTypeOK
    BY <1>1, <1>4 DEF SysInv
  <2>2. SysLate'
    BY <1>1, <2>1 DEF SysSound, SysLate, SysVoided, SysEnded
  <2>3. SysRecords'
    BY <1>1, <2>1, SystemRecoveryAssumption
    DEF SysSound, SysHome, SysRecords, SysVoided, SysEnded, SysShape, SysOneLine, SysPlaced,
      SysLate, SysOpening, SysArchiving, SysTelling, SysGateway
  <2>4. \A p \in SysOps : SysOpening(p)'
    BY <1>1, <2>1 DEF SysSound, SysOpening, SysVoided, SysEnded, SysShape, SysOneLine, SysPlaced
  <2>5. \A p \in SysOps : SysArchiving(p)'
    BY <1>1, <2>1
    DEF SysSound, SysHome, SysArchiving, SysVoided, SysEnded, SysShape, SysOneLine, SysPlaced
  <2>6. \A p \in SysOps : SysTelling(p)'
    BY <1>1, <2>1 DEF SysSound, SysHome, SysTelling, SysVoided, SysEnded
  <2>7. prompt' # "none" => SysHome'
    BY <1>1, <2>1 DEF SysSound, SysHome, SysVoided, SysEnded
  <2> QED
    BY <2>2, <2>3, <2>4, <2>5, <2>6, <2>7 DEF SysSound
<1> QED
  BY <1>2, <1>3, <1>4 DEF SysInv

LEMMA SysInputStep ==
  ASSUME SysInv, SysInput
  PROVE  SysInv'
<1>1. /\ coordinator = "up" /\ prompt = "none" /\ ~ledger.duty /\ prompt' = "submitting"
      /\ SysVoided /\ \A o \in SysOps : o = asked => ~sysOp'[o].valid
      /\ UNCHANGED <<ledger, sysRow, coordinator, asked, bound, device, deviceRow, thread, sysFaults, slips>>
  <2>1. /\ coordinator = "up" /\ prompt = "none" /\ ~ledger.duty /\ prompt' = "submitting"
        /\ sysOp' = [o \in SysOps |-> IF o = asked THEN [sysOp[o] EXCEPT !.valid = FALSE] ELSE sysOp[o]]
        /\ UNCHANGED <<ledger, sysRow, coordinator, asked, bound, device, deviceRow, thread, sysFaults, slips>>
    BY DEF SysInput
  <2>2. ASSUME NEW o \in SysOps
        PROVE  /\ sysOp'[o] \in SysOperation
               /\ sysOp'[o].at = sysOp[o].at /\ sysOp'[o].line = sysOp[o].line
               /\ sysOp'[o].restoring = sysOp[o].restoring /\ sysOp'[o].confirmed = sysOp[o].confirmed
               /\ sysOp'[o].valid => sysOp[o].valid /\ o # asked
    <3>1. sysOp[o] \in SysOperation
      BY DEF SysInv, SysTypeOK
    <3>2. CASE o = asked
      <4>1. sysOp'[o] = [sysOp[o] EXCEPT !.valid = FALSE]
        BY <2>1, <3>2
      <4> QED
        BY <3>1, <3>2, <4>1 DEF SysOperation
    <3>3. CASE o # asked
      BY <2>1, <3>1, <3>3
    <3> QED
      BY <3>2, <3>3
  <2>3. sysOp' \in [SysOps -> SysOperation]
    BY <2>1, <2>2
  <2> QED
    BY <2>1, <2>2, <2>3 DEF SysVoided
<1>2. SysTypeOK'
  BY <1>1 DEF SysInv, SysTypeOK, SysVoided
<1>3. SysShape'
  <2>1. SysOneLine'
    BY <1>1 DEF SysInv, SysShape, SysOneLine, SysVoided
  <2>2. SysPlaced'
    BY <1>1 DEF SysInv, SysShape, SysPlaced, SysVoided
  <2>3. SysGateway'
    BY <1>1 DEF SysInv, SysShape, SysGateway, SysVoided
  <2> QED
    BY <2>1, <2>2, <2>3 DEF SysShape
<1>4. ASSUME "reply" \notin slips'
      PROVE  SysSound'
  <2>1. "reply" \notin slips /\ SysSound /\ SysShape /\ SysTypeOK
    BY <1>1, <1>4 DEF SysInv
  <2>2. SysLate'
    BY <1>1, <2>1 DEF SysSound, SysLate, SysVoided
  <2>3. SysRecords'
    BY <1>1, <2>1 DEF SysSound, SysHome, SysRecords, SysVoided
  <2>4. \A p \in SysOps : SysOpening(p)'
    BY <1>1, <2>1 DEF SysSound, SysOpening, SysVoided
  <2>5. \A p \in SysOps : SysArchiving(p)'
    BY <1>1, <2>1 DEF SysSound, SysHome, SysArchiving, SysVoided
  <2>6. \A p \in SysOps : SysTelling(p)'
    BY <1>1, <2>1 DEF SysSound, SysHome, SysTelling, SysVoided
  <2>7. prompt' # "none" => SysHome'
    BY <1>1, <2>1
    DEF SysSound, SysHome, SysVoided, SysShape, SysOneLine, SysPlaced, SysLate, SysRecords
  <2> QED
    BY <2>2, <2>3, <2>4, <2>5, <2>6, <2>7 DEF SysSound
<1> QED
  BY <1>2, <1>3, <1>4 DEF SysInv

LEMMA SysRebindStep ==
  ASSUME SysInv, SysRebind
  PROVE  SysInv'
<1>1. /\ SysVoided /\ bound' \in BOOLEAN
      /\ UNCHANGED <<ledger, sysRow, coordinator, asked, prompt, device, deviceRow, thread, sysFaults, slips>>
  <2>1. /\ sysOp' = [o \in SysOps |-> [sysOp[o] EXCEPT !.valid = FALSE]]
        /\ bound' \in BOOLEAN /\ UNCHANGED <<ledger, sysRow, coordinator, asked, prompt, device, deviceRow, thread, sysFaults, slips>>
    BY DEF SysRebind, SysInv, SysTypeOK
  <2>2. SysVoided
    BY <2>1 DEF SysVoided, SysInv, SysTypeOK, SysOperation
  <2> QED
    BY <2>1, <2>2
<1>2. SysTypeOK'
  BY <1>1 DEF SysInv, SysTypeOK, SysVoided
<1>3. SysShape'
  <2>1. SysOneLine'
    BY <1>1 DEF SysInv, SysShape, SysOneLine, SysVoided
  <2>2. SysPlaced'
    BY <1>1 DEF SysInv, SysShape, SysPlaced, SysVoided
  <2>3. SysGateway'
    BY <1>1 DEF SysInv, SysShape, SysGateway, SysVoided
  <2> QED
    BY <2>1, <2>2, <2>3 DEF SysShape
<1>4. ASSUME "reply" \notin slips'
      PROVE  SysSound'
  <2>1. "reply" \notin slips /\ SysSound /\ SysShape /\ SysTypeOK
    BY <1>1, <1>4 DEF SysInv
  <2>2. SysLate'
    BY <1>1, <2>1 DEF SysSound, SysLate, SysVoided
  <2>3. SysRecords'
    BY <1>1, <2>1 DEF SysSound, SysHome, SysRecords, SysVoided
  <2>4. \A p \in SysOps : SysOpening(p)'
    BY <1>1, <2>1 DEF SysSound, SysOpening, SysVoided
  <2>5. \A p \in SysOps : SysArchiving(p)'
    BY <1>1, <2>1 DEF SysSound, SysHome, SysArchiving, SysVoided
  <2>6. \A p \in SysOps : SysTelling(p)'
    BY <1>1, <2>1 DEF SysSound, SysHome, SysTelling, SysVoided
  <2>7. prompt' # "none" => SysHome'
    BY <1>1, <2>1 DEF SysSound, SysHome, SysVoided
  <2> QED
    BY <2>2, <2>3, <2>4, <2>5, <2>6, <2>7 DEF SysSound
<1> QED
  BY <1>2, <1>3, <1>4 DEF SysInv

LEMMA SysStopStep ==
  ASSUME SysInv, SysStop
  PROVE  SysInv'
<1>1. /\ coordinator = "up" /\ coordinator' = "stopped" /\ sysFaults' \in 0..MaxSysFaults
      /\ UNCHANGED <<ledger, sysRow, asked, bound, prompt, device, deviceRow, sysOp, thread, slips>>
  BY FaultCount DEF SysStop, SysInv
<1>2. SysTypeOK'
  BY <1>1 DEF SysInv, SysTypeOK
<1>3. SysShape'
  <2>1. SysOneLine'
    BY <1>1 DEF SysInv, SysShape, SysOneLine
  <2>2. SysPlaced'
    BY <1>1 DEF SysInv, SysShape, SysPlaced
  <2>3. SysGateway'
    BY <1>1 DEF SysInv, SysShape, SysGateway
  <2> QED
    BY <2>1, <2>2, <2>3 DEF SysShape
<1>4. ASSUME "reply" \notin slips'
      PROVE  SysSound'
  <2>1. "reply" \notin slips /\ SysSound /\ SysShape /\ SysTypeOK
    BY <1>1, <1>4 DEF SysInv
  <2>2. SysLate'
    BY <1>1, <2>1 DEF SysSound, SysLate
  <2>3. SysRecords'
    BY <1>1, <2>1 DEF SysSound, SysHome, SysRecords
  <2>4. \A p \in SysOps : SysOpening(p)'
    BY <1>1, <2>1 DEF SysSound, SysOpening
  <2>5. \A p \in SysOps : SysArchiving(p)'
    BY <1>1, <2>1 DEF SysSound, SysHome, SysArchiving
  <2>6. \A p \in SysOps : SysTelling(p)'
    BY <1>1, <2>1 DEF SysSound, SysHome, SysTelling
  <2>7. prompt' # "none" => SysHome'
    BY <1>1, <2>1 DEF SysSound, SysHome
  <2> QED
    BY <2>2, <2>3, <2>4, <2>5, <2>6, <2>7 DEF SysSound
<1> QED
  BY <1>2, <1>3, <1>4 DEF SysInv

LEMMA SysGatewayDownStep ==
  ASSUME SysInv, SysGatewayDown
  PROVE  SysInv'
<1>1. /\ coordinator' = "down" /\ asked' = NoSysOp /\ sysFaults' \in 0..MaxSysFaults
      /\ UNCHANGED <<ledger, sysRow, bound, prompt, device, deviceRow, sysOp, thread, slips>>
  BY FaultCount DEF SysGatewayDown, SysInv, SysTypeOK
<1>2. SysTypeOK'
  BY <1>1 DEF SysInv, SysTypeOK
<1>3. SysShape'
  <2>1. SysOneLine'
    BY <1>1 DEF SysInv, SysShape, SysOneLine
  <2>2. SysPlaced'
    BY <1>1, SystemRecoveryAssumption
    DEF SysInv, SysShape, SysPlaced, SysTypeOK, SysOneLine, SysGateway
  <2>3. SysGateway'
    BY <1>1 DEF SysInv, SysShape, SysGateway
  <2> QED
    BY <2>1, <2>2, <2>3 DEF SysShape
<1>4. ASSUME "reply" \notin slips'
      PROVE  SysSound'
  <2>1. "reply" \notin slips /\ SysSound /\ SysShape /\ SysTypeOK
    BY <1>1, <1>4 DEF SysInv
  <2>2. SysLate'
    BY <1>1, <2>1 DEF SysSound, SysLate
  <2>3. SysRecords'
    BY <1>1, <2>1 DEF SysSound, SysHome, SysRecords
  <2>4. \A p \in SysOps : SysOpening(p)'
    BY <1>1, <2>1, SystemRecoveryAssumption
    DEF SysSound, SysOpening, SysShape, SysOneLine, SysPlaced, SysHome, SysLate, SysRecords,
      SysArchiving, SysTelling, SysGateway
  <2>5. \A p \in SysOps : SysArchiving(p)'
    BY <1>1, <2>1 DEF SysSound, SysHome, SysArchiving
  <2>6. \A p \in SysOps : SysTelling(p)'
    BY <1>1, <2>1 DEF SysSound, SysHome, SysTelling
  <2>7. prompt' # "none" => SysHome'
    BY <1>1, <2>1 DEF SysSound, SysHome
  <2> QED
    BY <2>2, <2>3, <2>4, <2>5, <2>6, <2>7 DEF SysSound
<1> QED
  BY <1>2, <1>3, <1>4 DEF SysInv

LEMMA SysGatewayUpStep ==
  ASSUME SysInv, SysGatewayUp
  PROVE  SysInv'
<1>1. /\ coordinator = "down" /\ coordinator' = "up"
      /\ UNCHANGED <<ledger, sysRow, asked, bound, prompt, device, deviceRow, sysOp, thread, sysFaults, slips>>
  BY DEF SysGatewayUp
<1>2. SysTypeOK'
  BY <1>1 DEF SysInv, SysTypeOK
<1>3. SysShape'
  <2>1. SysOneLine'
    BY <1>1 DEF SysInv, SysShape, SysOneLine
  <2>2. SysPlaced'
    BY <1>1 DEF SysInv, SysShape, SysPlaced
  <2>3. SysGateway'
    BY <1>1 DEF SysInv, SysShape, SysGateway
  <2> QED
    BY <2>1, <2>2, <2>3 DEF SysShape
<1>4. ASSUME "reply" \notin slips'
      PROVE  SysSound'
  <2>1. "reply" \notin slips /\ SysSound /\ SysShape /\ SysTypeOK
    BY <1>1, <1>4 DEF SysInv
  <2>2. SysLate'
    BY <1>1, <2>1 DEF SysSound, SysLate
  <2>3. SysRecords'
    BY <1>1, <2>1 DEF SysSound, SysHome, SysRecords
  <2>4. \A p \in SysOps : SysOpening(p)'
    BY <1>1, <2>1 DEF SysSound, SysOpening
  <2>5. \A p \in SysOps : SysArchiving(p)'
    BY <1>1, <2>1 DEF SysSound, SysHome, SysArchiving
  <2>6. \A p \in SysOps : SysTelling(p)'
    BY <1>1, <2>1 DEF SysSound, SysHome, SysTelling
  <2>7. prompt' # "none" => SysHome'
    BY <1>1, <2>1 DEF SysSound, SysHome
  <2> QED
    BY <2>2, <2>3, <2>4, <2>5, <2>6, <2>7 DEF SysSound
<1> QED
  BY <1>2, <1>3, <1>4 DEF SysInv

LEMMA SysLineLostStep ==
  ASSUME SysInv, NEW o \in SysOps, SysLineLost(o)
  PROVE  SysInv'
<1>1. /\ sysOp[o].line
      /\ sysOp' \in [SysOps -> SysOperation] /\ ~sysOp'[o].line
      /\ sysOp'[o].at = sysOp[o].at /\ sysOp'[o].restoring = sysOp[o].restoring
      /\ sysOp'[o].confirmed = sysOp[o].confirmed /\ sysOp'[o].valid = sysOp[o].valid
      /\ \A p \in SysOps : p # o => sysOp'[p] = sysOp[p]
      /\ sysFaults' \in 0..MaxSysFaults
      /\ slips \subseteq slips' /\ slips' \subseteq {"reply", "muted"}
      /\ "reply" \notin slips' => deviceRow = "none" \/ sysOp[o].at # "told"
      /\ UNCHANGED <<ledger, sysRow, coordinator, asked, bound, prompt, device, deviceRow, thread>>
  <2>1. /\ sysOp[o].line /\ sysOp' = [sysOp EXCEPT ![o].line = FALSE]
        /\ slips' = SysUnanswered({o}) /\ UNCHANGED <<ledger, sysRow, coordinator, asked, bound, prompt, device, deviceRow, thread>>
    BY DEF SysLineLost, SysOnly
  <2>2. sysFaults' \in 0..MaxSysFaults
    BY FaultCount DEF SysLineLost, SysInv, SysTypeOK
  <2>3. slips \subseteq {"reply", "muted"} /\ sysOp \in [SysOps -> SysOperation]
    BY DEF SysInv, SysTypeOK
  <2>4. /\ slips \subseteq slips' /\ slips' \subseteq {"reply", "muted"}
        /\ "reply" \notin slips' => deviceRow = "none" \/ sysOp[o].at # "told"
    BY <2>1, <2>3 DEF SysUnanswered
  <2> QED
    BY <2>1, <2>2, <2>3, <2>4 DEF SysOperation
<1>2. SysTypeOK'
  BY <1>1 DEF SysInv, SysTypeOK
<1>3. SysShape'
  <2>1. SysOneLine'
    BY <1>1 DEF SysInv, SysShape, SysOneLine
  <2>2. SysPlaced'
    BY <1>1 DEF SysInv, SysShape, SysPlaced
  <2>3. SysGateway'
    BY <1>1 DEF SysInv, SysShape, SysGateway
  <2> QED
    BY <2>1, <2>2, <2>3 DEF SysShape
<1>4. ASSUME "reply" \notin slips'
      PROVE  SysSound'
  <2>1. "reply" \notin slips /\ SysSound /\ SysShape /\ SysTypeOK
    BY <1>1, <1>4 DEF SysInv
  <2>2. SysLate'
    BY <1>1, <2>1 DEF SysSound, SysLate
  <2>3. SysRecords'
    <3>1. \A p \in SysOps : sysOp[p].at = "told" /\ sysOp[p].line /\ deviceRow = "restored" =>
                              sysOp'[p].at = "told" /\ sysOp'[p].line
      BY <1>1, <1>4
    <3> QED
      BY <1>1, <2>1, <3>1 DEF SysSound, SysRecords, SysHome
  <2>4. \A p \in SysOps : SysOpening(p)'
    BY <1>1, <2>1 DEF SysSound, SysOpening
  <2>5. \A p \in SysOps : SysArchiving(p)'
    BY <1>1, <2>1 DEF SysSound, SysHome, SysArchiving
  <2>6. \A p \in SysOps : SysTelling(p)'
    BY <1>1, <2>1 DEF SysSound, SysHome, SysTelling
  <2>7. prompt' # "none" => SysHome'
    BY <1>1, <2>1 DEF SysSound, SysHome
  <2> QED
    BY <2>2, <2>3, <2>4, <2>5, <2>6, <2>7 DEF SysSound
<1> QED
  BY <1>2, <1>3, <1>4 DEF SysInv

LEMMA SysDeviceDownStep ==
  ASSUME SysInv, SysDeviceDown
  PROVE  SysInv'
<1>1. /\ device /\ device' = FALSE /\ sysFaults' \in 0..MaxSysFaults
      /\ sysOp' \in [SysOps -> SysOperation]
      /\ \A o \in SysOps :
           /\ ~sysOp'[o].line
           /\ sysOp'[o].confirmed => sysOp[o].confirmed
           /\ sysOp'[o].at = IF asked = o THEN "failed" ELSE "free"
           /\ asked # o => ~sysOp'[o].confirmed
      /\ slips \subseteq slips' /\ slips' \subseteq {"reply", "muted"}
      /\ "reply" \notin slips' => deviceRow = "none" \/ \A o \in SysOps : sysOp[o].at # "told"
      /\ UNCHANGED <<ledger, sysRow, coordinator, asked, bound, prompt, deviceRow, thread>>
  <2>1. /\ device /\ device' = FALSE
        /\ sysOp' = [o \in SysOps |->
             IF asked = o THEN [sysOp[o] EXCEPT !.at = "failed", !.line = FALSE] ELSE SysIdle]
        /\ slips' = SysUnanswered(SysOps) /\ UNCHANGED <<ledger, sysRow, coordinator, asked, bound, prompt, deviceRow, thread>>
    BY DEF SysDeviceDown
  <2>2. sysFaults' \in 0..MaxSysFaults
    BY FaultCount DEF SysDeviceDown, SysInv
  <2>3. slips \subseteq {"reply", "muted"} /\ sysOp \in [SysOps -> SysOperation]
    BY DEF SysInv, SysTypeOK
  <2>4. /\ slips \subseteq slips' /\ slips' \subseteq {"reply", "muted"}
        /\ "reply" \notin slips' => deviceRow = "none" \/ \A o \in SysOps : sysOp[o].at # "told"
    BY <2>1, <2>3 DEF SysUnanswered
  <2>5. ASSUME NEW o \in SysOps
        PROVE  /\ sysOp'[o] \in SysOperation /\ ~sysOp'[o].line
               /\ sysOp'[o].confirmed => sysOp[o].confirmed
               /\ sysOp'[o].at = IF asked = o THEN "failed" ELSE "free"
               /\ asked # o => ~sysOp'[o].confirmed
    <3>1. CASE asked = o
      <4> DEFINE mid == [sysOp[o] EXCEPT !.at = "failed"]
      <4>1. mid \in SysOperation /\ mid.at = "failed" /\ mid.confirmed = sysOp[o].confirmed
        BY <2>3 DEF SysOperation, SysPlaces
      <4>2. sysOp'[o] = [mid EXCEPT !.line = FALSE]
        BY <2>1, <3>1
      <4> HIDE DEF mid
      <4> QED
        BY <3>1, <4>1, <4>2 DEF SysOperation
    <3>2. CASE asked # o
      <4>1. sysOp'[o] = SysIdle
        BY <2>1, <3>2
      <4> QED
        BY <3>2, <4>1 DEF SysIdle, SysOperation, SysPlaces
    <3> QED
      BY <3>1, <3>2
  <2>6. sysOp' \in [SysOps -> SysOperation]
    BY <2>1, <2>5
  <2> QED
    BY <2>1, <2>2, <2>4, <2>5, <2>6
<1>2. SysTypeOK'
  BY <1>1 DEF SysInv, SysTypeOK
<1>3. SysShape'
  <2>1. SysOneLine'
    BY <1>1 DEF SysInv, SysShape, SysOneLine
  <2>2. SysPlaced'
    BY <1>1 DEF SysInv, SysShape, SysPlaced
  <2>3. SysGateway'
    BY <1>1 DEF SysInv, SysShape, SysGateway
  <2> QED
    BY <2>1, <2>2, <2>3 DEF SysShape
<1>4. ASSUME "reply" \notin slips'
      PROVE  SysSound'
  <2>1. "reply" \notin slips /\ SysSound /\ SysShape /\ SysTypeOK
    BY <1>1, <1>4 DEF SysInv
  <2>2. SysLate'
    BY <1>1, <2>1 DEF SysSound, SysLate
  <2>3. SysRecords'
    <3>1. deviceRow = "none" \/ \A p \in SysOps : sysOp[p].at # "told"
      BY <1>1, <1>4
    <3>2. ~ledger.duty => deviceRow = "none"
      BY <2>1, <3>1 DEF SysSound, SysRecords
    <3> QED
      BY <1>1, <2>1, <3>2 DEF SysSound, SysRecords, SysHome
  <2>4. \A p \in SysOps : SysOpening(p)'
    BY <1>1, <2>1 DEF SysSound, SysOpening
  <2>5. \A p \in SysOps : SysArchiving(p)'
    BY <1>1, <2>1 DEF SysSound, SysHome, SysArchiving
  <2>6. \A p \in SysOps : SysTelling(p)'
    BY <1>1, <2>1 DEF SysSound, SysHome, SysTelling
  <2>7. prompt' # "none" => SysHome'
    BY <1>1, <2>1 DEF SysSound, SysHome
  <2> QED
    BY <2>2, <2>3, <2>4, <2>5, <2>6, <2>7 DEF SysSound
<1> QED
  BY <1>2, <1>3, <1>4 DEF SysInv

LEMMA SysDeviceUpStep ==
  ASSUME SysInv, SysDeviceUp
  PROVE  SysInv'
<1>1. /\ ~device /\ device' = TRUE
      /\ deviceRow = "started" => ~thread.listed
      /\ thread' \in SysThread /\ thread'.late = thread.late /\ thread'.failed = thread.failed
      /\ IF deviceRow \in {"started", "confirmed"} THEN deviceRow' = "restored" /\ thread'.listed
         ELSE deviceRow' = deviceRow /\ thread' = thread
      /\ UNCHANGED <<ledger, sysRow, coordinator, asked, bound, prompt, sysOp, sysFaults, slips>>
  BY DEF SysDeviceUp, SysInv, SysTypeOK, SysThread
<1>2. SysTypeOK'
  BY <1>1 DEF SysInv, SysTypeOK
<1>3. SysShape'
  <2>1. SysOneLine'
    BY <1>1 DEF SysInv, SysShape, SysOneLine
  <2>2. SysPlaced'
    BY <1>1 DEF SysInv, SysShape, SysPlaced
  <2>3. SysGateway'
    BY <1>1 DEF SysInv, SysShape, SysGateway
  <2> QED
    BY <2>1, <2>2, <2>3 DEF SysShape
<1>4. ASSUME "reply" \notin slips'
      PROVE  SysSound'
  <2>1. "reply" \notin slips /\ SysSound /\ SysShape /\ SysTypeOK
    BY <1>1, <1>4 DEF SysInv
  <2>2. SysLate'
    BY <1>1, <2>1 DEF SysSound, SysLate
  <2>3. SysRecords'
    BY <1>1, <2>1 DEF SysSound, SysHome, SysRecords, SysShape, SysOneLine, SysPlaced, SysLate
  <2>4. \A p \in SysOps : SysOpening(p)'
    BY <1>1, <2>1 DEF SysSound, SysOpening
  <2>5. \A p \in SysOps : SysArchiving(p)'
    BY <1>1, <2>1 DEF SysSound, SysHome, SysArchiving
  <2>6. \A p \in SysOps : SysTelling(p)'
    BY <1>1, <2>1 DEF SysSound, SysHome, SysTelling
  <2>7. prompt' # "none" => SysHome'
    BY <1>1, <2>1 DEF SysSound, SysHome
  <2> QED
    BY <2>2, <2>3, <2>4, <2>5, <2>6, <2>7 DEF SysSound
<1> QED
  BY <1>2, <1>3, <1>4 DEF SysInv

LEMMA SysArchivedLateStep ==
  ASSUME SysInv, SysArchivedLate
  PROVE  SysInv'
<1>1. /\ thread.late
      /\ thread' \in SysThread /\ ~thread'.late /\ ~thread'.listed /\ thread'.failed = thread.failed
      /\ UNCHANGED <<ledger, sysRow, coordinator, asked, bound, prompt, device, deviceRow, sysOp, sysFaults, slips>>
  <2> DEFINE r1 == [thread EXCEPT !.late = FALSE]
             r2 == [r1 EXCEPT !.listed = FALSE]
             r3 == [r2 EXCEPT !.runtime = "notLoaded"]
  <2>1. thread.late /\ UNCHANGED <<ledger, sysRow, coordinator, asked, bound, prompt, device, deviceRow, sysOp, sysFaults, slips>>
    BY DEF SysArchivedLate, SysNativeOnly
  <2>2. thread' = r3
    BY DEF SysArchivedLate
  <2>3. r1 \in SysThread /\ ~r1.late /\ r1.failed = thread.failed
    BY DEF SysInv, SysTypeOK, SysThread
  <2> HIDE DEF r1
  <2>4. r2 \in SysThread /\ ~r2.late /\ ~r2.listed /\ r2.failed = thread.failed
    BY <2>3 DEF SysThread
  <2> HIDE DEF r2
  <2>5. r3 \in SysThread /\ ~r3.late /\ ~r3.listed /\ r3.failed = thread.failed
    BY <2>4 DEF SysThread
  <2> QED
    BY <2>1, <2>2, <2>5
<1>2. SysTypeOK'
  BY <1>1 DEF SysInv, SysTypeOK
<1>3. SysShape'
  <2>1. SysOneLine'
    BY <1>1 DEF SysInv, SysShape, SysOneLine
  <2>2. SysPlaced'
    BY <1>1 DEF SysInv, SysShape, SysPlaced
  <2>3. SysGateway'
    BY <1>1 DEF SysInv, SysShape, SysGateway
  <2> QED
    BY <2>1, <2>2, <2>3 DEF SysShape
<1>4. ASSUME "reply" \notin slips'
      PROVE  SysSound'
  <2>1. "reply" \notin slips /\ SysSound /\ SysShape /\ SysTypeOK
    BY <1>1, <1>4 DEF SysInv
  <2>2. SysLate'
    BY <1>1, <2>1 DEF SysSound, SysLate
  <2>3. SysRecords'
    BY <1>1, <2>1 DEF SysSound, SysHome, SysRecords
  <2>4. \A p \in SysOps : SysOpening(p)'
    BY <1>1, <2>1 DEF SysSound, SysOpening
  <2>5. \A p \in SysOps : SysArchiving(p)'
    BY <1>1, <2>1 DEF SysSound, SysHome, SysArchiving
  <2>6. \A p \in SysOps : SysTelling(p)'
    BY <1>1, <2>1 DEF SysSound, SysHome, SysTelling
  <2>7. prompt' # "none" => SysHome'
    BY <1>1, <2>1 DEF SysSound, SysHome
  <2> QED
    BY <2>2, <2>3, <2>4, <2>5, <2>6, <2>7 DEF SysSound
<1> QED
  BY <1>2, <1>3, <1>4 DEF SysInv

LEMMA SysTurnStartsStep ==
  ASSUME SysInv, SysTurnStarts
  PROVE  SysInv'
<1>1. /\ prompt = "submitting" /\ prompt' \in {"none", "running"}
      /\ thread' \in SysThread /\ thread'.listed = thread.listed /\ thread'.late = thread.late
      /\ prompt' = "running" => ~thread'.failed
      /\ UNCHANGED <<ledger, sysRow, coordinator, asked, bound, device, deviceRow, sysOp, sysFaults, slips>>
  <2>1. prompt = "submitting" /\ UNCHANGED <<ledger, sysRow, coordinator, asked, bound, device, deviceRow, sysOp, sysFaults, slips>>
    BY DEF SysTurnStarts, SysNativeOnly
  <2>2. thread \in SysThread
    BY DEF SysInv, SysTypeOK
  <2>3. CASE prompt' = "none" /\ UNCHANGED thread
    BY <2>1, <2>2, <2>3
  <2>4. CASE prompt' = "running" /\ thread' = [thread EXCEPT !.runtime = "active", !.failed = FALSE]
    <3> DEFINE mid == [thread EXCEPT !.runtime = "active"]
    <3>1. mid \in SysThread /\ mid.listed = thread.listed /\ mid.late = thread.late
      BY <2>2 DEF SysThread
    <3>2. thread' = [mid EXCEPT !.failed = FALSE]
      BY <2>4
    <3> HIDE DEF mid
    <3>3. /\ thread' \in SysThread /\ thread'.listed = thread.listed /\ thread'.late = thread.late
          /\ ~thread'.failed
      BY <3>1, <3>2 DEF SysThread
    <3> QED
      BY <2>1, <2>4, <3>3
  <2> QED
    BY <2>3, <2>4 DEF SysTurnStarts
<1>2. SysTypeOK'
  BY <1>1 DEF SysInv, SysTypeOK
<1>3. SysShape'
  <2>1. SysOneLine'
    BY <1>1 DEF SysInv, SysShape, SysOneLine
  <2>2. SysPlaced'
    BY <1>1 DEF SysInv, SysShape, SysPlaced
  <2>3. SysGateway'
    BY <1>1 DEF SysInv, SysShape, SysGateway
  <2> QED
    BY <2>1, <2>2, <2>3 DEF SysShape
<1>4. ASSUME "reply" \notin slips'
      PROVE  SysSound'
  <2>1. "reply" \notin slips /\ SysSound /\ SysShape /\ SysTypeOK
    BY <1>1, <1>4 DEF SysInv
  <2>2. SysLate'
    BY <1>1, <2>1 DEF SysSound, SysLate
  <2>3. SysRecords'
    BY <1>1, <2>1 DEF SysSound, SysHome, SysRecords
  <2>4. \A p \in SysOps : SysOpening(p)'
    BY <1>1, <2>1 DEF SysSound, SysOpening
  <2>5. \A p \in SysOps : SysArchiving(p)'
    BY <1>1, <2>1 DEF SysSound, SysHome, SysArchiving
  <2>6. \A p \in SysOps : SysTelling(p)'
    BY <1>1, <2>1 DEF SysSound, SysHome, SysTelling
  <2>7. prompt' # "none" => SysHome'
    BY <1>1, <2>1 DEF SysSound, SysHome
  <2> QED
    BY <2>2, <2>3, <2>4, <2>5, <2>6, <2>7 DEF SysSound
<1> QED
  BY <1>2, <1>3, <1>4 DEF SysInv

LEMMA SysTurnEndsStep ==
  ASSUME SysInv, SysTurnEnds
  PROVE  SysInv'
<1>1. /\ prompt = "running" /\ prompt' = "none"
      /\ thread' \in SysThread /\ thread'.listed = thread.listed /\ thread'.late = thread.late
      /\ UNCHANGED <<ledger, sysRow, coordinator, asked, bound, device, deviceRow, sysOp, sysFaults, slips>>
  BY DEF SysTurnEnds, SysNativeOnly, SysInv, SysTypeOK, SysThread
<1>2. SysTypeOK'
  BY <1>1 DEF SysInv, SysTypeOK
<1>3. SysShape'
  <2>1. SysOneLine'
    BY <1>1 DEF SysInv, SysShape, SysOneLine
  <2>2. SysPlaced'
    BY <1>1 DEF SysInv, SysShape, SysPlaced
  <2>3. SysGateway'
    BY <1>1 DEF SysInv, SysShape, SysGateway
  <2> QED
    BY <2>1, <2>2, <2>3 DEF SysShape
<1>4. ASSUME "reply" \notin slips'
      PROVE  SysSound'
  <2>1. "reply" \notin slips /\ SysSound /\ SysShape /\ SysTypeOK
    BY <1>1, <1>4 DEF SysInv
  <2>2. SysLate'
    BY <1>1, <2>1 DEF SysSound, SysLate
  <2>3. SysRecords'
    BY <1>1, <2>1 DEF SysSound, SysHome, SysRecords
  <2>4. \A p \in SysOps : SysOpening(p)'
    BY <1>1, <2>1 DEF SysSound, SysOpening
  <2>5. \A p \in SysOps : SysArchiving(p)'
    BY <1>1, <2>1 DEF SysSound, SysHome, SysArchiving
  <2>6. \A p \in SysOps : SysTelling(p)'
    BY <1>1, <2>1 DEF SysSound, SysHome, SysTelling
  <2>7. prompt' # "none" => SysHome'
    BY <1>1, <2>1 DEF SysSound, SysHome
  <2> QED
    BY <2>2, <2>3, <2>4, <2>5, <2>6, <2>7 DEF SysSound
<1> QED
  BY <1>2, <1>3, <1>4 DEF SysInv

LEMMA SysDeviceStepStep ==
  ASSUME SysInv, NEW o \in SysOps, SysDeviceStep(o)
  PROVE  SysInv'
<1>1. CASE SysAsk(o)
  BY <1>1, SysAskStep
<1>2. CASE SysInspect(o)
  BY <1>2, SysInspectStep
<1>3. CASE SysAnnounce(o)
  BY <1>3, SysAnnounceStep
<1>4. CASE SysRecordDuty(o)
  BY <1>4, SysRecordDutyStep
<1>5. CASE SysGuardArchive(o)
  BY <1>5, SysGuardArchiveStep
<1>6. CASE SysArchive(o)
  BY <1>6, SysArchiveStep
<1>7. CASE SysTellArchived(o)
  BY <1>7, SysTellArchivedStep
<1>8. CASE SysRestore(o)
  BY <1>8, SysRestoreStep
<1>9. CASE SysTell(o)
  BY <1>9, SysTellStep
<1>10. CASE SysTold(o)
  BY <1>10, SysToldStep
<1>11. CASE SysGuardResume(o)
  BY <1>11, SysGuardResumeStep
<1>12. CASE SysResume(o)
  BY <1>12, SysResumeStep
<1> QED
  BY <1>1, <1>2, <1>3, <1>4, <1>5, <1>6, <1>7, <1>8, <1>9, <1>10, <1>11, <1>12 DEF SysDeviceStep

-----------------------------------------------------------------------------
(* The theorems.                                                            *)

\* Where an operation stands, what the Gateway's ledger and the device's record
\* say and where the native thread is belong together, whatever dies in between.
THEOREM SysInvariant == SysSpec => []SysInv
<1>1. ASSUME SysInit
      PROVE  SysInv
  <2>1. SysIdle \in SysOperation /\ SysIdle.at = "free" /\ ~SysIdle.line /\ ~SysIdle.confirmed
    BY DEF SysIdle, SysOperation, SysPlaces
  <2>2. SysTypeOK
    BY <1>1, <2>1, SystemRecoveryAssumption
       DEF SysInit, SysTypeOK, SysRecord, SysPhases, SysThread
  <2>3. \A o \in SysOps : sysOp[o].at = "free" /\ ~sysOp[o].line /\ ~sysOp[o].confirmed
    BY <1>1, <2>1 DEF SysInit
  <2>4. SysShape
    BY <1>1, <2>3, SystemRecoveryAssumption
    DEF SysInit, SysShape, SysOneLine, SysPlaced, SysGateway
  <2>5. SysSound
    BY <1>1, <2>3
    DEF SysInit, SysSound, SysLate, SysRecords, SysHome, SysOpening, SysArchiving, SysTelling
  <2> QED
    BY <2>2, <2>4, <2>5 DEF SysInv
<1>2. ASSUME SysInv, [SysNext]_sysVars
      PROVE  SysInv'
  <2>1. ASSUME NEW o \in SysOps, SysRequestRestore(o)
        PROVE  SysInv'
    BY <1>2, <2>1, SysRequestRestoreStep
  <2>2. ASSUME NEW o \in SysOps, SysRequestRecover(o)
        PROVE  SysInv'
    BY <1>2, <2>2, SysRequestRecoverStep
  <2>3. ASSUME NEW o \in SysOps, SysFinish(o)
        PROVE  SysInv'
    BY <1>2, <2>3, SysFinishStep
  <2>4. ASSUME NEW o \in SysOps, SysForget(o)
        PROVE  SysInv'
    BY <1>2, <2>4, SysForgetStep
  <2>5. ASSUME NEW o \in SysOps, SysLineLost(o)
        PROVE  SysInv'
    BY <1>2, <2>5, SysLineLostStep
  <2>6. ASSUME NEW o \in SysOps, SysDeviceStep(o)
        PROVE  SysInv'
    BY <1>2, <2>6, SysDeviceStepStep
  <2>7. CASE SysReconcile
    BY <1>2, <2>7, SysReconcileStep
  <2>8. CASE SysInput
    BY <1>2, <2>8, SysInputStep
  <2>9. CASE SysRebind
    BY <1>2, <2>9, SysRebindStep
  <2>10. CASE SysStop
    BY <1>2, <2>10, SysStopStep
  <2>11. CASE SysGatewayDown
    BY <1>2, <2>11, SysGatewayDownStep
  <2>12. CASE SysGatewayUp
    BY <1>2, <2>12, SysGatewayUpStep
  <2>13. CASE SysDeviceDown
    BY <1>2, <2>13, SysDeviceDownStep
  <2>14. CASE SysDeviceUp
    BY <1>2, <2>14, SysDeviceUpStep
  <2>15. CASE SysArchivedLate
    BY <1>2, <2>15, SysArchivedLateStep
  <2>16. CASE SysTurnStarts
    BY <1>2, <2>16, SysTurnStartsStep
  <2>17. CASE SysTurnEnds
    BY <1>2, <2>17, SysTurnEndsStep
  <2>18. CASE UNCHANGED sysVars
    BY <1>2, <2>18 DEF sysVars, SysInv, SysTypeOK, SysShape, SysOneLine, SysPlaced, SysGateway,
      SysSound, SysLate, SysRecords, SysHome, SysOpening, SysArchiving, SysTelling
  <2> QED
    BY <1>2, <2>1, <2>2, <2>3, <2>4, <2>5, <2>6, <2>7, <2>8, <2>9, <2>10, <2>11, <2>12, <2>13,
       <2>14, <2>15, <2>16, <2>17, <2>18 DEF SysNext
<1> QED
  BY <1>1, <1>2, PTL DEF SysSpec

\* A thread that recovery put away, or may still put away, is on record in the
\* Gateway's ledger, as long as every answer to restored has reached the device.
THEOREM DutyIsKept == SysSpec => []SysDutyKept
<1>1. SysInv => SysDutyKept
  BY DEF SysInv, SysSound, SysRecords, SysHome, SysDutyKept, SysClearedWhenActive
<1> QED
  BY <1>1, SysInvariant, PTL

\* An input that was let in never meets a thread that recovery has put away or is
\* about to put away.
THEOREM InputIsApart == SysSpec => []SysInputApart
<1>1. SysInv => SysInputApart
  BY DEF SysInv, SysSound, SysHome, SysInputApart
<1> QED
  BY <1>1, SysInvariant, PTL

-----------------------------------------------------------------------------
(* Capacity recovery: the inductive invariant.                             *)

CapKnown(r) == r.turns \union r.retired

\* Resumptions of these turns are excepted: user input gave them up, or a record was
\* begun for a turn of its own predecessor.
CapExcepted == forgiven \union rearmed

\* An attempt that may have been sent, and whose turn is not known.
CapPending(r) == r.status \in {"submitting", "uncertain"} /\ r.accepted = 0

\* The turns between two places, each started by a client id that is not excepted.
CapChain(first, last) ==
  /\ first \in DOMAIN turns /\ last \in DOMAIN turns /\ first <= last
  /\ \A t \in first..last : turns[t].client # 0 /\ clients[turns[t].client] \notin CapExcepted

\* The native thread.
CapTurnsOK ==
  /\ \A t \in DOMAIN turns : turns[t].status = "active" => t = Len(turns)
  /\ \A t \in DOMAIN turns : turns[t].client # 0 =>
       /\ turns[t].client \in submitted \ wire
       /\ clients[turns[t].client] < t
  /\ \A s, t \in DOMAIN turns : turns[s].client # 0 /\ turns[s].client = turns[t].client => s = t
  /\ \A c \in submitted : clients[c] \in DOMAIN turns

\* A client id that was still in doubt when a later one was sent is excepted.
CapOrderOK == \A c, d \in submitted :
  c < d /\ (c \in wire \/ \E t \in DOMAIN turns : turns[t].client = c /\ t > clients[d])
    => clients[c] \in CapExcepted

CapChainsOK == \A first, last \in DOMAIN turns : CapChain(first, last) => last < first + Limit

\* A record by itself.
CapRowOK(r) ==
  /\ r.status # "none" => r.turn \in r.turns
  /\ CapKnown(r) \subseteq DOMAIN turns
  /\ r.status = "none" => CapKnown(r) = {}
  /\ r.client \in 0..Len(clients)
  /\ r.status = "running" => r.accepted # 0
  /\ r.status = "submitting" => r.accepted = 0
  /\ r.status = "waiting" => r.accepted = 0 /\ ~r.cancelFuture /\ r.attempts < Limit
  /\ Live(r) /\ r.cancelFuture => r.accepted # 0
  /\ CapPending(r) => r.client # 0 /\ clients[r.client] = r.turn /\ r.attempts > 0
  /\ r.accepted # 0 => /\ r.accepted \in r.turns /\ r.client # 0
                       /\ r.accepted \in DOMAIN turns /\ turns[r.accepted].client = r.client

\* A record, and what was sent: it knows every turn that was resumed; what it may
\* resume next was not resumed yet.
CapSentOK(r) ==
  /\ \A c \in submitted : clients[c] \in CapKnown(r)
  /\ \A c \in submitted : r.accepted # 0 /\ clients[c] = r.accepted => clients[c] \in rearmed
  /\ \A c \in submitted : Live(r) /\ r.accepted = 0 /\ clients[c] = r.turn =>
       clients[c] \in rearmed \/ (CapPending(r) /\ c = r.client)
  /\ \A c \in submitted : CapPending(r) => c <= r.client

\* A record, and what may still be applied or was applied unknown to it.
CapDoubtOK(r) ==
  /\ \A c \in wire : clients[c] \in CapExcepted \/ (CapPending(r) /\ c = r.client)
  /\ \A t \in DOMAIN turns : turns[t].client # 0 =>
       \/ t \in CapKnown(r) \/ t < Len(turns) \/ turns[t].status = "ended"
       \/ clients[turns[t].client] \in CapExcepted \/ (CapPending(r) /\ turns[t].client = r.client)

\* A record counts the automatic turns that lead to the one it resumes.
CapCountOK(r) ==
  /\ Live(r) /\ r.accepted # 0 => \A first \in DOMAIN turns :
       CapChain(first, r.accepted) => r.accepted < first + r.attempts
  /\ r.status = "waiting" /\ r.turn \notin rearmed => \A first \in DOMAIN turns :
       CapChain(first, r.turn) => r.turn < first + r.attempts
  /\ CapPending(r) /\ r.turn \notin rearmed => \A first \in DOMAIN turns :
       CapChain(first, r.turn) => r.turn + 1 < first + r.attempts

CapRecordOK(r) == CapRowOK(r) /\ CapSentOK(r) /\ CapDoubtOK(r) /\ CapCountOK(r)

\* What user input gave up is known, and not what the record resumes next.
CapForgivenOK(r) ==
  /\ forgiven \subseteq CapKnown(r)
  /\ Live(r) /\ ~r.cancelFuture => NextResumed(r) \notin forgiven \ rearmed

\* Where an attempt stands.
CapExecOK ==
  /\ exec \in {"reading", "listing"} =>
       /\ rec.status \in {"submitting", "cancelled"} /\ rec.accepted = 0
       /\ rec.client \in DOMAIN clients \ submitted /\ ~check.on
       /\ rec.status = "submitting" => file = rec
  /\ exec = "listing" /\ rec.status = "submitting" => \A t \in DOMAIN turns :
       t > rec.turn /\ turns[t].client # 0 => clients[turns[t].client] \in CapExcepted
  /\ exec = "sent" =>
       /\ rec.status \in {"submitting", "cancelled"} /\ rec.accepted = 0
       /\ rec.client \in submitted
       /\ \A t \in CapKnown(rec) : turns[t].client # rec.client
  /\ exec \in {"accepting", "observing"} => rec.status \in {"running", "cancelled"} /\ rec.accepted # 0
  /\ exec = "observing" => rec.turn = rec.accepted

\* A snapshot is a past of the thread.
CapPast(view) ==
  /\ view \in Seq(Turn) /\ Len(view) <= Len(turns)
  /\ \A t \in DOMAIN view : /\ view[t].client = turns[t].client
                            /\ view[t].status # "active" => view[t].status = turns[t].status

CapChecksOK ==
  /\ CapPast(check.view) /\ CapPast(settle.view)
  /\ check.on => /\ exec = "idle" /\ rec.status \notin {"submitting", "running"}
                 /\ check.scopes \intersect rec.retired = {}
  /\ check.on /\ check.read /\ check.view # <<>> =>
       LET t == Len(check.view)
       IN  turns[t].client # 0 =>
             \/ t \in CapKnown(rec) \/ turns[t].status = "ended"
             \/ clients[turns[t].client] \in CapExcepted
             \/ (CapPending(rec) /\ turns[t].client = rec.client)

CapNativeOK == CapTurnsOK /\ CapOrderOK /\ CapChainsOK /\ ResumedOnce

CapInv ==
  /\ TypeOK /\ CapNativeOK
  /\ CapRecordOK(rec) /\ CapRecordOK(file)
  /\ CapForgivenOK(rec) /\ CapExecOK /\ CapChecksOK

-----------------------------------------------------------------------------
(* Capacity recovery: what the steps leave alone.                          *)

\* What a record is judged by: exceptions may be added.
LEMMA CapRecordKept ==
  ASSUME UNCHANGED <<turns, clients, submitted, wire>>,
         forgiven \subseteq forgiven', rearmed \subseteq rearmed', NEW r
  PROVE  /\ CapRowOK(r) => CapRowOK(r)'
         /\ CapSentOK(r) => CapSentOK(r)'
         /\ CapDoubtOK(r) => CapDoubtOK(r)'
         /\ CapCountOK(r) => CapCountOK(r)'
<1>1. CapRowOK(r) => CapRowOK(r)'
  BY DEF CapRowOK, CapKnown, CapPending
<1>2. CapSentOK(r) => CapSentOK(r)'
  BY DEF CapSentOK, CapKnown, CapPending
<1>3. CapDoubtOK(r) => CapDoubtOK(r)'
  BY DEF CapDoubtOK, CapKnown, CapPending, CapExcepted
<1>4. CapCountOK(r) => CapCountOK(r)'
  <2>1. ASSUME NEW first, NEW last, CapChain(first, last)'
        PROVE  CapChain(first, last)
    BY <2>1 DEF CapChain, CapExcepted
  <2> QED
    BY <2>1 DEF CapCountOK, CapPending
<1> QED
  BY <1>1, <1>2, <1>3, <1>4

LEMMA CapNativeKept ==
  ASSUME CapNativeOK, UNCHANGED <<turns, clients, submitted, wire>>,
         forgiven \subseteq forgiven', rearmed \subseteq rearmed'
  PROVE  CapNativeOK'
<1>1. CapTurnsOK'
  BY DEF CapNativeOK, CapTurnsOK
<1>2. CapOrderOK'
  BY DEF CapNativeOK, CapOrderOK, CapExcepted
<1>3. CapChainsOK'
  <2>1. ASSUME NEW first, NEW last, CapChain(first, last)'
        PROVE  CapChain(first, last)
    BY <2>1 DEF CapChain, CapExcepted
  <2> QED
    BY <2>1 DEF CapNativeOK, CapChainsOK
<1>4. ResumedOnce'
  BY DEF CapNativeOK, ResumedOnce
<1> QED
  BY <1>1, <1>2, <1>3, <1>4 DEF CapNativeOK

\* CapOrderOK, for any set of exceptions.
CapOrderIn(X) == \A c, d \in submitted :
  c < d /\ (c \in wire \/ \E t \in DOMAIN turns : turns[t].client = c /\ t > clients[d])
    => clients[c] \in X

\* Between two neighbours of a chain, the later one resumes the earlier one.
LEMMA CapLink ==
  ASSUME TypeOK, CapTurnsOK, NEW X, CapOrderIn(X), NEW t \in DOMAIN turns, t # 1,
         turns[t].client # 0, clients[turns[t].client] \notin X,
         turns[t - 1].client # 0, clients[turns[t - 1].client] \notin X
  PROVE  t - 1 \in DOMAIN turns /\ clients[turns[t].client] = t - 1
<1>1. t \in Nat /\ t - 1 \in DOMAIN turns /\ DOMAIN turns \subseteq Nat
  BY DEF TypeOK
<1> DEFINE c == turns[t].client
           d == turns[t - 1].client
<1>2. /\ c \in submitted /\ d \in submitted /\ c # d
      /\ clients[c] < t /\ clients[c] \in DOMAIN turns
  <2>1. c \in submitted /\ d \in submitted /\ clients[c] < t
    BY <1>1 DEF CapTurnsOK
  <2>2. c # d
    BY <1>1 DEF CapTurnsOK
  <2> QED
    BY <2>1, <2>2 DEF CapTurnsOK
<1>3. c \in Nat /\ d \in Nat
  BY <1>2 DEF TypeOK
<1>4. d < c
  \* The later turn would otherwise be one that was in doubt when d was sent.
  <2>1. ASSUME c < d  PROVE FALSE
    <3>1. clients[d] < t - 1 /\ clients[d] \in DOMAIN turns
      BY <1>1, <1>2 DEF CapTurnsOK
    <3>2. t > clients[d]
      BY <1>1, <3>1
    <3> QED
      BY <1>2, <2>1, <3>2 DEF CapOrderIn
  <2> QED
    BY <1>2, <1>3, <2>1
<1>5. ~(t - 1 > clients[c])
  BY <1>1, <1>2, <1>4 DEF CapOrderIn
<1> QED
  BY <1>1, <1>2, <1>5

\* A step of the native thread: a start is applied, or another writer's turn
\* appears, or the last turn ends.
CapNativeStep(c) ==
  /\ Len(turns') \in Len(turns)..(Len(turns) + 1)
  /\ turns' \in Seq(Turn)
  /\ \A t \in DOMAIN turns :
       /\ turns'[t].client = turns[t].client
       /\ turns[t].status # "active" => turns'[t].status = turns[t].status
       /\ turns'[t].status # turns[t].status => t = Len(turns')
  /\ \A t \in DOMAIN turns' : turns'[t].status = "active" => t = Len(turns')
  /\ Len(turns') > Len(turns) => turns'[Len(turns')].client = c
  /\ c = 0 \/ c \in wire
  /\ wire' = wire \ {c}
  /\ Len(turns') <= MaxTurns

LEMMA CapEnvNative ==
  ASSUME TypeOK, CapTurnsOK, Environment
  PROVE  /\ \E c : CapNativeStep(c)
         /\ UNCHANGED <<clients, submitted, rec, file, timer, check, settle, exec, forgiven, rearmed>>
         /\ eligible' \in BOOLEAN /\ faults' \in 0..MaxFaults
<1> USE DEF capacity
<1>t. turns \in Seq(Turn) /\ Len(turns) \in Nat /\ Len(turns) <= MaxTurns /\ MaxTurns \in Nat
  BY BoundsAssumption DEF TypeOK
<1>w. wire \subseteq Nat \ {0}
  BY DEF TypeOK
<1>a. \A t \in DOMAIN turns : turns[t].status = "active" => t = Len(turns)
  BY DEF CapTurnsOK
<1>f. faults \in 0..MaxFaults /\ eligible \in BOOLEAN
  BY DEF TypeOK
<1>n. ASSUME NEW c \in Nat, ~Active(turns), Len(turns) < MaxTurns, c = 0 \/ c \in wire,
             turns' = Append(turns, [client |-> c, status |-> "active"]), wire' = wire \ {c}
      PROVE  CapNativeStep(c)
  <2> DEFINE new == [client |-> c, status |-> "active"]
  <2>1. new \in Turn /\ new.client = c /\ new.status = "active"
    BY DEF Turn
  <2> HIDE DEF new
  <2>2. turns' = Append(turns, new)
    BY <1>n DEF new
  <2>3. /\ turns' \in Seq(Turn) /\ Len(turns') = Len(turns) + 1
        /\ DOMAIN turns' = 1..(Len(turns) + 1) /\ DOMAIN turns = 1..Len(turns)
        /\ \A t \in DOMAIN turns : turns'[t] = turns[t]
        /\ turns'[Len(turns) + 1] = new
    BY <2>1, <2>2, <1>t
  <2>4. \A t \in DOMAIN turns : turns[t].status # "active"
    BY <1>n, <1>a, <1>t DEF Active
  <2> QED
    BY <1>n, <1>t, <2>1, <2>3, <2>4 DEF CapNativeStep
<1>1. CASE ForeignStart
  <2>1. wire' = wire \ {0}
    BY <1>1, <1>w DEF ForeignStart
  <2> QED
    BY <1>1, <1>n, <1>f, <2>1 DEF ForeignStart
<1>2. ASSUME NEW outcome \in {"capacity", "ended"}, TurnEnds(outcome)
      PROVE  /\ CapNativeStep(0)
             /\ UNCHANGED <<clients, submitted, rec, file, timer, check, settle, exec, forgiven, rearmed>>
             /\ UNCHANGED <<eligible, faults>>
  <2>1. turns # <<>> /\ Len(turns) \in DOMAIN turns /\ turns[Len(turns)].status = "active"
    BY <1>2, <1>t DEF TurnEnds, Active
  <2> DEFINE n == Len(turns)
             e == [turns[n] EXCEPT !.status = outcome]
  <2>2. e \in Turn /\ e.client = turns[n].client /\ e.status = outcome
    <3>1. turns[n] \in Turn
      BY <2>1, <1>t
    <3> QED
      BY <1>2, <3>1 DEF Turn
  <2>3. turns' = [turns EXCEPT ![n] = e]
    BY <1>2 DEF TurnEnds
  <2> HIDE DEF e
  <2>4. /\ turns' \in Seq(Turn) /\ Len(turns') = Len(turns) /\ DOMAIN turns' = DOMAIN turns
        /\ \A t \in DOMAIN turns : turns'[t] = IF t = n THEN e ELSE turns[t]
    BY <2>1, <2>2, <2>3, <1>t
  <2>5. wire' = wire \ {0}
    BY <1>2, <1>w DEF TurnEnds
  <2>6. outcome # "active"
    BY <1>2
  <2>7. \A t \in DOMAIN turns : t # n => turns[t].status # "active"
    BY <1>a
  <2>8. /\ Len(turns') \in Len(turns)..(Len(turns) + 1) /\ Len(turns') <= MaxTurns
        /\ ~(Len(turns') > Len(turns))
    BY <2>4, <1>t
  <2> QED
    BY <1>2, <2>1, <2>2, <2>4, <2>5, <2>6, <2>7, <2>8 DEF CapNativeStep, TurnEnds
<1>3. ASSUME NEW c \in wire, ApplyStart(c)
      PROVE  /\ CapNativeStep(c)
             /\ UNCHANGED <<clients, submitted, rec, file, timer, check, settle, exec, forgiven, rearmed>>
             /\ UNCHANGED <<eligible, faults>>
  <2>0. c \in Nat
    BY <1>w
  <2>1. CASE Active(turns)
    <3>1. turns' = turns /\ wire' = wire \ {c}
      BY <1>3, <2>1 DEF ApplyStart
    <3> QED
      BY <1>3, <1>t, <1>a, <3>1 DEF CapNativeStep, ApplyStart
  <2>2. CASE ~Active(turns)
    <3>1. turns' = Append(turns, [client |-> c, status |-> "active"]) /\ wire' = wire \ {c} /\ Len(turns) < MaxTurns
      BY <1>3, <2>2 DEF ApplyStart
    <3> QED
      BY <1>3, <1>n, <2>0, <2>2, <3>1 DEF ApplyStart
  <2> QED
    BY <2>1, <2>2
<1>4. CASE Reroute
  <2>1. turns' = turns /\ wire' = wire \ {0}
    BY <1>4, <1>w DEF Reroute, native
  <2>2. CapNativeStep(0)
    BY <2>1, <1>t, <1>a DEF CapNativeStep
  <2>3. eligible' \in BOOLEAN /\ faults' \in 0..MaxFaults
    BY <1>4, <1>f, BoundsAssumption DEF Reroute, Fault
  <2> QED
    BY <1>4, <2>2, <2>3 DEF Reroute, native
<1> QED
  BY <1>1, <1>2, <1>3, <1>4, <1>f DEF Environment

\* A record under a step of the native thread.
LEMMA CapEnvRecord ==
  ASSUME TypeOK, CapTurnsOK, NEW c, CapNativeStep(c),
         UNCHANGED <<clients, submitted, forgiven, rearmed>>, NEW r \in Record, CapRecordOK(r)
  PROVE  CapRecordOK(r)'
<1>t. /\ DOMAIN turns = 1..Len(turns) /\ DOMAIN turns' = 1..Len(turns') /\ Len(turns) \in Nat
      /\ Len(turns') \in Nat /\ Len(turns) <= Len(turns') /\ Len(turns') <= Len(turns) + 1
  BY DEF TypeOK, CapNativeStep
<1>s. /\ \A t \in DOMAIN turns : turns'[t].client = turns[t].client
      /\ \A t \in DOMAIN turns' : t \notin DOMAIN turns => t = Len(turns') /\ turns'[t].client = c
      /\ c = 0 \/ c \in wire
  <2>1. \A t \in DOMAIN turns' : t \notin DOMAIN turns => t = Len(turns') /\ Len(turns') > Len(turns)
    BY <1>t
  <2> QED
    BY <2>1 DEF CapNativeStep
<1>d. DOMAIN turns \subseteq DOMAIN turns'
  BY <1>t
<1>r. CapRowOK(r) /\ CapSentOK(r) /\ CapDoubtOK(r) /\ CapCountOK(r)
  BY DEF CapRecordOK
<1>k. CapKnown(r)' = CapKnown(r) /\ CapPending(r)' = CapPending(r) /\ CapExcepted' = CapExcepted
  BY DEF CapKnown, CapPending, CapExcepted
<1>1. CapRowOK(r)'
  BY <1>r, <1>s, <1>d DEF CapRowOK, CapKnown, CapPending
<1>2. CapSentOK(r)'
  BY <1>r DEF CapSentOK, CapKnown, CapPending
<1>3. CapDoubtOK(r)'
  <2>1. \A d \in wire' : clients[d] \in CapExcepted \/ (CapPending(r) /\ d = r.client)
    BY <1>r DEF CapDoubtOK, CapNativeStep
  <2>2. ASSUME NEW t \in DOMAIN turns', turns'[t].client # 0
        PROVE  \/ t \in CapKnown(r) \/ t < Len(turns') \/ turns'[t].status = "ended"
               \/ clients[turns'[t].client] \in CapExcepted \/ (CapPending(r) /\ turns'[t].client = r.client)
    <3>1. CASE t \in DOMAIN turns
      <4>1. turns[t].status = "ended" => turns'[t].status = "ended"
        BY <3>1 DEF CapNativeStep
      <4>2. t < Len(turns) => t < Len(turns')
        BY <1>t, <3>1
      <4> QED
        BY <3>1, <4>1, <4>2, <2>2, <1>r, <1>s DEF CapDoubtOK
    <3>2. CASE t \notin DOMAIN turns
      BY <3>2, <2>2, <1>s, <1>r DEF CapDoubtOK
    <3> QED
      BY <3>1, <3>2
  <2> QED
    BY <2>1, <2>2, <1>k DEF CapDoubtOK
<1>4. CapCountOK(r)'
  <2>1. ASSUME NEW first \in DOMAIN turns', NEW last \in DOMAIN turns, CapChain(first, last)'
        PROVE  first \in DOMAIN turns /\ CapChain(first, last)
    <3>1. first \in DOMAIN turns /\ first..last \subseteq DOMAIN turns
      BY <2>1, <1>t DEF CapChain
    <3> QED
      BY <2>1, <3>1, <1>s, <1>k DEF CapChain
  <2>2. r.accepted # 0 => r.accepted \in DOMAIN turns
    BY <1>r DEF CapRowOK
  <2>3. r.status \in {"waiting", "submitting", "uncertain"} => r.turn \in DOMAIN turns
    BY <1>r DEF CapRowOK, CapKnown
  <2> QED
    BY <2>1, <2>2, <2>3, <1>r, <1>k DEF CapCountOK, CapPending, Live
<1> QED
  BY <1>1, <1>2, <1>3, <1>4 DEF CapRecordOK

LEMMA CapEnvNativeKept ==
  ASSUME TypeOK, CapNativeOK, CapRecordOK(rec), NEW c, CapNativeStep(c),
         UNCHANGED <<clients, submitted, rec, forgiven, rearmed>>, TypeOK'
  PROVE  CapNativeOK'
<1>i. CapTurnsOK /\ CapOrderOK /\ CapChainsOK /\ ResumedOnce
  BY DEF CapNativeOK
<1>t. /\ DOMAIN turns = 1..Len(turns) /\ DOMAIN turns' = 1..Len(turns') /\ Len(turns) \in Nat
      /\ Len(turns') \in Nat /\ Len(turns) <= Len(turns') /\ Len(turns') <= Len(turns) + 1
  BY DEF TypeOK, CapNativeStep
<1>s. /\ \A t \in DOMAIN turns : turns'[t].client = turns[t].client
      /\ \A t \in DOMAIN turns' : t \notin DOMAIN turns => t = Len(turns') /\ turns'[t].client = c /\ t = Len(turns) + 1
      /\ c = 0 \/ c \in wire
      /\ wire' = wire \ {c}
  <2>1. \A t \in DOMAIN turns' : t \notin DOMAIN turns => t = Len(turns') /\ Len(turns') > Len(turns) /\ t = Len(turns) + 1
    BY <1>t
  <2> QED
    BY <2>1 DEF CapNativeStep
<1>x. CapExcepted' = CapExcepted
  BY DEF CapExcepted
<1>c. /\ c # 0 => c \in submitted
      /\ \A t \in DOMAIN turns : turns[t].client # 0 => turns[t].client # c
      /\ \A d \in submitted : clients[d] \in DOMAIN turns
  <2>1. wire \subseteq submitted
    BY DEF TypeOK
  <2> QED
    BY <2>1, <1>s, <1>i DEF CapTurnsOK
<1>1. CapTurnsOK'
  <2>1. ASSUME NEW t \in DOMAIN turns', turns'[t].client # 0
        PROVE  turns'[t].client \in submitted' \ wire' /\ clients'[turns'[t].client] < t
    <3>1. CASE t \in DOMAIN turns
      BY <2>1, <3>1, <1>s, <1>i DEF CapTurnsOK
    <3>2. CASE t \notin DOMAIN turns
      <4>1. turns'[t].client = c /\ t = Len(turns) + 1 /\ c \in submitted
        BY <2>1, <3>2, <1>s, <1>c
      <4>2. clients[c] \in 1..Len(turns)
        BY <4>1, <1>c, <1>t
      <4>3. clients[c] < t
        BY <4>1, <4>2, <1>t
      <4> QED
        BY <4>1, <4>3, <1>s
    <3> QED
      BY <3>1, <3>2
  <2>2. ASSUME NEW s \in DOMAIN turns', NEW t \in DOMAIN turns', turns'[s].client # 0, turns'[s].client = turns'[t].client
        PROVE  s = t
    <3>1. CASE s \in DOMAIN turns /\ t \in DOMAIN turns
      BY <2>2, <3>1, <1>s, <1>i DEF CapTurnsOK
    <3> QED
      BY <3>1, <2>2, <1>s, <1>c
  <2>3. \A t \in DOMAIN turns' : turns'[t].status = "active" => t = Len(turns')
    BY DEF CapNativeStep
  <2>4. \A d \in submitted' : clients'[d] \in DOMAIN turns'
    BY <1>c, <1>t
  <2> QED
    BY <2>1, <2>2, <2>3, <2>4 DEF CapTurnsOK
<1>2. CapOrderOK'
  <2> SUFFICES ASSUME NEW a \in submitted, NEW d \in submitted, a < d,
                      a \in wire' \/ \E t \in DOMAIN turns' : turns'[t].client = a /\ t > clients[d]
               PROVE  clients[a] \in CapExcepted
    BY <1>x DEF CapOrderOK
  <2>1. CASE a \in wire
    BY <2>1, <1>i DEF CapOrderOK
  <2>2. ASSUME NEW t \in DOMAIN turns', turns'[t].client = a, t > clients[d], a \notin wire
        PROVE  clients[a] \in CapExcepted
    <3>0. a # 0
      BY DEF TypeOK
    <3>1. t \in DOMAIN turns
      BY <2>2, <1>s, <3>0
    <3> QED
      BY <2>2, <3>1, <1>s, <1>i DEF CapOrderOK
  <2> QED
    BY <2>1, <2>2, <1>s
<1>3. CapChainsOK'
  <2> SUFFICES ASSUME NEW first \in DOMAIN turns', NEW last \in DOMAIN turns', CapChain(first, last)'
               PROVE  last < first + Limit
    BY DEF CapChainsOK
  <2>l. Limit \in Nat \ {0} /\ first \in Nat /\ last \in Nat /\ first <= last
    BY BoundsAssumption, <1>t DEF CapChain
  <2>a. \A t \in first..last : t \in DOMAIN turns' /\ turns'[t].client # 0 /\ clients[turns'[t].client] \notin CapExcepted
    BY <1>x, <1>t, <2>l DEF CapChain
  <2>1. CASE last \in DOMAIN turns
    <3>1. first..last \subseteq DOMAIN turns /\ first \in DOMAIN turns
      BY <2>1, <2>l, <1>t
    <3>2. CapChain(first, last)
      BY <3>1, <2>1, <2>a, <2>l, <1>s DEF CapChain
    <3> QED
      BY <3>1, <3>2, <2>1, <1>i DEF CapChainsOK
  <2>2. CASE last \notin DOMAIN turns /\ first = last
    BY <2>2, <2>l
  <2>3. CASE last \notin DOMAIN turns /\ first # last
    \* The turn that follows the chain was started by the client id in doubt.
    <3>1. last = Len(turns) + 1 /\ turns'[last].client = c
      BY <2>3, <1>s
    <3>2. first <= Len(turns) /\ last \in first..last /\ Len(turns) \in first..last /\ Len(turns) = last - 1 /\ last # 1
      BY <3>1, <2>3, <2>l, <1>t
    <3>3. c # 0 /\ clients[c] \notin CapExcepted
      BY <3>1, <3>2, <2>a
    <3>4. CapPending(rec) /\ c = rec.client
      BY <3>3, <1>s DEF CapRecordOK, CapDoubtOK
    <3>5. clients[c] = rec.turn
      BY <3>4, <3>3 DEF CapRecordOK, CapRowOK
    <3>6. clients[c] = last - 1
      <4> DEFINE d == turns[last - 1].client
      <4>1. last - 1 \in DOMAIN turns /\ turns'[last - 1].client = d /\ d # 0 /\ clients[d] \notin CapExcepted
        <5>1. last - 1 \in first..last /\ last - 1 \in DOMAIN turns
          BY <3>1, <3>2, <1>t
        <5> QED
          BY <5>1, <2>a, <1>s
      <4>2. d \in submitted /\ d # c /\ c \in submitted /\ c \in wire
        BY <4>1, <3>3, <1>c, <1>s, <1>i DEF CapTurnsOK
      <4>3. c \in Nat /\ d \in Nat
        <5>1. clients \in Seq(TurnIds) /\ c \in DOMAIN clients /\ d \in DOMAIN clients
          BY <4>2 DEF TypeOK
        <5> QED
          BY <5>1
      <4>4. ~(c < d)
        BY <4>2, <3>3, <1>i DEF CapOrderOK
      <4>5. ~(last - 1 > clients[c])
        BY <4>1, <4>2, <4>3, <4>4, <1>i DEF CapOrderOK
      <4>6. clients[c] \in 1..Len(turns)
        BY <4>2, <1>c, <1>t
      <4> QED
        BY <4>5, <4>6, <3>1, <1>t
    <3>7. first \in DOMAIN turns /\ first..(last - 1) \subseteq first..last /\ first..(last - 1) \subseteq DOMAIN turns
          /\ last - 1 \in DOMAIN turns /\ first <= last - 1
      BY <3>1, <3>2, <2>l, <1>t
    <3>8. CapChain(first, last - 1)
      BY <3>7, <2>a, <1>s DEF CapChain
    <3>9. rec.turn + 1 < first + rec.attempts
      BY <3>3, <3>4, <3>5, <3>6, <3>7, <3>8 DEF CapRecordOK, CapCountOK, CapExcepted
    <3>10. rec.attempts \in 0..Limit
      BY DEF TypeOK, Record
    <3> QED
      BY <3>5, <3>6, <3>9, <3>10, <2>l
  <2> QED
    BY <2>1, <2>2, <2>3
<1>4. ResumedOnce'
  BY <1>i DEF ResumedOnce
<1> QED
  BY <1>1, <1>2, <1>3, <1>4 DEF CapNativeOK

LEMMA CapEnvironment ==
  ASSUME CapInv, Environment
  PROVE  CapInv'
<1>0. /\ TypeOK /\ CapNativeOK /\ CapTurnsOK /\ CapRecordOK(rec) /\ CapRecordOK(file)
      /\ CapForgivenOK(rec) /\ CapExecOK /\ CapChecksOK
  BY DEF CapInv, CapNativeOK
<1>u. /\ UNCHANGED <<clients, submitted, rec, file, timer, check, settle, exec, forgiven, rearmed>>
      /\ eligible' \in BOOLEAN /\ faults' \in 0..MaxFaults
  BY <1>0, CapEnvNative
<1>p. PICK c : CapNativeStep(c)
  BY <1>0, CapEnvNative
<1>t. /\ DOMAIN turns = 1..Len(turns) /\ DOMAIN turns' = 1..Len(turns') /\ Len(turns) \in Nat
      /\ Len(turns') \in Nat /\ Len(turns) <= Len(turns') /\ Len(turns') <= Len(turns) + 1
  BY <1>0, <1>p DEF TypeOK, CapNativeStep
<1>s. /\ \A t \in DOMAIN turns : turns'[t].client = turns[t].client
      /\ \A t \in DOMAIN turns : turns[t].status # "active" => turns'[t].status = turns[t].status
      /\ \A t \in DOMAIN turns' : t \notin DOMAIN turns => turns'[t].client = c
      /\ c = 0 \/ c \in wire
      /\ wire' \subseteq wire
      /\ DOMAIN turns \subseteq DOMAIN turns'
  <2>1. \A t \in DOMAIN turns' : t \notin DOMAIN turns => t = Len(turns') /\ Len(turns') > Len(turns)
    BY <1>t
  <2> QED
    BY <2>1, <1>p, <1>t DEF CapNativeStep
<1>x. CapExcepted' = CapExcepted /\ CapKnown(rec)' = CapKnown(rec) /\ CapPending(rec)' = CapPending(rec)
  BY <1>u DEF CapExcepted, CapKnown, CapPending
<1>k. CapKnown(rec) \subseteq DOMAIN turns
  BY <1>0 DEF CapRecordOK, CapRowOK
<1>1. TypeOK'
  <2>1. turns' \in Seq(Turn) /\ Len(turns') <= MaxTurns /\ wire' \subseteq submitted'
    BY <1>p, <1>0, <1>u DEF CapNativeStep, TypeOK
  <2>2. check'.scopes \subseteq DOMAIN turns'
    BY <1>0, <1>u, <1>s DEF TypeOK
  <2> QED
    BY <2>1, <2>2, <1>0, <1>u DEF TypeOK
<1>2. CapNativeOK'
  BY <1>0, <1>u, <1>p, <1>1, CapEnvNativeKept
<1>3. CapRecordOK(rec)' /\ CapRecordOK(file)'
  <2>1. ASSUME NEW r \in Record, CapRecordOK(r)
        PROVE  CapRecordOK(r)'
    BY <2>1, <1>0, <1>u, <1>p, CapEnvRecord
  <2>2. PICK r, f : r = rec /\ f = file
    OBVIOUS
  <2>3. CapRecordOK(r)' /\ CapRecordOK(f)'
    BY <2>1, <2>2, <1>0 DEF TypeOK
  <2>4. rec' = r /\ file' = f
    BY <2>2, <1>u
  <2> QED
    BY <2>3, <2>4 DEF CapRecordOK, CapRowOK, CapSentOK, CapDoubtOK, CapCountOK, CapKnown, CapPending
<1>4. CapForgivenOK(rec)'
  BY <1>0, <1>u DEF CapForgivenOK, CapKnown, Live, NextResumed
<1>5. CapExecOK'
  <2>1. ASSUME exec = "listing", rec.status = "submitting", NEW t \in DOMAIN turns', t > rec.turn, turns'[t].client # 0
        PROVE  clients[turns'[t].client] \in CapExcepted
    <3>1. CASE t \in DOMAIN turns
      BY <2>1, <3>1, <1>0, <1>s DEF CapExecOK
    <3>2. CASE t \notin DOMAIN turns
      <4>1. turns'[t].client = c /\ c \in wire /\ c \in submitted
        BY <2>1, <3>2, <1>s, <1>0 DEF TypeOK
      <4>2. rec.client \notin submitted
        BY <2>1, <1>0 DEF CapExecOK
      <4> QED
        BY <4>1, <4>2, <1>0 DEF CapRecordOK, CapDoubtOK
    <3> QED
      BY <3>1, <3>2
  <2>2. \A t \in CapKnown(rec) : turns'[t].client = turns[t].client
    BY <1>k, <1>s
  <2> QED
    BY <2>1, <2>2, <1>0, <1>u, <1>x DEF CapExecOK
<1>6. CapChecksOK'
  <2>1. ASSUME NEW view, CapPast(view)
        PROVE  CapPast(view)'
    <3>1. DOMAIN view \subseteq DOMAIN turns /\ Len(view) \in Nat
      BY <2>1, <1>t DEF CapPast
    <3>2. Len(view) <= Len(turns')
      BY <2>1, <3>1, <1>t DEF CapPast
    <3> QED
      BY <2>1, <3>1, <3>2, <1>s DEF CapPast
  <2>2. PICK v, w : v = check.view /\ w = settle.view
    OBVIOUS
  <2>3. CapPast(v)' /\ CapPast(w)'
    BY <2>1, <2>2, <1>0 DEF CapChecksOK
  <2>4. CapPast(check.view)' /\ CapPast(settle.view)'
    BY <2>2, <2>3, <1>u DEF CapPast
  <2>5. ASSUME check.on, check.read, check.view # <<>>
        PROVE  LET t == Len(check.view)
               IN  /\ turns'[t].client = turns[t].client
                   /\ turns[t].status = "ended" => turns'[t].status = "ended"
    <3>1. Len(check.view) \in DOMAIN turns
      BY <2>5, <1>0, <1>t DEF CapChecksOK, CapPast
    <3> QED
      BY <3>1, <1>s
  <2> QED
    BY <2>4, <2>5, <1>0, <1>u, <1>x DEF CapChecksOK
<1> QED
  BY <1>1, <1>2, <1>3, <1>4, <1>5, <1>6 DEF CapInv

-----------------------------------------------------------------------------
(* Capacity recovery: what becomes of a record.                            *)

LEMMA CapSaved ==
  ASSUME TypeOK, NEW r, NEW ok \in Saves, Save(r, ok)
  PROVE  rec' = r /\ file' \in {file, r} /\ faults' \in 0..MaxFaults
<1>1. faults \in 0..MaxFaults /\ MaxFaults \in Nat
  BY BoundsAssumption DEF TypeOK
<1>2. CASE ok
  BY <1>1, <1>2 DEF Save
<1>3. CASE ~ok
  <2>1. faults < MaxFaults
    BY <1>3 DEF Saves
  <2> QED
    BY <1>1, <1>3, <2>1 DEF Save
<1> QED
  BY <1>2, <1>3

\* A step that replaces the record.
LEMMA CapStep ==
  ASSUME CapInv, NEW r \in Record, rec' = r, file' \in {file, r},
         UNCHANGED <<turns, clients, submitted, wire, eligible>>,
         forgiven \subseteq forgiven', rearmed \subseteq rearmed',
         forgiven' \subseteq TurnIds, rearmed' \subseteq TurnIds,
         timer' \in BOOLEAN, exec' \in Stages, faults' \in 0..MaxFaults,
         check'.on \in BOOLEAN, check'.read \in BOOLEAN, check'.scopes \subseteq DOMAIN turns,
         settle'.on \in BOOLEAN, settle'.own \in BOOLEAN,
         CapRecordOK(r)', CapForgivenOK(r)', CapExecOK', CapChecksOK'
  PROVE  CapInv'
<1>1. TypeOK'
  BY DEF CapInv, TypeOK
<1>2. CapNativeOK'
  BY CapNativeKept DEF CapInv
<1>3. CapRecordOK(rec)'
  BY DEF CapRecordOK, CapRowOK, CapSentOK, CapDoubtOK, CapCountOK, CapKnown, CapPending
<1>4. CapRecordOK(file)'
  <2>1. PICK f : f = file
    OBVIOUS
  <2>2. CapRecordOK(f)
    BY <2>1 DEF CapInv
  <2>3. CapRecordOK(f)'
    BY <2>2, CapRecordKept DEF CapRecordOK
  <2>4. file' = f \/ file' = r
    BY <2>1
  <2>5. CASE file' = f
    BY <2>3, <2>5 DEF CapRecordOK, CapRowOK, CapSentOK, CapDoubtOK, CapCountOK, CapKnown, CapPending
  <2>6. CASE file' = r
    BY <2>6 DEF CapRecordOK, CapRowOK, CapSentOK, CapDoubtOK, CapCountOK, CapKnown, CapPending
  <2> QED
    BY <2>4, <2>5, <2>6
<1>5. CapForgivenOK(rec)'
  BY DEF CapForgivenOK, CapKnown, Live, NextResumed
<1> QED
  BY <1>1, <1>2, <1>3, <1>4, <1>5 DEF CapInv

\* A step that replaces the record while nothing offered is being checked.
LEMMA CapPlainStep ==
  ASSUME CapInv, NEW r \in Record, rec' = r, file' \in {file, r},
         UNCHANGED <<turns, clients, submitted, wire, eligible, forgiven, rearmed, check>>,
         settle'.on \in BOOLEAN, settle'.own \in BOOLEAN, CapPast(settle.view)',
         timer' \in BOOLEAN, exec' \in Stages, faults' \in 0..MaxFaults,
         ~check.on, CapRecordOK(r), CapForgivenOK(r), CapExecOK'
  PROVE  CapInv'
<1>1. CapRecordOK(r)'
  BY CapRecordKept DEF CapRecordOK
<1>2. CapForgivenOK(r)'
  BY DEF CapForgivenOK, CapKnown
<1>3. CapChecksOK'
  <2>1. CapPast(check.view)'
    BY DEF CapInv, CapChecksOK, CapPast
  <2> QED
    BY <2>1 DEF CapChecksOK
<1>4. /\ forgiven' \subseteq TurnIds /\ rearmed' \subseteq TurnIds
      /\ check'.on \in BOOLEAN /\ check'.read \in BOOLEAN /\ check'.scopes \subseteq DOMAIN turns
  BY DEF CapInv, TypeOK
<1> QED
  BY <1>1, <1>2, <1>3, <1>4, CapStep

\* A record that is done with, and leaves nothing in doubt.
CapClosed(q, r) ==
  /\ q.status # "none" /\ r.status \in {"finished", "cancelled"}
  /\ r.turn = q.turn /\ r.turns = q.turns /\ r.retired = q.retired /\ r.client = q.client
  /\ r.accepted \in {0, q.accepted}

LEMMA CapOver ==
  ASSUME NEW q, NEW r, CapClosed(q, r)
  PROVE  /\ CapRowOK(q) => CapRowOK(r)
         /\ CapSentOK(q) => CapSentOK(r)
         /\ CapCountOK(r)
         /\ CapForgivenOK(q) => CapForgivenOK(r)
         /\ ~CapPending(r) /\ CapKnown(r) = CapKnown(q)
<1>1. CapRowOK(q) => CapRowOK(r)
  BY DEF CapClosed, CapRowOK, CapKnown, CapPending, Live
<1>2. CapSentOK(q) => CapSentOK(r)
  BY DEF CapClosed, CapSentOK, CapKnown, CapPending, Live
<1>3. CapCountOK(r)
  BY DEF CapClosed, CapCountOK, CapPending, Live
<1>4. CapForgivenOK(q) => CapForgivenOK(r)
  BY DEF CapClosed, CapForgivenOK, CapKnown, Live
<1>5. ~CapPending(r) /\ CapKnown(r) = CapKnown(q)
  BY DEF CapClosed, CapPending, CapKnown
<1> QED
  BY <1>1, <1>2, <1>3, <1>4, <1>5

\* A record whose attempt goes on, or may.
CapCarried(q, r) ==
  /\ r.turns = q.turns /\ r.retired = q.retired /\ r.client = q.client
  /\ r.accepted = q.accepted /\ r.attempts = q.attempts /\ r.cancelFuture = q.cancelFuture
  /\ r.turn \in {q.turn, NextResumed(q)}
  /\ r.status = q.status \/ (q.status \in {"submitting", "running"} /\ r.status = "uncertain")

LEMMA CapCarriedOn ==
  ASSUME NEW q, CapRecordOK(q), NEW r, CapCarried(q, r)
  PROVE  CapRecordOK(r)
<1>1. /\ CapPending(r) <=> CapPending(q)
      /\ CapKnown(r) = CapKnown(q)
      /\ Live(r) <=> Live(q)
      /\ q.accepted = 0 => r.turn = q.turn
      /\ q.accepted # 0 => q.accepted \in q.turns /\ q.status \notin {"waiting", "submitting"}
  BY DEF CapRecordOK, CapRowOK, CapCarried, CapPending, CapKnown, Live, NextResumed
<1>2. CapRowOK(r)
  <2>1. r.status # "none" => r.turn \in r.turns
    BY <1>1 DEF CapRecordOK, CapRowOK, CapCarried, NextResumed
  <2>2. /\ r.status = "none" => q.status = "none"
        /\ r.status = "running" => q.status = "running"
        /\ r.status = "submitting" => q.status = "submitting"
        /\ r.status = "waiting" => q.status = "waiting"
    BY DEF CapCarried
  <2>3. /\ r.turns = q.turns /\ r.client = q.client /\ r.accepted = q.accepted
        /\ r.attempts = q.attempts /\ r.cancelFuture = q.cancelFuture
    BY DEF CapCarried
  <2>4. CapPending(r) => r.turn = q.turn
    BY <1>1, <2>3 DEF CapPending
  <2> QED
    BY <1>1, <2>1, <2>2, <2>3, <2>4 DEF CapRecordOK, CapRowOK
<1>3. CapSentOK(r)
  BY <1>1 DEF CapRecordOK, CapSentOK, CapCarried
<1>4. CapDoubtOK(r)
  BY <1>1 DEF CapRecordOK, CapDoubtOK, CapCarried
<1>5. CapCountOK(r)
  <2>1. /\ r.status = "waiting" => q.status = "waiting" /\ r.turn = q.turn
        /\ CapPending(r) => r.turn = q.turn
    BY <1>1 DEF CapCarried, CapPending
  <2> QED
    BY <1>1, <2>1 DEF CapRecordOK, CapCountOK, CapCarried
<1> QED
  BY <1>2, <1>3, <1>4, <1>5 DEF CapRecordOK

LEMMA CapCarriedForgiven ==
  ASSUME NEW q, CapForgivenOK(q), NEW r, CapCarried(q, r)
  PROVE  CapForgivenOK(r)
  BY DEF CapForgivenOK, CapCarried, CapKnown, Live, NextResumed

\* The turn the sent request started is made known.
LEMMA CapReceived ==
  ASSUME CapInv, exec = "sent", NEW t \in Started,
         NEW q, q = Receipt(t)
  PROVE  /\ q \in Record /\ CapRecordOK(q) /\ CapForgivenOK(q)
         /\ q.status \in {"running", "cancelled"} /\ q.accepted # 0
<1>0. /\ TypeOK /\ CapNativeOK /\ CapTurnsOK /\ CapOrderOK /\ CapRecordOK(rec) /\ CapForgivenOK(rec)
      /\ CapRowOK(rec) /\ CapSentOK(rec) /\ CapDoubtOK(rec) /\ CapCountOK(rec)
  BY DEF CapInv, CapNativeOK, CapRecordOK
<1>x. /\ rec.status \in {"submitting", "cancelled"} /\ rec.accepted = 0 /\ rec.client \in submitted
      /\ \A s \in CapKnown(rec) : turns[s].client # rec.client
  BY DEF CapInv, CapExecOK
<1>t. /\ t \in DOMAIN turns /\ turns[t].client = rec.client /\ t \in TurnIds /\ t # 0 /\ rec.client # 0
      /\ t \notin CapKnown(rec)
  <2>1. t \in DOMAIN turns /\ turns[t].client = rec.client
    BY DEF Started
  <2>2. t \in TurnIds /\ t # 0 /\ rec.client # 0
    BY <2>1, <1>0, <1>x, BoundsAssumption DEF TypeOK, TurnIds
  <2> QED
    BY <2>1, <2>2, <1>x
<1>w. rec.client \notin wire /\ \A s \in DOMAIN turns : turns[s].client = rec.client => s = t
  BY <1>0, <1>t DEF CapTurnsOK
<1>r. rec \in Record
  BY <1>0 DEF TypeOK
<1>q. /\ q.status \in {"running", "cancelled"} /\ (q.status = "cancelled" <=> rec.status = "cancelled")
      /\ q.turn = rec.turn /\ q.attempts = rec.attempts /\ q.turns = rec.turns \union {t}
      /\ q.retired = rec.retired /\ q.client = rec.client /\ q.accepted = t
      /\ q.cancelFuture = rec.cancelFuture /\ q \in Record
  <2>1. DEFINE st == IF rec.status = "cancelled" THEN "cancelled" ELSE "running"
               ts == rec.turns \union {t}
  <2>2. st \in Statuses /\ ts \in SUBSET TurnIds /\ t \in 0..MaxTurns
    BY <1>r, <1>t, BoundsAssumption DEF Record, TurnIds, Statuses
  <2>3. q = [rec EXCEPT !.accepted = t, !.turns = ts, !.status = st]
    BY <1>r DEF Receipt, Record
  <2>4. st \in {"running", "cancelled"} /\ (st = "cancelled" <=> rec.status = "cancelled")
    OBVIOUS
  <2> HIDE DEF st, ts
  <2>5. /\ q.status = st /\ q.turn = rec.turn /\ q.attempts = rec.attempts /\ q.turns = ts
        /\ q.retired = rec.retired /\ q.client = rec.client /\ q.accepted = t
        /\ q.cancelFuture = rec.cancelFuture /\ q \in Record
    BY <2>2, <2>3, <1>r DEF Record
  <2> QED
    BY <2>4, <2>5 DEF ts
<1>k. CapKnown(q) = CapKnown(rec) \union {t} /\ ~CapPending(q) /\ (rec.status # "cancelled" => CapPending(rec))
  BY <1>q, <1>t, <1>x DEF CapKnown, CapPending
<1>1. CapRowOK(q)
  BY <1>0, <1>q, <1>k, <1>t, <1>x DEF CapRowOK
<1>2. CapSentOK(q)
  BY <1>0, <1>q, <1>k, <1>t, <1>x DEF CapSentOK
<1>3. CapDoubtOK(q)
  BY <1>0, <1>q, <1>k, <1>t, <1>w DEF CapDoubtOK
<1>4. CapCountOK(q)
  <2> SUFFICES ASSUME Live(q), NEW first \in DOMAIN turns, CapChain(first, t)
               PROVE  t < first + rec.attempts
    BY <1>q, <1>k DEF CapCountOK
  <2>0. rec.status = "submitting" /\ CapPending(rec) /\ clients[rec.client] = rec.turn /\ rec.attempts > 0
    <3>1. rec.status # "cancelled"
      BY <1>q DEF Live
    <3> QED
      BY <3>1, <1>x, <1>k, <1>0 DEF CapRowOK
  <2>t. first \in Nat /\ t \in Nat /\ rec.attempts \in Nat /\ DOMAIN turns = 1..Len(turns)
    BY <1>r, <1>t, <1>0 DEF TypeOK, Record
  <2>a. first <= t /\ \A s \in first..t : turns[s].client # 0 /\ clients[turns[s].client] \notin CapExcepted
    BY DEF CapChain
  <2>1. CASE first = t
    BY <2>0, <2>1, <2>t
  <2>2. CASE first # t
    <3>1. t # 1 /\ t - 1 \in first..t /\ t \in first..t /\ first <= t - 1 /\ first..(t - 1) \subseteq first..t
      BY <2>2, <2>t, <2>a
    <3>2. t - 1 \in DOMAIN turns /\ clients[rec.client] = t - 1
      <4>1. PICK X : X = CapExcepted
        OBVIOUS
      <4>2. CapOrderIn(X)
        BY <4>1, <1>0 DEF CapOrderIn, CapOrderOK
      <4>3. /\ turns[t].client # 0 /\ clients[turns[t].client] \notin X
            /\ turns[t - 1].client # 0 /\ clients[turns[t - 1].client] \notin X
        BY <4>1, <3>1, <2>a
      <4>4. t - 1 \in DOMAIN turns /\ clients[turns[t].client] = t - 1
        BY <4>2, <4>3, <3>1, <1>0, <1>t, CapLink
      <4> QED
        BY <4>4, <1>t
    <3>3. CapChain(first, t - 1)
      BY <3>1, <3>2, <2>a DEF CapChain
    <3>4. rec.turn = t - 1 /\ rec.turn \notin rearmed
      BY <3>1, <3>2, <2>0, <2>a, <1>t DEF CapExcepted
    <3>5. rec.turn + 1 < first + rec.attempts
      BY <3>3, <3>4, <2>0, <1>0 DEF CapCountOK
    <3> QED
      BY <3>4, <3>5, <2>t
  <2> QED
    BY <2>1, <2>2
<1>5. CapForgivenOK(q)
  BY <1>0, <1>q, <1>k, <1>t DEF CapForgivenOK, NextResumed
<1> QED
  BY <1>q, <1>t, <1>1, <1>2, <1>3, <1>4, <1>5 DEF CapRecordOK

\* The failure of the record's own turn is scheduled, or ends the record.
LEMMA CapDeferred ==
  ASSUME CapInv, rec.status \in {"running", "uncertain"}, rec.accepted # 0, rec.turn = rec.accepted,
         NEW q, q = [[rec EXCEPT !.accepted = 0] EXCEPT
                       !.status = IF More([rec EXCEPT !.accepted = 0]) THEN "waiting" ELSE "finished"]
  PROVE  q \in Record /\ CapRecordOK(q) /\ CapForgivenOK(q)
<1>0. /\ TypeOK /\ CapRecordOK(rec) /\ CapForgivenOK(rec) /\ rec \in Record
      /\ CapRowOK(rec) /\ CapSentOK(rec) /\ CapDoubtOK(rec) /\ CapCountOK(rec)
  BY DEF CapInv, CapRecordOK, TypeOK
<1>q. /\ q.turn = rec.turn /\ q.attempts = rec.attempts /\ q.turns = rec.turns
      /\ q.retired = rec.retired /\ q.client = rec.client /\ q.accepted = 0
      /\ q.cancelFuture = rec.cancelFuture /\ q \in Record
      /\ q.status \in {"waiting", "finished"}
      /\ q.status = "waiting" => ~rec.cancelFuture /\ rec.attempts < Limit
  <2> DEFINE m == More([rec EXCEPT !.accepted = 0])
             st == IF m THEN "waiting" ELSE "finished"
  <2>1. m <=> ~rec.cancelFuture /\ rec.attempts < Limit
    BY <1>0 DEF More, Record
  <2>2. q = [rec EXCEPT !.accepted = 0, !.status = st]
    BY <1>0 DEF Record
  <2>3. st \in Statuses /\ st \in {"waiting", "finished"} /\ (st = "waiting" => m)
    BY DEF Statuses
  <2>4. 0 \in 0..MaxTurns
    BY BoundsAssumption
  <2> HIDE DEF m, st
  <2>5. /\ q.turn = rec.turn /\ q.attempts = rec.attempts /\ q.turns = rec.turns
        /\ q.retired = rec.retired /\ q.client = rec.client /\ q.accepted = 0
        /\ q.cancelFuture = rec.cancelFuture /\ q.status = st /\ q \in Record
    BY <2>2, <2>3, <2>4, <1>0 DEF Record
  <2> QED
    BY <2>1, <2>3, <2>5
<1>k. CapKnown(q) = CapKnown(rec) /\ ~CapPending(q) /\ ~CapPending(rec) /\ Live(rec)
  BY <1>q DEF CapKnown, CapPending, Live
<1>d. CapDoubtOK(q)
  BY <1>0, <1>q, <1>k DEF CapDoubtOK
<1>1. CASE q.status = "finished"
  <2>1. CapClosed(rec, q)
    BY <1>1, <1>q DEF CapClosed
  <2>2. PICK p : p = rec
    OBVIOUS
  <2>3. CapRowOK(q) /\ CapSentOK(q) /\ CapCountOK(q) /\ CapForgivenOK(q)
    BY <2>1, <2>2, <1>0, CapOver
  <2> QED
    BY <1>q, <1>d, <2>3 DEF CapRecordOK
<1>2. CASE q.status = "waiting"
  <2>1. CapRowOK(q)
    BY <1>2, <1>0, <1>q, <1>k DEF CapRowOK
  <2>2. CapSentOK(q)
    BY <1>2, <1>0, <1>q, <1>k DEF CapSentOK
  <2>3. CapCountOK(q)
    BY <1>2, <1>0, <1>q, <1>k DEF CapCountOK
  <2>4. CapForgivenOK(q)
    BY <1>2, <1>0, <1>q, <1>k DEF CapForgivenOK, NextResumed
  <2> QED
    BY <1>q, <1>d, <2>1, <2>2, <2>3, <2>4 DEF CapRecordOK
<1> QED
  BY <1>q, <1>1, <1>2

LEMMA CapFields ==
  ASSUME NEW status \in Statuses, NEW turn \in 0..MaxTurns, NEW attempts \in 0..Limit,
         NEW ts \in SUBSET TurnIds, NEW retired \in SUBSET TurnIds, NEW client \in Nat,
         NEW accepted \in 0..MaxTurns, NEW cancelFuture \in BOOLEAN
  PROVE  [status |-> status, turn |-> turn, attempts |-> attempts, turns |-> ts, retired |-> retired,
          client |-> client, accepted |-> accepted, cancelFuture |-> cancelFuture] \in Record
  BY DEF Record

\* A record is begun for a failure whose predecessor leaves nothing in doubt.
CapMayBegin(t) ==
  /\ t \in DOMAIN turns /\ turns[t].status = "capacity" /\ t \notin rec.retired
  /\ rec.status \notin {"submitting", "running"}
  /\ CapPending(rec) => \E s \in DOMAIN turns : turns[s].client = rec.client /\ s < t
  /\ turns[t].client # 0 => \/ t \in CapKnown(rec) \/ clients[turns[t].client] \in CapExcepted
                            \/ (CapPending(rec) /\ turns[t].client = rec.client)

LEMMA CapBegun ==
  ASSUME CapInv, NEW t, CapMayBegin(t),
         UNCHANGED <<turns, clients, submitted, wire, forgiven>>,
         rearmed' = rearmed \union ({t} \intersect rec.turns),
         NEW q, q = [Fresh(t, rec) EXCEPT !.status = IF More(Fresh(t, rec)) THEN "waiting" ELSE "finished"]
  PROVE  q \in Record /\ More(Fresh(t, rec)) /\ CapRecordOK(q)' /\ CapForgivenOK(q)'
<1>0. /\ TypeOK /\ CapTurnsOK /\ CapForgivenOK(rec) /\ rec \in Record
      /\ CapRowOK(rec) /\ CapSentOK(rec) /\ CapDoubtOK(rec)
  BY DEF CapInv, CapNativeOK, CapRecordOK, TypeOK
<1>m. /\ t \in DOMAIN turns /\ turns[t].status = "capacity" /\ t \notin rec.retired
      /\ t \in TurnIds /\ t \in 0..MaxTurns /\ t \in Nat
      /\ \A s \in DOMAIN turns : s < t => s < Len(turns)
  BY <1>0, BoundsAssumption DEF CapMayBegin, TypeOK, TurnIds
<1> DEFINE one == {t}
           old == rec.retired \union rec.turns
           non == {}
<1>o. one \in SUBSET TurnIds /\ old \in SUBSET TurnIds /\ non \in SUBSET TurnIds
  BY <1>0, <1>m DEF Record
<1>n. NoRecord = [status |-> "none", turn |-> 0, attempts |-> 0, turns |-> non, retired |-> non,
                  client |-> 0, accepted |-> 0, cancelFuture |-> FALSE]
  BY DEF NoRecord
<1>e. Fresh(t, rec) = [NoRecord EXCEPT !.turn = t, !.turns = one, !.retired = old]
  BY DEF Fresh
<1> HIDE DEF one, old, non
<1> DEFINE new == Fresh(t, rec)
<1>c. /\ new = [status |-> "none", turn |-> t, attempts |-> 0, turns |-> one, retired |-> old,
                client |-> 0, accepted |-> 0, cancelFuture |-> FALSE]
  BY <1>n, <1>e
<1>f. q = [new EXCEPT !.status = IF More(new) THEN "waiting" ELSE "finished"]
  OBVIOUS
<1> HIDE DEF new
<1>g. More(new)
  BY <1>c, BoundsAssumption DEF More
<1>h. q = [status |-> "waiting", turn |-> t, attempts |-> 0, turns |-> one, retired |-> old,
           client |-> 0, accepted |-> 0, cancelFuture |-> FALSE]
  BY <1>c, <1>f, <1>g
<1>r. q \in Record
  <2>1. 0 \in Nat /\ 0 \in 0..Limit /\ 0 \in 0..MaxTurns /\ FALSE \in BOOLEAN /\ "waiting" \in Statuses
    BY BoundsAssumption DEF Statuses
  <2>2. t \in 0..MaxTurns
    BY <1>m
  <2>3. one \in SUBSET TurnIds /\ old \in SUBSET TurnIds
    BY <1>o
  <2>4. [status |-> "waiting", turn |-> t, attempts |-> 0, turns |-> one, retired |-> old,
         client |-> 0, accepted |-> 0, cancelFuture |-> FALSE] \in Record
    BY ONLY <2>1, <2>2, <2>3, CapFields
  <2> QED
    BY <2>4, <1>h
<1>q. /\ q.status = "waiting" /\ q.turn = t /\ q.attempts = 0 /\ q.turns = {t}
      /\ q.retired = rec.retired \union rec.turns /\ q.client = 0 /\ q.accepted = 0 /\ q.cancelFuture = FALSE
  BY <1>h DEF one, old
<1>k. CapKnown(q)' = CapKnown(rec) \union {t} /\ ~CapPending(q)' /\ Live(q)' /\ CapKnown(rec) \subseteq DOMAIN turns
  BY <1>q, <1>0 DEF CapKnown, CapPending, Live, CapRowOK
<1>x. CapExcepted \subseteq CapExcepted' /\ (t \in CapKnown(rec) => t \in rearmed')
  BY <1>m DEF CapExcepted, CapKnown
<1>d. CapPending(rec) => /\ rec.client \notin wire
                         /\ \A s \in DOMAIN turns : turns[s].client = rec.client => s < t
  <2> SUFFICES ASSUME CapPending(rec)
               PROVE  /\ rec.client \notin wire
                      /\ \A s \in DOMAIN turns : turns[s].client = rec.client => s < t
    OBVIOUS
  <2>1. PICK s \in DOMAIN turns : turns[s].client = rec.client /\ s < t
    BY DEF CapMayBegin
  <2>2. rec.client # 0
    BY <1>0 DEF CapRowOK
  <2>3. \A u \in DOMAIN turns : turns[u].client = rec.client => u = s
    BY <2>1, <2>2, <1>0 DEF CapTurnsOK
  <2> QED
    BY <2>1, <2>2, <2>3, <1>0 DEF CapTurnsOK
<1>1. CapRowOK(q)'
  <2>1. CapKnown(q)' \subseteq DOMAIN turns'
    BY <1>k, <1>m
  <2>2. q.client \in 0..Len(clients')
    BY <1>q, <1>0 DEF TypeOK
  <2>3. q.attempts < Limit
    BY <1>q, BoundsAssumption
  <2> QED
    BY <1>q, <1>k, <2>1, <2>2, <2>3 DEF CapRowOK
<1>2. CapSentOK(q)'
  BY <1>0, <1>q, <1>k, <1>x DEF CapSentOK
<1>3. CapDoubtOK(q)'
  <2>1. ASSUME NEW c \in wire
        PROVE  clients[c] \in CapExcepted'
    BY <1>0, <1>x, <1>d DEF CapDoubtOK
  <2>2. ASSUME NEW s \in DOMAIN turns, turns[s].client # 0
        PROVE  \/ s \in CapKnown(rec) \/ s < Len(turns) \/ turns[s].status = "ended"
               \/ clients[turns[s].client] \in CapExcepted'
    BY <2>2, <1>0, <1>x, <1>d, <1>m DEF CapDoubtOK
  <2> QED
    BY <2>1, <2>2, <1>k DEF CapDoubtOK
<1>4. CapCountOK(q)'
  <2> SUFFICES ASSUME t \notin rearmed', NEW first \in DOMAIN turns, CapChain(first, t)'
               PROVE  FALSE
    BY <1>q, <1>k DEF CapCountOK
  <2>1. turns[t].client # 0 /\ clients[turns[t].client] \notin CapExcepted'
    BY <1>m DEF CapChain, TypeOK
  <2>2. CapPending(rec) /\ turns[t].client = rec.client
    BY <2>1, <1>x DEF CapMayBegin
  <2> QED
    BY <2>2, <1>d, <1>m
<1>5. CapForgivenOK(q)'
  BY <1>0, <1>q, <1>k, <1>x DEF CapForgivenOK, NextResumed
<1> QED
  BY <1>r, <1>g, <1>1, <1>2, <1>3, <1>4, <1>5 DEF CapRecordOK, new

\* A snapshot names the turn of an attempt whose answer was lost.
LEMMA CapNamed ==
  ASSUME CapInv, NEW view, CapPast(view), CapPending(rec), Terminal(rec, view)
  PROVE  LET t == AcceptedTurn(rec, view)
         IN  /\ t \in DOMAIN view /\ t \in DOMAIN turns /\ t <= Len(view) /\ t \in Nat
             /\ turns[t].client = rec.client /\ view[t].status # "active"
             /\ turns[t].status = view[t].status
             /\ rec.client \notin wire
             /\ \A s \in DOMAIN turns : turns[s].client = rec.client => s = t
<1> DEFINE t == AcceptedTurn(rec, view)
           found == {s \in DOMAIN view : view[s].client = rec.client}
<1>0. TypeOK /\ CapTurnsOK /\ rec.client # 0
  BY DEF CapInv, CapNativeOK, CapRecordOK, CapRowOK
<1>1. rec.accepted = 0
  BY DEF CapPending
<1>2. t # 0 /\ view[t].status # "active"
  BY DEF Terminal
<1>3. t = IF \E s \in found : found = {s} THEN CHOOSE s \in found : TRUE ELSE 0
  BY <1>0, <1>1 DEF AcceptedTurn
<1> HIDE DEF t
<1>4. t \in found
  BY <1>2, <1>3
<1>5. t \in DOMAIN view /\ view[t].client = rec.client
  BY <1>4
<1> HIDE DEF found
<1>6. t \in Nat /\ t <= Len(view) /\ t \in DOMAIN turns
  BY <1>0, <1>5 DEF CapPast, TypeOK
<1>7. turns[t].client = rec.client /\ turns[t].status = view[t].status
  BY <1>2, <1>5 DEF CapPast
<1>8. rec.client \notin wire /\ \A s \in DOMAIN turns : turns[s].client = rec.client => s = t
  BY <1>0, <1>6, <1>7 DEF CapTurnsOK
<1> QED
  BY <1>2, <1>5, <1>6, <1>7, <1>8 DEF t

-----------------------------------------------------------------------------
(* Capacity recovery: failures offered, user input, reconciliation.        *)

\* A step that leaves the record, and where the attempt stands, as they are.
LEMMA CapWatchStep ==
  ASSUME CapInv, UNCHANGED <<turns, clients, submitted, wire, eligible, forgiven, rearmed, rec, file, exec>>,
         timer' \in BOOLEAN, faults' \in 0..MaxFaults,
         check'.on \in BOOLEAN, check'.read \in BOOLEAN, check'.scopes \subseteq DOMAIN turns,
         settle'.on \in BOOLEAN, settle'.own \in BOOLEAN,
         check'.on => exec = "idle", CapChecksOK'
  PROVE  CapInv'
<1>1. PICK r : r = rec
  OBVIOUS
<1>2. CapRecordOK(r) /\ CapForgivenOK(r) /\ r \in Record
  BY <1>1 DEF CapInv, TypeOK
<1>3. CapRecordOK(r)' /\ CapForgivenOK(r)'
  <2>1. CapRecordOK(r)'
    BY <1>2, CapRecordKept DEF CapRecordOK
  <2>2. CapForgivenOK(r)'
    BY <1>2 DEF CapForgivenOK, CapKnown
  <2> QED
    BY <2>1, <2>2
<1>4. CapExecOK'
  BY DEF CapInv, CapExecOK, CapExcepted, CapKnown
<1>5. exec' \in Stages /\ forgiven' \subseteq TurnIds /\ rearmed' \subseteq TurnIds
  BY DEF CapInv, TypeOK
<1>6. rec' = r /\ file' \in {file, r}
  BY <1>1
<1> QED
  BY <1>2, <1>3, <1>4, <1>5, <1>6, CapStep

LEMMA CapTypes ==
  ASSUME CapInv
  PROVE  /\ turns \in Seq(Turn) /\ Len(turns) \in Nat /\ DOMAIN turns = 1..Len(turns) /\ DOMAIN turns \subseteq TurnIds
         /\ rec \in Record /\ file \in Record
         /\ timer \in BOOLEAN /\ exec \in Stages /\ eligible \in BOOLEAN
         /\ check.on \in BOOLEAN /\ check.read \in BOOLEAN /\ check.scopes \subseteq DOMAIN turns
         /\ settle.on \in BOOLEAN /\ settle.own \in BOOLEAN
         /\ forgiven \subseteq TurnIds /\ rearmed \subseteq TurnIds /\ faults \in 0..MaxFaults
         /\ submitted \subseteq DOMAIN clients /\ wire \subseteq submitted
<1>1. TypeOK
  BY DEF CapInv
<1>2. DOMAIN turns \subseteq TurnIds
  BY <1>1, BoundsAssumption DEF TypeOK, TurnIds
<1> QED
  BY <1>1, <1>2 DEF TypeOK

LEMMA CapFaulted ==
  ASSUME TypeOK, Fault
  PROVE  faults' \in 0..MaxFaults
  BY BoundsAssumption DEF TypeOK, Fault

\* An empty check, an empty settlement and the thread itself are pasts of the thread.
LEMMA CapPasts ==
  ASSUME CapInv, UNCHANGED turns
  PROVE  /\ CapPast(check.view)' = CapPast(check'.view) /\ CapPast(settle.view)' = CapPast(settle'.view)
         /\ CapPast(NoCheck.view) /\ CapPast(NoSettle.view) /\ CapPast(turns)
         /\ CapPast(check.view) /\ CapPast(settle.view)
<1>1. CapPast(check.view)' = CapPast(check'.view) /\ CapPast(settle.view)' = CapPast(settle'.view)
  BY DEF CapPast
<1>2. turns \in Seq(Turn) /\ Len(turns) \in Nat
  BY CapTypes
<1>3. CapPast(<<>>)
  BY <1>2 DEF CapPast
<1>4. CapPast(turns)
  BY <1>2 DEF CapPast
<1>5. CapPast(check.view) /\ CapPast(settle.view)
  BY DEF CapInv, CapChecksOK
<1> QED
  BY <1>1, <1>3, <1>4, <1>5 DEF NoCheck, NoSettle

LEMMA CapOfferStep ==
  ASSUME CapInv, NEW t \in TurnIds, Offer(t)
  PROVE  CapInv'
<1> USE DEF native
<1>0. /\ UNCHANGED <<turns, submitted, wire, clients, exec, eligible, forgiven, rearmed>>
      /\ t \in DOMAIN turns /\ turns[t].status = "capacity" /\ t \notin rec.retired
  BY DEF Offer
<1>t. TypeOK /\ CapChecksOK /\ CapExecOK /\ CapTurnsOK /\ CapSentOK(rec) /\ CapRowOK(rec)
  BY DEF CapInv, CapNativeOK, CapRecordOK
<1>1. CASE check.on
  <2>1. check' = [check EXCEPT !.scopes = @ \union {t}] /\ UNCHANGED <<rec, file, timer, settle, faults>>
    BY <1>1 DEF Offer
  <2>2. check'.on = check.on /\ check'.read = check.read /\ check'.view = check.view
        /\ check'.scopes = check.scopes \union {t}
    BY <2>1
  <2>3. CapChecksOK'
    <3>1. check'.scopes \intersect rec.retired = {}
      BY <1>0, <1>1, <1>t, <2>2 DEF CapChecksOK
    <3>2. CapPast(check.view)' /\ CapPast(settle.view)'
      BY <1>0, <2>1, <2>2, CapPasts
    <3> QED
      BY <1>0, <1>1, <1>t, <2>1, <2>2, <3>1, <3>2 DEF CapChecksOK, CapKnown, CapExcepted, CapPending
  <2>4. check'.on => exec = "idle"
    BY <2>2, <1>t DEF CapChecksOK
  <2>5. /\ check'.on \in BOOLEAN /\ check'.read \in BOOLEAN /\ check'.scopes \subseteq DOMAIN turns
        /\ settle'.on \in BOOLEAN /\ settle'.own \in BOOLEAN /\ timer' \in BOOLEAN /\ faults' \in 0..MaxFaults
    BY <1>0, <2>1, <2>2, CapTypes
  <2> QED
    BY <1>0, <2>1, <2>3, <2>4, <2>5, CapWatchStep
<1>2. ASSUME NEW ok \in Saves, OfferKnown(t, ok), ~check.on
      PROVE  CapInv'
  <2> DEFINE new == [rec EXCEPT !.accepted = 0]
  <2>1. /\ rec.status = "uncertain" /\ rec.accepted = t /\ rec.turn = t /\ exec = "idle"
        /\ Defer(new, ok, timer) /\ UNCHANGED <<check, settle>> /\ t # 0
    BY <1>2, BoundsAssumption DEF OfferKnown, Executing, TurnIds
  <2>2. PICK q : q = [new EXCEPT !.status = IF More(new) THEN "waiting" ELSE "finished"]
    OBVIOUS
  <2>3. q \in Record /\ CapRecordOK(q) /\ CapForgivenOK(q)
    BY <2>1, <2>2, CapDeferred
  <2> HIDE DEF new
  <2>4. rec' = q /\ file' \in {file, q} /\ faults' \in 0..MaxFaults
    BY <2>1, <2>2, <1>2, <1>t, CapSaved DEF Defer
  <2>5. timer' \in BOOLEAN
    BY <2>1, CapTypes DEF Defer
  <2>6. CapExecOK'
    BY <1>0, <2>1 DEF CapExecOK
  <2>7. /\ settle'.on \in BOOLEAN /\ settle'.own \in BOOLEAN /\ CapPast(settle.view)' /\ exec' \in Stages
    BY <1>0, <2>1, CapTypes, CapPasts
  <2> QED
    BY <1>0, <1>2, <2>1, <2>3, <2>4, <2>5, <2>6, <2>7, CapPlainStep
<1>3. ASSUME NEW ok \in Saves, OfferNew(t, ok), ~check.on, rec.status = "none"
      PROVE  CapInv'
  <2> DEFINE new == Fresh(t, rec)
  <2>1. Defer(new, ok, FALSE) /\ settle' = [settle EXCEPT !.own = FALSE] /\ UNCHANGED check /\ exec = "idle"
    BY <1>3 DEF OfferNew, Begin, Executing
  <2>2. PICK q : q = [new EXCEPT !.status = IF More(new) THEN "waiting" ELSE "finished"]
    OBVIOUS
  <2>3. CapMayBegin(t) /\ rec.turns = {}
    \* No record was ever begun, so nothing was sent.
    <3>1. CapKnown(rec) = {}
      BY <1>3, <1>t DEF CapRowOK
    <3>2. submitted = {}
      BY <3>1, <1>t DEF CapSentOK
    <3>3. turns[t].client = 0
      BY <3>2, <1>0, <1>t DEF CapTurnsOK
    <3> QED
      BY <1>0, <1>3, <3>1, <3>3 DEF CapMayBegin, CapPending, CapKnown
  <2>4. rearmed' = rearmed \union ({t} \intersect rec.turns)
    BY <2>3, <1>0
  <2>5. q \in Record /\ CapRecordOK(q)' /\ CapForgivenOK(q)'
    BY <1>0, <2>2, <2>3, <2>4, CapBegun
  <2> HIDE DEF new
  <2>6. rec' = q /\ file' \in {file, q} /\ faults' \in 0..MaxFaults
    BY <2>1, <2>2, <1>3, <1>t, CapSaved DEF Defer
  <2>7. timer' \in BOOLEAN
    BY <2>1 DEF Defer
  <2>8. CapExecOK'
    BY <1>0, <2>1 DEF CapExecOK
  <2>9. settle'.on = settle.on /\ settle'.own = FALSE /\ settle'.view = settle.view
    <3>1. settle.on = settle.on
      OBVIOUS
    <3> QED
      BY <2>1, <1>t DEF TypeOK
  <2>10. CapChecksOK'
    <3>1. CapPast(check.view)' /\ CapPast(settle.view)'
      BY <1>0, <2>1, <2>9, CapPasts
    <3> QED
      BY <3>1, <2>1, <1>3 DEF CapChecksOK
  <2>11. /\ check'.on \in BOOLEAN /\ check'.read \in BOOLEAN /\ check'.scopes \subseteq DOMAIN turns
         /\ settle'.on \in BOOLEAN /\ settle'.own \in BOOLEAN
         /\ forgiven' \subseteq TurnIds /\ rearmed' \subseteq TurnIds /\ exec' \in Stages
    BY <1>0, <2>1, <2>9, CapTypes
  <2>12. forgiven \subseteq forgiven' /\ rearmed \subseteq rearmed'
    BY <1>0
  <2> QED
    BY <1>0, <2>5, <2>6, <2>7, <2>8, <2>10, <2>11, <2>12, CapStep
<1>4. ASSUME NEW ok \in Saves, OfferNew(t, ok), ~check.on, rec.status # "none"
      PROVE  CapInv'
  <2>1. /\ check' = [NoCheck EXCEPT !.on = TRUE, !.scopes = {t}]
        /\ UNCHANGED <<rec, file, timer, settle, faults>>
        /\ exec = "idle" /\ rec.status \notin {"submitting", "running"}
    BY <1>4 DEF OfferNew, Executing
  <2> DEFINE one == {t}
             non == <<>>
  <2>2. check' = [on |-> TRUE, read |-> FALSE, scopes |-> one, view |-> non]
    BY <2>1 DEF NoCheck
  <2>3. one \subseteq DOMAIN turns /\ one \intersect rec.retired = {}
    BY <1>0
  <2>4. CapPast(non)
    BY CapPasts, <1>0 DEF NoCheck
  <2> HIDE DEF one, non
  <2>v. check'.on = TRUE /\ check'.read = FALSE /\ check'.scopes = one /\ check'.view = non
    BY <2>2
  <2>5. CapChecksOK'
    <3>1. CapPast(check.view)' /\ CapPast(settle.view)'
      BY <1>0, <2>1, <2>v, <2>4, CapPasts
    <3>2. exec' = "idle" /\ rec' = rec
      BY <1>0, <2>1
    <3> QED
      BY ONLY <3>1, <3>2, <2>1, <2>v, <2>3 DEF CapChecksOK
  <2>6. /\ check'.on \in BOOLEAN /\ check'.read \in BOOLEAN /\ check'.scopes \subseteq DOMAIN turns
        /\ settle'.on \in BOOLEAN /\ settle'.own \in BOOLEAN /\ timer' \in BOOLEAN /\ faults' \in 0..MaxFaults
    BY <2>1, <2>v, <2>3, CapTypes
  <2> QED
    BY <1>0, <2>1, <2>5, <2>6, CapWatchStep
<1> QED
  BY <1>1, <1>2, <1>3, <1>4 DEF Offer

LEMMA CapCancelStep ==
  ASSUME CapInv, Cancel
  PROVE  CapInv'
<1> USE DEF native
<1>0. /\ UNCHANGED <<turns, submitted, wire, clients, settle, exec, eligible, rearmed>>
      /\ check' = NoCheck
      /\ forgiven' = forgiven \union (IF Live(rec) THEN {NextResumed(rec)} ELSE {})
  BY DEF Cancel
<1>t. /\ TypeOK /\ CapRowOK(rec) /\ CapSentOK(rec) /\ CapDoubtOK(rec) /\ CapCountOK(rec) /\ CapForgivenOK(rec)
      /\ rec \in Record /\ CapExecOK /\ CapChecksOK
  BY DEF CapInv, CapRecordOK, TypeOK
<1>c. /\ check'.on = FALSE /\ check'.read = FALSE /\ check'.scopes = {} /\ check'.view = <<>>
  BY <1>0 DEF NoCheck
<1>d. CapChecksOK'
  <2>1. CapPast(check.view)' /\ CapPast(settle.view)'
    BY <1>0, CapPasts
  <2> QED
    BY <2>1, <1>c DEF CapChecksOK
<1>e. /\ check'.on \in BOOLEAN /\ check'.read \in BOOLEAN /\ check'.scopes \subseteq DOMAIN turns
      /\ settle'.on \in BOOLEAN /\ settle'.own \in BOOLEAN
      /\ rearmed' \subseteq TurnIds /\ exec' \in Stages
  BY <1>0, <1>c, CapTypes
<1>1. CASE ~Live(rec)
  <2>1. UNCHANGED <<rec, file, timer, faults>> /\ forgiven' = forgiven
    BY <1>1, <1>0 DEF Cancel
  <2>2. timer' \in BOOLEAN /\ faults' \in 0..MaxFaults
    BY <2>1, CapTypes
  <2> QED
    BY <1>0, <1>c, <1>d, <1>e, <2>1, <2>2, CapWatchStep
<1>2. CASE Live(rec)
  <2>n. /\ NextResumed(rec) \in CapKnown(rec) /\ NextResumed(rec) \in TurnIds
        /\ forgiven' = forgiven \union {NextResumed(rec)}
    <3>1. NextResumed(rec) \in rec.turns
      BY <1>2, <1>t DEF CapRowOK, Live, NextResumed
    <3> QED
      BY <3>1, <1>0, <1>2, <1>t DEF CapKnown, Record
  <2>f. forgiven' \subseteq TurnIds /\ forgiven' \subseteq CapKnown(rec)
        /\ forgiven \subseteq forgiven' /\ rearmed \subseteq rearmed'
    BY <2>n, <1>t, <1>0 DEF TypeOK, CapForgivenOK
  <2>w. \A c \in wire : clients[c] \in CapExcepted'
           \/ (CapPending(rec) /\ c = rec.client /\ rec.accepted = 0 /\ clients[rec.client] = rec.turn)
    BY <1>t, <1>0, <2>f DEF CapDoubtOK, CapRowOK, CapPending, CapExcepted
  <2>p. CapPending(rec) => clients[rec.client] \in forgiven'
    BY <2>n, <1>t DEF CapRowOK, CapPending, NextResumed
  <2>1. CASE rec.accepted # 0 /\ rec.status \in {"running", "uncertain"}
    <3>1. PICK ok \in Saves : Save([rec EXCEPT !.cancelFuture = TRUE], ok)
      BY <1>2, <2>1 DEF Cancel
    <3>2. PICK q : q = [rec EXCEPT !.cancelFuture = TRUE]
      OBVIOUS
    <3>3. rec' = q /\ file' \in {file, q} /\ faults' \in 0..MaxFaults
      BY <3>1, <3>2, <1>t, CapSaved
    <3>4. /\ q.status = rec.status /\ q.turn = rec.turn /\ q.attempts = rec.attempts /\ q.turns = rec.turns
          /\ q.retired = rec.retired /\ q.client = rec.client /\ q.accepted = rec.accepted
          /\ q.cancelFuture = TRUE /\ q \in Record
      BY <3>2, <1>t DEF Record
    <3>k. CapKnown(q) = CapKnown(rec) /\ ~CapPending(q) /\ ~CapPending(rec)
      BY <3>4, <2>1 DEF CapKnown, CapPending
    <3>5. CapRowOK(q) /\ CapSentOK(q) /\ CapDoubtOK(q) /\ CapCountOK(q)
      <4>1. CapRowOK(q)
        BY <3>4, <3>k, <2>1, <1>t DEF CapRowOK
      <4>2. CapSentOK(q)
        BY <3>4, <3>k, <2>1, <1>t DEF CapSentOK
      <4>3. CapDoubtOK(q)
        BY <3>4, <3>k, <1>t DEF CapDoubtOK
      <4>4. CapCountOK(q)
        BY <3>4, <3>k, <2>1, <1>t DEF CapCountOK, Live
      <4> QED
        BY <4>1, <4>2, <4>3, <4>4
    <3>6. CapRecordOK(q)'
      BY <3>5, <1>0, <2>f, CapRecordKept DEF CapRecordOK
    <3>7. CapForgivenOK(q)'
      BY <3>4, <2>f, <3>k DEF CapForgivenOK, CapKnown
    <3>8. CapExecOK'
      BY <1>0, <1>t, <1>c, <2>1, <3>3, <3>4 DEF CapExecOK
    <3>9. timer' \in BOOLEAN
      BY <1>2, <2>1, CapTypes DEF Cancel
    <3> QED
      BY <1>0, <1>d, <1>e, <2>f, <3>3, <3>4, <3>6, <3>7, <3>8, <3>9, CapStep
  <2>2. CASE ~(rec.accepted # 0 /\ rec.status \in {"running", "uncertain"})
    <3>1. PICK ok \in Saves : Save([rec EXCEPT !.status = "cancelled"], ok) /\ timer' = (timer /\ ~ok)
      BY <1>2, <2>2 DEF Cancel
    <3>2. PICK q : q = [rec EXCEPT !.status = "cancelled"]
      OBVIOUS
    <3>3. rec' = q /\ file' \in {file, q} /\ faults' \in 0..MaxFaults
      BY <3>1, <3>2, <1>t, CapSaved
    <3>4. /\ q.status = "cancelled" /\ q.turn = rec.turn /\ q.attempts = rec.attempts /\ q.turns = rec.turns
          /\ q.retired = rec.retired /\ q.client = rec.client /\ q.accepted = rec.accepted
          /\ q.cancelFuture = rec.cancelFuture /\ q \in Record
      BY <3>2, <1>t DEF Record, Statuses
    <3>5. CapClosed(rec, q)
      BY <3>4, <1>2 DEF CapClosed, Live
    <3>6. CapRowOK(q) /\ CapSentOK(q) /\ CapCountOK(q) /\ ~CapPending(q) /\ CapKnown(q) = CapKnown(rec)
      <4>1. PICK p : p = rec
        OBVIOUS
      <4> QED
        BY <4>1, <3>5, <1>t, CapOver
    <3>7. CapDoubtOK(q)'
      <4>1. \A c \in wire : clients[c] \in CapExcepted'
        BY <2>w, <2>p DEF CapExcepted
      <4>2. ASSUME NEW t \in DOMAIN turns, turns[t].client # 0
            PROVE  \/ t \in CapKnown(rec) \/ t < Len(turns) \/ turns[t].status = "ended"
                   \/ clients[turns[t].client] \in CapExcepted'
        BY <4>2, <2>p, <2>f, <1>t DEF CapDoubtOK, CapExcepted
      <4> QED
        BY <4>1, <4>2, <3>6, <1>0 DEF CapDoubtOK, CapKnown
    <3>8. CapRecordOK(q)'
      BY <3>6, <3>7, <1>0, <2>f, CapRecordKept DEF CapRecordOK
    <3>9. CapForgivenOK(q)'
      BY <3>4, <2>f, <3>6 DEF CapForgivenOK, CapKnown, Live
    <3>10. CapExecOK'
      <4>1. exec \in {"accepting", "observing"} => FALSE
        BY <1>2, <1>t, <2>2 DEF CapExecOK, Live
      <4>2. CapKnown(q)' = CapKnown(rec)
        BY <3>6 DEF CapKnown
      <4> QED
        BY <1>0, <1>t, <1>c, <3>3, <3>4, <4>1, <4>2 DEF CapExecOK
    <3>11. timer' \in BOOLEAN
      BY <3>1, CapTypes
    <3> QED
      BY <1>0, <1>d, <1>e, <2>f, <3>3, <3>4, <3>8, <3>9, <3>10, <3>11, CapStep
  <2> QED
    BY <2>1, <2>2
<1> QED
  BY <1>1, <1>2

\* A check dropped, or its snapshot taken.
LEMMA CapKeepStep ==
  ASSUME CapInv, check' = NoCheck, KeepPrevious, faults' \in 0..MaxFaults,
         UNCHANGED <<turns, clients, submitted, wire, eligible, forgiven, rearmed, exec>>
  PROVE  CapInv'
<1>1. /\ UNCHANGED <<rec, file, settle>> /\ timer' = (timer \/ (rec.status = "waiting" /\ eligible))
  BY DEF KeepPrevious
<1>2. check'.on = FALSE /\ check'.read = FALSE /\ check'.scopes = {} /\ check'.view = NoCheck.view
  BY DEF NoCheck
<1>3. CapChecksOK'
  <2>1. CapPast(check.view)' /\ CapPast(settle.view)'
    BY <1>1, <1>2, CapPasts
  <2> QED
    BY <2>1, <1>2 DEF CapChecksOK
<1>4. /\ check'.on \in BOOLEAN /\ check'.read \in BOOLEAN /\ check'.scopes \subseteq DOMAIN turns
      /\ settle'.on \in BOOLEAN /\ settle'.own \in BOOLEAN /\ timer' \in BOOLEAN
  BY <1>1, <1>2, CapTypes
<1> QED
  BY <1>1, <1>2, <1>3, <1>4, CapWatchStep

LEMMA CapReconcileSteps ==
  ASSUME CapInv, ReconcileRead \/ ReconcileFails \/ SettleRead
  PROVE  CapInv'
<1> USE DEF native
<1>t. TypeOK /\ CapChecksOK /\ CapExecOK /\ CapDoubtOK(rec)
  BY DEF CapInv, CapRecordOK
<1>1. CASE ReconcileFails
  <2>1. faults' \in 0..MaxFaults
    BY <1>1, <1>t, CapFaulted DEF ReconcileFails
  <2> QED
    BY <1>1, <2>1, CapKeepStep DEF ReconcileFails
<1>2. CASE ReconcileRead
  <2>1. /\ UNCHANGED <<turns, submitted, wire, clients, rec, file, timer, settle, exec, eligible, forgiven, rearmed, faults>>
        /\ check.on /\ ~check.read /\ check' = [check EXCEPT !.read = TRUE, !.view = turns]
    BY <1>2 DEF ReconcileRead
  <2>p. CapPast(check.view)' /\ CapPast(settle.view)'
    BY <2>1, CapPasts
  <2>2. check'.on \in BOOLEAN /\ check'.read \in BOOLEAN /\ check'.scopes = check.scopes
        /\ (check'.on => check.on) /\ check'.view = turns
    <3> DEFINE yes == TRUE
    <3>1. check' = [check EXCEPT !.read = yes, !.view = turns] /\ yes \in BOOLEAN
      BY <2>1
    <3> HIDE DEF yes
    <3>2. check'.on = check.on /\ check'.scopes = check.scopes
      BY ONLY <3>1
    <3>3. check'.read = yes /\ check'.view = turns
      BY ONLY <3>1
    <3> QED
      BY <3>1, <3>2, <3>3, CapTypes
  <2>3. exec = "idle" /\ rec.status \notin {"submitting", "running"} /\ check'.scopes \intersect rec.retired = {}
    BY <2>1, <2>2, <1>t DEF CapChecksOK
  <2>4. ASSUME check'.view # <<>>, check'.view = turns
        PROVE  LET t == Len(turns)
               IN  turns[t].client # 0 =>
                     \/ t \in CapKnown(rec) \/ turns[t].status = "ended"
                     \/ clients[turns[t].client] \in CapExcepted
                     \/ (CapPending(rec) /\ turns[t].client = rec.client)
    <3>1. Len(turns) \in DOMAIN turns /\ ~(Len(turns) < Len(turns))
      BY <2>4, CapTypes
    <3> QED
      BY <3>1, <1>t DEF CapDoubtOK
  <2>5. CapChecksOK'
    <3>1. check'.on /\ check'.read => check'.view = turns
      BY <2>1, <2>2
    <3> QED
      BY <2>1, <2>p, <2>3, <2>4, <3>1 DEF CapChecksOK, CapKnown, CapExcepted, CapPending
  <2>6. /\ check'.scopes \subseteq DOMAIN turns /\ timer' \in BOOLEAN /\ faults' \in 0..MaxFaults
        /\ settle'.on \in BOOLEAN /\ settle'.own \in BOOLEAN
    BY <2>1, <2>2, CapTypes
  <2> QED
    BY <2>1, <2>2, <2>3, <2>5, <2>6, CapWatchStep
<1>3. CASE SettleRead
  <2>1. /\ UNCHANGED <<turns, submitted, wire, clients, rec, file, timer, check, exec, eligible, forgiven, rearmed, faults>>
        /\ settle' = [on |-> TRUE, own |-> TRUE, view |-> turns] /\ ~check.on
    BY <1>3 DEF SettleRead
  <2>2. settle'.on = TRUE /\ settle'.own = TRUE /\ settle'.view = turns
    BY <2>1
  <2>3. CapChecksOK'
    <3>1. CapPast(check.view)' /\ CapPast(settle.view)'
      BY <2>1, <2>2, CapPasts
    <3> QED
      BY <3>1, <2>1 DEF CapChecksOK
  <2>4. /\ check'.on \in BOOLEAN /\ check'.read \in BOOLEAN /\ check'.scopes \subseteq DOMAIN turns
        /\ timer' \in BOOLEAN /\ faults' \in 0..MaxFaults /\ ~check'.on
        /\ settle'.on \in BOOLEAN /\ settle'.own \in BOOLEAN
    BY <2>1, <2>2, CapTypes
  <2> QED
    BY <2>1, <2>3, <2>4, CapWatchStep
<1> QED
  BY <1>1, <1>2, <1>3

LEMMA CapReconciledStep ==
  ASSUME CapInv, Reconciled
  PROVE  CapInv'
<1> USE DEF native
<1>0. /\ UNCHANGED <<turns, submitted, wire, clients, exec, eligible, forgiven>> /\ check' = NoCheck
      /\ check.on /\ check.read
  BY DEF Reconciled
<1>t. TypeOK /\ CapChecksOK /\ CapExecOK /\ CapDoubtOK(rec) /\ CapTurnsOK
  BY DEF CapInv, CapRecordOK, CapNativeOK
<1>1. CASE ~Replaces(check.view)
  <2>1. KeepPrevious /\ UNCHANGED <<rearmed, faults>>
    BY <1>1 DEF Reconciled
  <2>2. faults' \in 0..MaxFaults
    BY <2>1, CapTypes
  <2> QED
    BY <1>0, <2>1, <2>2, CapKeepStep
<1>2. CASE Replaces(check.view)
  <2> DEFINE view == check.view
             t == Len(check.view)
             new == Fresh(t, rec)
  <2>1. /\ \E ok \in Saves : Begin(t, rec, ok)
        /\ rearmed' = rearmed \union ({t} \intersect rec.turns)
    BY <1>2 DEF Reconciled
  <2>2. PICK ok \in Saves : Begin(t, rec, ok)
    BY <2>1
  <2>3. /\ t \in check.scopes /\ t > 0 /\ view[t].status = "capacity"
        /\ rec.status = "uncertain" => Terminal(rec, view) /\ AcceptedTurn(rec, view) < t
    BY <1>2 DEF Replaces, Resumable
  <2>4. CapPast(view) /\ exec = "idle" /\ rec.status \notin {"submitting", "running"}
        /\ check.scopes \intersect rec.retired = {} /\ check.scopes \subseteq DOMAIN turns
    BY <1>0, <1>t DEF CapChecksOK, TypeOK
  <2>5. CapMayBegin(t)
    <3>1. t \in DOMAIN turns /\ t \in DOMAIN view /\ view # <<>> /\ t \notin rec.retired
      BY <2>3, <2>4 DEF CapPast
    <3>2. turns[t].status = "capacity"
      BY <2>3, <2>4, <3>1 DEF CapPast
    <3>3. ASSUME CapPending(rec)
          PROVE  \E s \in DOMAIN turns : turns[s].client = rec.client /\ s < t
      <4>1. rec.status = "uncertain"
        BY <3>3, <2>4 DEF CapPending
      <4>2. Terminal(rec, view) /\ AcceptedTurn(rec, view) < t
        BY <4>1, <2>3
      <4> DEFINE s == AcceptedTurn(rec, view)
      <4>3. s \in DOMAIN turns /\ turns[s].client = rec.client
        BY <3>3, <4>2, <2>4, CapNamed
      <4> HIDE DEF s
      <4> QED
        BY <4>2, <4>3 DEF s
    <3>4. turns[t].client # 0 => \/ t \in CapKnown(rec) \/ clients[turns[t].client] \in CapExcepted
                                 \/ (CapPending(rec) /\ turns[t].client = rec.client)
      BY <1>0, <1>t, <3>1, <3>2 DEF CapChecksOK
    <3> QED
      BY <2>4, <3>1, <3>2, <3>3, <3>4 DEF CapMayBegin
  <2>6. PICK q : q = [new EXCEPT !.status = IF More(new) THEN "waiting" ELSE "finished"]
    OBVIOUS
  <2>7. q \in Record /\ CapRecordOK(q)' /\ CapForgivenOK(q)'
    <3>1. PICK n : n = t
      OBVIOUS
    <3> QED
      BY <3>1, <1>0, <2>1, <2>5, <2>6, CapBegun
  <2>s. settle' = [settle EXCEPT !.own = FALSE] /\ Defer(new, ok, FALSE)
    BY <2>2 DEF Begin
  <2>9. t \in TurnIds
    BY <2>3, <2>4, CapTypes
  <2> HIDE DEF new, t, view
  <2>10. rec' = q /\ file' \in {file, q} /\ faults' \in 0..MaxFaults
    BY <2>s, <2>2, <2>6, <1>t, CapSaved DEF Defer
  <2>11. timer' \in BOOLEAN
    BY <2>s DEF Defer
  <2>12. CapExecOK'
    BY <1>0, <2>4 DEF CapExecOK
  <2>13. settle'.on = settle.on /\ settle'.own = FALSE /\ settle'.view = settle.view
    BY <2>s, <1>t DEF TypeOK
  <2>14. check'.on = FALSE /\ check'.read = FALSE /\ check'.scopes = {} /\ check'.view = NoCheck.view
    BY <1>0 DEF NoCheck
  <2>15. CapChecksOK'
    <3>1. CapPast(check.view)' /\ CapPast(settle.view)'
      BY <1>0, <2>13, <2>14, CapPasts
    <3> QED
      BY <3>1, <2>14 DEF CapChecksOK
  <2>16. /\ check'.on \in BOOLEAN /\ check'.read \in BOOLEAN /\ check'.scopes \subseteq DOMAIN turns
         /\ settle'.on \in BOOLEAN /\ settle'.own \in BOOLEAN
         /\ forgiven' \subseteq TurnIds /\ rearmed' \subseteq TurnIds /\ exec' \in Stages
         /\ forgiven \subseteq forgiven' /\ rearmed \subseteq rearmed'
    <3>1. rearmed' \subseteq TurnIds /\ rearmed \subseteq rearmed'
      BY <2>1, <2>9, CapTypes DEF t
    <3> QED
      BY <1>0, <2>13, <2>14, <3>1, CapTypes
  <2> QED
    BY <1>0, <2>7, <2>10, <2>11, <2>12, <2>15, <2>16, CapStep
<1> QED
  BY <1>1, <1>2

LEMMA CapSettledStep ==
  ASSUME CapInv, Settled
  PROVE  CapInv'
<1> USE DEF native
<1>0. /\ UNCHANGED <<turns, submitted, wire, clients, timer, check, exec, eligible, forgiven, rearmed>>
      /\ settle' = NoSettle
  BY DEF Settled
<1>t. /\ TypeOK /\ CapRowOK(rec) /\ CapSentOK(rec) /\ CapDoubtOK(rec) /\ CapForgivenOK(rec)
      /\ rec \in Record /\ CapExecOK /\ CapChecksOK
  BY DEF CapInv, CapRecordOK, TypeOK
<1>n. settle'.on = FALSE /\ settle'.own = FALSE /\ settle'.view = NoSettle.view
  BY <1>0 DEF NoSettle
<1>p. CapPast(check.view)' /\ CapPast(settle.view)'
  BY <1>0, <1>n, CapPasts
<1>e. /\ settle'.on \in BOOLEAN /\ settle'.own \in BOOLEAN
      /\ check'.on \in BOOLEAN /\ check'.read \in BOOLEAN /\ check'.scopes \subseteq DOMAIN turns
      /\ timer' \in BOOLEAN /\ exec' \in Stages
  BY <1>0, <1>n, CapTypes
<1>1. CASE UNCHANGED <<rec, file, faults>>
  <2>1. CapChecksOK'
    BY <1>0, <1>1, <1>p, <1>t DEF CapChecksOK, CapKnown, CapExcepted, CapPending
  <2>2. check'.on => exec = "idle"
    BY <1>0, <1>t DEF CapChecksOK
  <2>3. faults' \in 0..MaxFaults
    BY <1>1, CapTypes
  <2> QED
    BY <1>0, <1>1, <1>e, <2>1, <2>2, <2>3, CapWatchStep
<1>2. ASSUME NEW ok \in Saves, Save([rec EXCEPT !.status = "finished"], ok),
             ~check.on, ~Executing, rec.status = "uncertain", Closes(settle.view)
      PROVE  CapInv'
  <2> DEFINE view == settle.view
  <2>1. PICK q : q = [rec EXCEPT !.status = "finished"]
    OBVIOUS
  <2>2. rec' = q /\ file' \in {file, q} /\ faults' \in 0..MaxFaults
    BY <1>2, <2>1, <1>t, CapSaved
  <2>3. /\ q.status = "finished" /\ q.turn = rec.turn /\ q.attempts = rec.attempts /\ q.turns = rec.turns
        /\ q.retired = rec.retired /\ q.client = rec.client /\ q.accepted = rec.accepted
        /\ q.cancelFuture = rec.cancelFuture /\ q \in Record
    BY <2>1, <1>t DEF Record, Statuses
  <2>4. CapClosed(rec, q)
    BY <2>3, <1>2 DEF CapClosed
  <2>5. /\ CapRowOK(q) /\ CapSentOK(q) /\ CapCountOK(q) /\ CapForgivenOK(q)
        /\ ~CapPending(q) /\ CapKnown(q) = CapKnown(rec)
    <3>1. PICK p : p = rec
      OBVIOUS
    <3> QED
      BY <3>1, <2>4, <1>t, CapOver
  <2>6. CapDoubtOK(q)
    <3>1. CASE ~CapPending(rec)
      BY <3>1, <2>5, <1>t DEF CapDoubtOK
    <3>2. CASE CapPending(rec)
      \* The thread showed what became of the attempt.
      <4> DEFINE s == AcceptedTurn(rec, view)
      <4>1. CapPast(view) /\ Terminal(rec, view)
            /\ (rec.cancelFuture \/ ~Resumable(view, s))
        BY <1>2, <1>t DEF Closes, CapChecksOK
      <4>2. /\ s \in DOMAIN view /\ s \in DOMAIN turns /\ s <= Len(view) /\ s \in Nat
            /\ turns[s].client = rec.client /\ view[s].status # "active"
            /\ turns[s].status = view[s].status
            /\ rec.client \notin wire
            /\ \A u \in DOMAIN turns : turns[u].client = rec.client => u = s
        BY <3>2, <4>1, CapNamed
      <4>3. ~rec.cancelFuture
        BY <3>2, <1>2, <1>t DEF CapRowOK, CapPending, Live
      <4> HIDE DEF s
      <4>4. s < Len(turns) \/ turns[s].status = "ended"
        <5>1. Len(view) <= Len(turns) /\ Len(view) \in Nat /\ Len(turns) \in Nat /\ s > 0
          BY <4>1, <4>2, CapTypes DEF CapPast
        <5>2. s < Len(view) \/ view[s].status # "capacity"
          BY <4>1, <4>2, <4>3, <5>1 DEF Resumable
        <5>3. turns[s].status \in {"active", "capacity", "ended"}
          <6>1. turns[s] \in Turn
            BY <4>2, CapTypes
          <6> QED
            BY <6>1 DEF Turn
        <5> QED
          BY <4>2, <5>1, <5>2, <5>3
      <4>5. \A c \in wire : clients[c] \in CapExcepted
        BY <4>2, <1>t DEF CapDoubtOK
      <4>6. ASSUME NEW u \in DOMAIN turns, turns[u].client # 0
            PROVE  \/ u \in CapKnown(rec) \/ u < Len(turns) \/ turns[u].status = "ended"
                   \/ clients[turns[u].client] \in CapExcepted
        BY <4>2, <4>4, <4>6, <1>t DEF CapDoubtOK
      <4> QED
        BY <4>5, <4>6, <2>5 DEF CapDoubtOK
    <3> QED
      BY <3>1, <3>2
  <2>7. CapRecordOK(q)
    BY <2>5, <2>6 DEF CapRecordOK
  <2>8. CapExecOK'
    BY <1>0, <1>2 DEF CapExecOK, Executing
  <2> QED
    BY <1>0, <1>2, <1>e, <1>p, <2>2, <2>3, <2>5, <2>7, <2>8, CapPlainStep
<1> QED
  BY <1>1, <1>2 DEF Settled

-----------------------------------------------------------------------------
(* Capacity recovery: one attempt.                                         *)

\* A step of an attempt that ends it, or leaves only its result to be delivered.
LEMMA CapEndStep ==
  ASSUME CapInv, NEW q \in Record, rec' = q, file' \in {file, q},
         UNCHANGED <<turns, clients, submitted, wire, check, settle, eligible, forgiven, rearmed>>,
         timer' \in BOOLEAN, faults' \in 0..MaxFaults, exec' \in {"idle", "delivering"},
         ~check.on, CapRecordOK(q), CapForgivenOK(q)
  PROVE  CapInv'
<1>1. CapExecOK'
  BY DEF CapExecOK
<1>2. settle'.on \in BOOLEAN /\ settle'.own \in BOOLEAN /\ CapPast(settle.view)' /\ exec' \in Stages
  <2>1. settle' = settle /\ turns' = turns
    OBVIOUS
  <2>2. CapPast(settle.view)'
    BY <2>1 DEF CapInv, CapChecksOK, CapPast
  <2> QED
    BY <2>1, <2>2, CapTypes DEF Stages
<1> QED
  BY <1>1, <1>2, CapPlainStep

\* An attempt that was never sent, or was refused, leaves nothing in doubt.
CapNothingSent == CapPending(rec) =>
  rec.client \notin wire /\ \A s \in DOMAIN turns : turns[s].client # rec.client

LEMMA CapUnsent ==
  ASSUME CapInv, exec \in {"reading", "listing"}
  PROVE  /\ CapNothingSent /\ ~check.on
         /\ rec.status \in {"submitting", "cancelled"} /\ rec.accepted = 0
         /\ rec.client \in DOMAIN clients \ submitted
<1>1. CapExecOK /\ CapTurnsOK /\ TypeOK
  BY DEF CapInv, CapNativeOK
<1>2. /\ rec.status \in {"submitting", "cancelled"} /\ rec.accepted = 0
      /\ rec.client \in DOMAIN clients \ submitted /\ ~check.on
  BY <1>1 DEF CapExecOK
<1>3. rec.client # 0 /\ wire \subseteq submitted
  BY <1>1, <1>2 DEF TypeOK
<1> QED
  BY <1>1, <1>2, <1>3 DEF CapNothingSent, CapTurnsOK

LEMMA CapFinished ==
  ASSUME CapInv, rec.status # "none", CapNothingSent,
         NEW q, q = [rec EXCEPT !.status = "finished"]
  PROVE  q \in Record /\ CapRecordOK(q) /\ CapForgivenOK(q)
<1>t. CapRowOK(rec) /\ CapSentOK(rec) /\ CapDoubtOK(rec) /\ CapForgivenOK(rec) /\ rec \in Record
  BY DEF CapInv, CapRecordOK, TypeOK
<1>1. /\ q.status = "finished" /\ q.turn = rec.turn /\ q.attempts = rec.attempts /\ q.turns = rec.turns
      /\ q.retired = rec.retired /\ q.client = rec.client /\ q.accepted = rec.accepted
      /\ q.cancelFuture = rec.cancelFuture /\ q \in Record
  BY <1>t DEF Record, Statuses
<1>2. CapClosed(rec, q)
  BY <1>1 DEF CapClosed
<1>3. /\ CapRowOK(q) /\ CapSentOK(q) /\ CapCountOK(q) /\ CapForgivenOK(q)
      /\ ~CapPending(q) /\ CapKnown(q) = CapKnown(rec)
  <2>1. PICK p : p = rec
    OBVIOUS
  <2> QED
    BY <2>1, <1>2, <1>t, CapOver
<1>4. CapDoubtOK(q)
  BY <1>3, <1>t DEF CapDoubtOK, CapNothingSent
<1> QED
  BY <1>1, <1>3, <1>4 DEF CapRecordOK

LEMMA CapNotContinued ==
  ASSUME CapInv, NotContinued, rec.status # "none", CapNothingSent, ~check.on,
         UNCHANGED <<turns, clients, submitted, wire, check, settle, eligible, forgiven, rearmed>>,
         timer' \in BOOLEAN
  PROVE  CapInv'
<1>t. CapRecordOK(rec) /\ CapForgivenOK(rec) /\ rec \in Record /\ TypeOK
  BY DEF CapInv, TypeOK
<1>1. CASE rec.status = "cancelled"
  <2>1. exec' = "idle" /\ UNCHANGED <<rec, file, faults>>
    BY <1>1 DEF NotContinued, GiveUp
  <2>2. PICK q : q = rec
    OBVIOUS
  <2>3. q \in Record /\ rec' = q /\ file' \in {file, q} /\ CapRecordOK(q) /\ CapForgivenOK(q)
        /\ faults' \in 0..MaxFaults /\ exec' \in {"idle", "delivering"}
    BY <2>1, <2>2, <1>t, CapTypes
  <2> QED
    BY <2>3, CapEndStep
<1>2. CASE rec.status # "cancelled"
  <2>1. PICK ok \in Saves : Save([rec EXCEPT !.status = "finished"], ok) /\ exec' = IF ok THEN "delivering" ELSE "idle"
    BY <1>2 DEF NotContinued, GiveUp
  <2>2. PICK q : q = [rec EXCEPT !.status = "finished"]
    OBVIOUS
  <2>3. q \in Record /\ CapRecordOK(q) /\ CapForgivenOK(q)
    BY <2>2, CapFinished
  <2>4. rec' = q /\ file' \in {file, q} /\ faults' \in 0..MaxFaults
    BY <2>1, <2>2, <1>t, CapSaved
  <2>5. exec' \in {"idle", "delivering"}
    BY <2>1
  <2> QED
    BY <2>3, <2>4, <2>5, CapEndStep
<1> QED
  BY <1>1, <1>2

\* A fault in an attempt leaves its record uncertain.
LEMMA CapGivenUp ==
  ASSUME CapInv, NEW p \in Record, CapRecordOK(p), CapForgivenOK(p),
         p.status \in {"submitting", "running", "cancelled"}, GiveUpAfterFault(p, "uncertain"), ~check.on,
         UNCHANGED <<turns, clients, submitted, wire, check, settle, eligible, forgiven, rearmed>>,
         timer' \in BOOLEAN
  PROVE  CapInv'
<1>1. PICK q : q = IF p.status = "cancelled" THEN p ELSE [p EXCEPT !.status = "uncertain"]
  OBVIOUS
<1>2. rec' = q /\ file' \in {file, q} /\ exec' \in {"idle", "delivering"} /\ Fault
  BY <1>1 DEF GiveUpAfterFault
<1>3. q \in Record /\ CapCarried(p, q)
  <2>1. CASE p.status = "cancelled"
    BY <2>1, <1>1 DEF CapCarried
  <2>2. CASE p.status # "cancelled"
    <3>1. q = [p EXCEPT !.status = "uncertain"]
      BY <2>2, <1>1
    <3>2. /\ q.status = "uncertain" /\ q.turn = p.turn /\ q.attempts = p.attempts /\ q.turns = p.turns
          /\ q.retired = p.retired /\ q.client = p.client /\ q.accepted = p.accepted
          /\ q.cancelFuture = p.cancelFuture /\ q \in Record
      BY <3>1 DEF Record, Statuses
    <3> QED
      BY <2>2, <3>2 DEF CapCarried
  <2> QED
    BY <2>1, <2>2
<1>4. CapRecordOK(q) /\ CapForgivenOK(q)
  BY <1>3, CapCarriedOn, CapCarriedForgiven
<1>5. faults' \in 0..MaxFaults
  BY <1>2, CapFaulted DEF CapInv
<1> QED
  BY <1>2, <1>3, <1>4, <1>5, CapEndStep

LEMMA CapReadSteps ==
  ASSUME CapInv, ReadTail \/ ReadFails \/ QueueTakesPrecedence
  PROVE  CapInv'
<1> USE DEF native
<1>0. UNCHANGED <<turns, submitted, wire, clients, timer, check, settle, eligible, forgiven, rearmed>>
  BY DEF ReadTail, ReadFails, QueueTakesPrecedence
<1>1. exec \in {"reading", "listing"}
  BY DEF ReadTail, ReadFails, QueueTakesPrecedence
<1>2. /\ CapNothingSent /\ ~check.on
      /\ rec.status \in {"submitting", "cancelled"} /\ rec.accepted = 0
      /\ rec.client \in DOMAIN clients \ submitted
  BY <1>1, CapUnsent
<1>t. /\ TypeOK /\ CapRecordOK(rec) /\ CapForgivenOK(rec) /\ rec \in Record /\ CapExecOK /\ CapDoubtOK(rec)
      /\ timer' \in BOOLEAN
  BY <1>0 DEF CapInv, TypeOK, CapRecordOK
<1>3. CASE NotContinued
  BY <1>0, <1>2, <1>3, <1>t, CapNotContinued
<1>4. CASE ReadFails
  <2>1. PICK status \in {"finished", "uncertain"} : GiveUpAfterFault(rec, status)
    BY <1>4 DEF ReadFails
  <2>2. CASE status = "uncertain"
    <3>1. PICK p : p = rec
      OBVIOUS
    <3>2. p.status \in {"submitting", "running", "cancelled"} /\ GiveUpAfterFault(p, "uncertain")
          /\ p \in Record /\ CapRecordOK(p) /\ CapForgivenOK(p)
      BY <3>1, <2>1, <2>2, <1>2, <1>t
    <3> QED
      BY <3>2, <1>0, <1>2, <1>t, CapGivenUp
  <2>3. CASE status = "finished"
    <3>1. PICK q : q = IF rec.status = "cancelled" THEN rec ELSE [rec EXCEPT !.status = "finished"]
      OBVIOUS
    <3>2. rec' = q /\ file' \in {file, q} /\ exec' \in {"idle", "delivering"} /\ Fault
      BY <3>1, <2>1, <2>3 DEF GiveUpAfterFault
    <3>3. q \in Record /\ CapRecordOK(q) /\ CapForgivenOK(q)
      <4>1. CASE rec.status = "cancelled"
        BY <4>1, <3>1, <1>t
      <4>2. CASE rec.status # "cancelled"
        BY <4>2, <3>1, <1>2, CapFinished
      <4> QED
        BY <4>1, <4>2
    <3>4. faults' \in 0..MaxFaults
      BY <3>2, <1>t, CapFaulted
    <3> QED
      BY <1>0, <1>2, <1>t, <3>2, <3>3, <3>4, CapEndStep
  <2> QED
    BY <2>1, <2>2, <2>3
<1>5. CASE exec = "reading" /\ Resumable(turns, rec.turn) /\ exec' = "listing" /\ UNCHANGED <<rec, file, faults>>
  <2>1. PICK q : q = rec
    OBVIOUS
  <2>2. rec.turn = Len(turns)
    BY <1>5 DEF Resumable
  <2>3. CapExecOK'
    <3>1. \A t \in DOMAIN turns : ~(t > rec.turn)
      BY <2>2, CapTypes
    <3> QED
      BY <3>1, <1>0, <1>5, <1>t, <1>2 DEF CapExecOK
  <2>4. settle'.on \in BOOLEAN /\ settle'.own \in BOOLEAN /\ CapPast(settle.view)' /\ exec' \in Stages
        /\ faults' \in 0..MaxFaults
    BY <1>0, <1>5, CapTypes, CapPasts DEF Stages
  <2>5. q \in Record /\ rec' = q /\ file' \in {file, q} /\ CapRecordOK(q) /\ CapForgivenOK(q)
    BY <2>1, <1>5, <1>t
  <2> QED
    BY <1>0, <1>2, <1>t, <2>3, <2>4, <2>5, CapPlainStep
<1> QED
  BY <1>3, <1>4, <1>5 DEF ReadTail, QueueTakesPrecedence

\* Where an attempt that was sent stands.
LEMMA CapSentPlace ==
  ASSUME CapInv, exec \in {"sent", "accepting", "observing"}
  PROVE  /\ ~check.on /\ rec.status \in {"submitting", "running", "cancelled"}
         /\ exec = "sent" => rec.status \in {"submitting", "cancelled"} /\ rec.accepted = 0
         /\ exec \in {"accepting", "observing"} =>
              rec.status \in {"running", "cancelled"} /\ rec.accepted # 0 /\ CapNothingSent
         /\ exec = "observing" => rec.turn = rec.accepted
         /\ TypeOK /\ CapRecordOK(rec) /\ CapForgivenOK(rec) /\ rec \in Record
         /\ rec.accepted \in rec.turns \union {0}
<1>1. CapExecOK /\ CapChecksOK /\ CapRowOK(rec)
  BY DEF CapInv, CapRecordOK
<1>2. exec = "sent" => rec.status \in {"submitting", "cancelled"} /\ rec.accepted = 0
  BY <1>1 DEF CapExecOK
<1>3. exec \in {"accepting", "observing"} =>
        rec.status \in {"running", "cancelled"} /\ rec.accepted # 0 /\ CapNothingSent
  BY <1>1 DEF CapExecOK, CapNothingSent, CapPending
<1>4. exec = "observing" => rec.turn = rec.accepted
  BY <1>1 DEF CapExecOK
<1>5. ~check.on
  BY <1>1 DEF CapChecksOK
<1>6. TypeOK /\ CapRecordOK(rec) /\ CapForgivenOK(rec) /\ rec \in Record
  BY DEF CapInv, TypeOK
<1>7. rec.accepted \in rec.turns \union {0}
  BY <1>1 DEF CapRowOK
<1> QED
  BY <1>2, <1>3, <1>4, <1>5, <1>6, <1>7

\* A step of an attempt that goes on.
LEMMA CapOnStep ==
  ASSUME CapInv, NEW q \in Record, rec' = q, file' \in {file, q},
         UNCHANGED <<turns, clients, submitted, wire, timer, check, settle, eligible, forgiven, rearmed>>,
         faults' \in 0..MaxFaults, exec' \in {"accepting", "observing"},
         q.status \in {"running", "cancelled"}, q.accepted # 0, exec' = "observing" => q.turn = q.accepted,
         ~check.on, CapRecordOK(q), CapForgivenOK(q)
  PROVE  CapInv'
<1>1. CapExecOK'
  BY DEF CapExecOK
<1>2. settle'.on \in BOOLEAN /\ settle'.own \in BOOLEAN /\ CapPast(settle.view)' /\ exec' \in Stages /\ timer' \in BOOLEAN
  <2>1. settle' = settle /\ turns' = turns /\ timer' = timer
    OBVIOUS
  <2>2. CapPast(settle.view)'
    BY <2>1 DEF CapInv, CapChecksOK, CapPast
  <2> QED
    BY <2>1, <2>2, CapTypes DEF Stages
<1> QED
  BY <1>1, <1>2, CapPlainStep

LEMMA CapAcceptedStep ==
  ASSUME CapInv, NEW t \in TurnIds, Accepted(t)
  PROVE  CapInv'
<1> USE DEF native
<1>0. /\ UNCHANGED <<turns, submitted, wire, clients, timer, check, settle, eligible, forgiven, rearmed>>
      /\ exec = "sent" /\ t \in Started
  BY DEF Accepted
<1>1. ~check.on /\ TypeOK /\ timer' \in BOOLEAN
  BY <1>0, CapSentPlace, CapTypes
<1>2. PICK q : q = Receipt(t)
  OBVIOUS
<1>3. /\ q \in Record /\ CapRecordOK(q) /\ CapForgivenOK(q)
      /\ q.status \in {"running", "cancelled"} /\ q.accepted # 0
  BY <1>0, <1>2, CapReceived
<1>4. CASE Save(Receipt(t), TRUE) /\ exec' = "accepting"
  <2>1. rec' = q /\ file' \in {file, q} /\ faults' \in 0..MaxFaults
    BY <1>2, <1>4, CapTypes DEF Save
  <2> QED
    BY <1>0, <1>1, <1>3, <1>4, <2>1, CapOnStep
<1>5. CASE GiveUpAfterFault(Receipt(t), "uncertain")
  <2>1. GiveUpAfterFault(q, "uncertain") /\ q.status \in {"submitting", "running", "cancelled"}
    BY <1>2, <1>3, <1>5
  <2> QED
    BY <1>0, <1>1, <1>3, <2>1, CapGivenUp
<1> QED
  BY <1>4, <1>5 DEF Accepted

LEMMA CapShownStep ==
  ASSUME CapInv, AcceptanceShown
  PROVE  CapInv'
<1> USE DEF native
<1>0. /\ UNCHANGED <<turns, submitted, wire, clients, timer, check, settle, eligible, forgiven, rearmed>>
      /\ exec = "accepting"
  BY DEF AcceptanceShown
<1>1. /\ ~check.on /\ TypeOK /\ timer' \in BOOLEAN /\ rec.status \in {"running", "cancelled"} /\ rec.accepted # 0
      /\ CapRecordOK(rec) /\ CapForgivenOK(rec) /\ rec \in Record
  BY <1>0, CapSentPlace, CapTypes
<1>2. PICK p, q : p = rec /\ q = [rec EXCEPT !.turn = rec.accepted]
  OBVIOUS
<1>3. /\ q.status = p.status /\ q.turn = p.accepted /\ q.attempts = p.attempts /\ q.turns = p.turns
      /\ q.retired = p.retired /\ q.client = p.client /\ q.accepted = p.accepted
      /\ q.cancelFuture = p.cancelFuture /\ q \in Record
  BY <1>1, <1>2 DEF Record
<1>4. CapCarried(p, q)
  BY <1>1, <1>2, <1>3 DEF CapCarried, NextResumed
<1>5. CapRecordOK(p) /\ CapForgivenOK(p) /\ p \in Record /\ p.status \in {"running", "cancelled"} /\ p.accepted # 0
  BY <1>1, <1>2
<1>6. CapRecordOK(q) /\ CapForgivenOK(q)
  BY <1>4, <1>5, CapCarriedOn, CapCarriedForgiven
<1>7. CASE Save(q, TRUE) /\ exec' = "observing"
  <2>1. rec' = q /\ file' \in {file, q} /\ faults' \in 0..MaxFaults
    BY <1>7, CapTypes DEF Save
  <2>2. q.status \in {"running", "cancelled"} /\ q.accepted # 0 /\ q.turn = q.accepted
    BY <1>3, <1>5
  <2> QED
    BY <1>0, <1>1, <1>3, <1>6, <1>7, <2>1, <2>2, CapOnStep
<1>8. CASE GiveUpAfterFault(q, "uncertain")
  <2>1. q.status \in {"submitting", "running", "cancelled"}
    BY <1>3, <1>5
  <2> QED
    BY <1>0, <1>1, <1>3, <1>6, <1>8, <2>1, CapGivenUp
<1>9. CASE GiveUpAfterFault(p, "uncertain")
  <2>1. p.status \in {"submitting", "running", "cancelled"}
    BY <1>5
  <2> QED
    BY <1>0, <1>1, <1>5, <1>9, <2>1, CapGivenUp
<1> QED
  BY <1>2, <1>7, <1>8, <1>9 DEF AcceptanceShown

LEMMA CapAnswerSteps ==
  ASSUME CapInv, StartRefused \/ AnswerLost
  PROVE  CapInv'
<1> USE DEF native
<1>0. /\ UNCHANGED <<turns, submitted, wire, clients, timer, check, settle, eligible, forgiven, rearmed>>
      /\ exec \in {"sent", "observing"}
  BY DEF StartRefused, AnswerLost
<1>1. /\ ~check.on /\ TypeOK /\ timer' \in BOOLEAN /\ rec.status \in {"submitting", "running", "cancelled"}
      /\ CapRecordOK(rec) /\ CapForgivenOK(rec) /\ rec \in Record
  BY <1>0, CapSentPlace, CapTypes
<1>2. CASE StartRefused
  <2>1. CapNothingSent
    BY <1>2 DEF StartRefused, Started, CapNothingSent
  <2>2. NotContinued /\ rec.status # "none"
    BY <1>1, <1>2 DEF StartRefused
  <2> QED
    BY <1>0, <1>1, <2>1, <2>2, CapNotContinued
<1>3. CASE AnswerLost
  <2>1. PICK p : p = rec
    OBVIOUS
  <2>2. /\ GiveUpAfterFault(p, "uncertain") /\ p \in Record /\ CapRecordOK(p) /\ CapForgivenOK(p)
        /\ p.status \in {"submitting", "running", "cancelled"}
    BY <2>1, <1>1, <1>3 DEF AnswerLost
  <2> QED
    BY <1>0, <1>1, <2>2, CapGivenUp
<1> QED
  BY <1>2, <1>3

LEMMA CapObservedStep ==
  ASSUME CapInv, Observed
  PROVE  CapInv'
<1> USE DEF native
<1>0. /\ UNCHANGED <<turns, submitted, wire, clients, check, settle, eligible, forgiven, rearmed>>
      /\ exec = "observing"
  BY DEF Observed
<1>1. /\ ~check.on /\ TypeOK /\ rec.status \in {"running", "cancelled"} /\ rec.accepted # 0
      /\ CapRecordOK(rec) /\ CapForgivenOK(rec) /\ rec \in Record /\ rec.turn = rec.accepted /\ CapNothingSent
  BY <1>0, CapSentPlace, CapTypes
<1>2. CASE ObservedCapacity
  <2> DEFINE new == [rec EXCEPT !.accepted = 0]
  <2>1. PICK ok \in Saves : Defer(new, ok, timer) /\ exec' = IF More(rec) \/ ~ok THEN "idle" ELSE "delivering"
    BY <1>2 DEF ObservedCapacity
  <2>2. PICK q : q = [new EXCEPT !.status = IF More(new) THEN "waiting" ELSE "finished"]
    OBVIOUS
  <2>3. rec.status = "running"
    BY <1>1, <1>2 DEF ObservedCapacity
  <2>4. q \in Record /\ CapRecordOK(q) /\ CapForgivenOK(q)
    BY <1>1, <2>2, <2>3, CapDeferred
  <2> HIDE DEF new
  <2>5. rec' = q /\ file' \in {file, q} /\ faults' \in 0..MaxFaults
    BY <2>1, <2>2, <1>1, CapSaved DEF Defer
  <2>6. timer' \in BOOLEAN
    BY <2>1, CapTypes DEF Defer
  <2>7. exec' \in {"idle", "delivering"}
    BY <2>1
  <2> QED
    BY <1>0, <1>1, <2>4, <2>5, <2>6, <2>7, CapEndStep
<1>3. CASE ObservedEnd
  <2>1. timer' \in BOOLEAN
    BY <1>3, CapTypes DEF ObservedEnd
  <2>2. CASE NotContinued
    <3>1. rec.status # "none"
      BY <1>1
    <3> QED
      BY <1>0, <1>1, <2>1, <2>2, <3>1, CapNotContinued
  <2>3. CASE GiveUpAfterFault(rec, "uncertain")
    <3>1. PICK p : p = rec
      OBVIOUS
    <3>2. /\ GiveUpAfterFault(p, "uncertain") /\ p \in Record /\ CapRecordOK(p) /\ CapForgivenOK(p)
          /\ p.status \in {"submitting", "running", "cancelled"}
      BY <3>1, <1>1, <2>3
    <3> QED
      BY <1>0, <1>1, <2>1, <3>2, CapGivenUp
  <2> QED
    BY <1>3, <2>2, <2>3 DEF ObservedEnd
<1> QED
  BY <1>2, <1>3 DEF Observed

LEMMA CapDeliveredStep ==
  ASSUME CapInv, Delivered
  PROVE  CapInv'
<1> USE DEF native
<1>0. /\ UNCHANGED <<turns, submitted, wire, clients, rec, file, timer, check, settle, eligible, forgiven, rearmed, faults>>
      /\ exec = "delivering" /\ exec' = "idle"
  BY DEF Delivered
<1>1. ~check.on
  BY <1>0 DEF CapInv, CapChecksOK
<1>2. PICK q : q = rec
  OBVIOUS
<1>3. /\ q \in Record /\ rec' = q /\ file' \in {file, q} /\ CapRecordOK(q) /\ CapForgivenOK(q)
      /\ timer' \in BOOLEAN /\ faults' \in 0..MaxFaults /\ exec' \in {"idle", "delivering"}
  BY <1>0, <1>2, CapTypes DEF CapInv
<1> QED
  BY <1>0, <1>1, <1>3, CapEndStep

\* A claim takes the next client id; what was sent keeps its own.
LEMMA CapClaims ==
  ASSUME TypeOK, CapNativeOK, NEW x \in TurnIds, clients' = Append(clients, x),
         UNCHANGED <<turns, submitted, wire, forgiven, rearmed>>
  PROVE  /\ CapNativeOK'
         /\ clients' \in Seq(TurnIds) /\ Len(clients') = Len(clients) + 1 /\ Len(clients) \in Nat
         /\ DOMAIN clients = 1..Len(clients) /\ DOMAIN clients' = 1..(Len(clients) + 1)
         /\ clients'[Len(clients) + 1] = x
         /\ \A c \in DOMAIN clients : clients'[c] = clients[c]
         /\ \A c \in submitted : clients'[c] = clients[c]
         /\ \A t \in DOMAIN turns : turns[t].client # 0 => clients'[turns[t].client] = clients[turns[t].client]
         /\ \A r \in Record : CapRecordOK(r) => CapRecordOK(r)'
<1>1. clients \in Seq(TurnIds) /\ submitted \subseteq DOMAIN clients /\ wire \subseteq submitted
  BY DEF TypeOK
<1>2. /\ clients' \in Seq(TurnIds) /\ Len(clients') = Len(clients) + 1 /\ Len(clients) \in Nat
      /\ DOMAIN clients = 1..Len(clients) /\ DOMAIN clients' = 1..(Len(clients) + 1)
      /\ clients'[Len(clients) + 1] = x
      /\ \A c \in DOMAIN clients : clients'[c] = clients[c]
  BY <1>1
<1>3. \A c \in submitted : clients'[c] = clients[c]
  BY <1>1, <1>2
<1>i. CapTurnsOK /\ CapOrderOK /\ CapChainsOK /\ ResumedOnce
  BY DEF CapNativeOK
<1>4. \A t \in DOMAIN turns : turns[t].client # 0 => clients'[turns[t].client] = clients[turns[t].client]
  BY <1>3, <1>i DEF CapTurnsOK
<1>x. CapExcepted' = CapExcepted
  BY DEF CapExcepted
<1>c. \A first, last : CapChain(first, last)' <=> CapChain(first, last)
  <2>1. ASSUME NEW first \in DOMAIN turns, NEW last \in DOMAIN turns
        PROVE  first..last \subseteq DOMAIN turns
    <3>1. DOMAIN turns = 1..Len(turns) /\ Len(turns) \in Nat
      BY DEF TypeOK
    <3> QED
      BY <3>1
  <2> QED
    BY <2>1, <1>4, <1>x DEF CapChain
<1>5. CapNativeOK'
  <2>1. CapTurnsOK'
    BY <1>i, <1>3, <1>4 DEF CapTurnsOK
  <2>2. CapOrderOK'
    BY <1>i, <1>3, <1>x DEF CapOrderOK
  <2>3. CapChainsOK'
    BY <1>i, <1>c DEF CapChainsOK
  <2>4. ResumedOnce'
    <3> SUFFICES ASSUME NEW c \in submitted, NEW d \in submitted, clients'[c] = clients'[d]
                 PROVE  c = d \/ clients'[c] \in rearmed
      BY DEF ResumedOnce
    <3>1. clients[c] = clients[d] /\ clients'[c] = clients[c]
      BY <1>3
    <3> QED
      BY <1>i, <3>1 DEF ResumedOnce
  <2> QED
    BY <2>1, <2>2, <2>3, <2>4 DEF CapNativeOK
<1>6. ASSUME NEW r \in Record, CapRecordOK(r)
      PROVE  CapRecordOK(r)'
  <2>k. CapKnown(r)' = CapKnown(r) /\ CapPending(r)' = CapPending(r)
    BY DEF CapKnown, CapPending
  <2>r. CapRowOK(r) /\ CapSentOK(r) /\ CapDoubtOK(r) /\ CapCountOK(r)
    BY <1>6 DEF CapRecordOK
  <2>1. CapRowOK(r)'
    <3>1. r.client \in 0..Len(clients') /\ (r.client # 0 => clients'[r.client] = clients[r.client])
      <4>1. r.client \in 0..Len(clients)
        BY <2>r DEF CapRowOK
      <4> QED
        BY <4>1, <1>2
    <3> QED
      BY <2>r, <2>k, <3>1 DEF CapRowOK
  <2>2. CapSentOK(r)'
    BY <2>r, <2>k, <1>3 DEF CapSentOK
  <2>3. CapDoubtOK(r)'
    BY <2>r, <2>k, <1>1, <1>3, <1>4, <1>x DEF CapDoubtOK
  <2>4. CapCountOK(r)'
    BY <2>r, <2>k, <1>c DEF CapCountOK
  <2> QED
    BY <2>1, <2>2, <2>3, <2>4 DEF CapRecordOK
<1> QED
  BY <1>2, <1>3, <1>4, <1>5, <1>6

\* The record a claim makes.
LEMMA CapClaimed ==
  ASSUME CapInv, rec.status = "waiting", clients' = Append(clients, rec.turn),
         UNCHANGED <<turns, submitted, wire, forgiven, rearmed>>, NEW q, q = Claim
  PROVE  /\ q \in Record /\ CapRecordOK(q)' /\ CapForgivenOK(q)'
         /\ q.status = "submitting" /\ q.accepted = 0 /\ q.client = Len(clients) + 1
         /\ \A p : p = [q EXCEPT !.status = "finished"] => p \in Record /\ CapRecordOK(p)' /\ CapForgivenOK(p)'
<1>t. /\ TypeOK /\ CapNativeOK /\ CapTurnsOK /\ rec \in Record /\ CapRowOK(rec) /\ CapSentOK(rec) /\ CapDoubtOK(rec)
      /\ CapCountOK(rec) /\ CapForgivenOK(rec)
  BY DEF CapInv, CapRecordOK, TypeOK, CapNativeOK
<1>1. /\ rec.turn \in rec.turns /\ rec.turn \in TurnIds /\ rec.accepted = 0 /\ ~rec.cancelFuture
      /\ rec.attempts < Limit /\ rec.attempts \in Nat /\ ~CapPending(rec) /\ Live(rec)
  BY <1>t DEF CapRowOK, Record, CapPending, Live
<1>a. /\ Len(clients') = Len(clients) + 1 /\ Len(clients) \in Nat
      /\ clients'[Len(clients) + 1] = rec.turn
      /\ DOMAIN clients = 1..Len(clients)
      /\ \A c \in submitted : clients'[c] = clients[c]
      /\ \A t \in DOMAIN turns : turns[t].client # 0 => clients'[turns[t].client] = clients[turns[t].client]
      /\ \A r \in Record : CapRecordOK(r) => CapRecordOK(r)'
  <2>1. PICK x : x = rec.turn
    OBVIOUS
  <2>2. x \in TurnIds /\ clients' = Append(clients, x)
    BY <2>1, <1>1
  <2>3. /\ Len(clients') = Len(clients) + 1 /\ Len(clients) \in Nat
        /\ clients'[Len(clients) + 1] = x
        /\ DOMAIN clients = 1..Len(clients)
        /\ \A c \in submitted : clients'[c] = clients[c]
        /\ \A t \in DOMAIN turns : turns[t].client # 0 => clients'[turns[t].client] = clients[turns[t].client]
        /\ \A r \in Record : CapRecordOK(r) => CapRecordOK(r)'
    BY <2>2, <1>t, CapClaims
  <2> QED
    BY <2>1, <2>3
<1> DEFINE n == Len(clients) + 1
           m == rec.attempts + 1
<1>b. n \in Nat /\ m \in 0..Limit /\ n # 0 /\ m > 0 /\ m = rec.attempts + 1
      /\ \A c \in submitted : c <= n
  <2>1. \A c \in submitted : c \in 1..Len(clients)
    BY <1>a, <1>t DEF TypeOK
  <2> QED
    BY <2>1, <1>1, <1>a, BoundsAssumption
<1>e. q = [rec EXCEPT !.status = "submitting", !.attempts = m, !.client = n]
  BY <1>t DEF Claim, Record
<1>n. clients'[n] = rec.turn /\ n \in 0..Len(clients')
  BY <1>a
<1>nn. n = Len(clients) + 1
  OBVIOUS
<1> HIDE DEF n, m
<1>q. /\ q.status = "submitting" /\ q.turn = rec.turn /\ q.attempts = m /\ q.turns = rec.turns
      /\ q.retired = rec.retired /\ q.client = n /\ q.accepted = rec.accepted
      /\ q.cancelFuture = rec.cancelFuture /\ q \in Record
  BY <1>e, <1>b, <1>t DEF Record, Statuses
<1>k. CapKnown(q)' = CapKnown(rec) /\ CapPending(q)' /\ CapPending(q) /\ CapExcepted' = CapExcepted
  BY <1>q, <1>1 DEF CapKnown, CapPending, CapExcepted
<1>w. wire \subseteq submitted /\ \A t \in DOMAIN turns : turns[t].client # 0 => turns[t].client \in submitted
  BY <1>t DEF TypeOK, CapTurnsOK
<1>d. /\ \A c \in wire : clients'[c] \in CapExcepted
      /\ \A t \in DOMAIN turns : turns[t].client # 0 =>
           \/ t \in CapKnown(rec) \/ t < Len(turns) \/ turns[t].status = "ended"
           \/ clients'[turns[t].client] \in CapExcepted
  <2>1. \A c \in wire : clients'[c] \in CapExcepted
    BY <1>t, <1>a, <1>w, <1>1 DEF CapDoubtOK
  <2>2. ASSUME NEW t \in DOMAIN turns, turns[t].client # 0
        PROVE  \/ t \in CapKnown(rec) \/ t < Len(turns) \/ turns[t].status = "ended"
               \/ clients'[turns[t].client] \in CapExcepted
    BY <2>2, <1>t, <1>a, <1>1 DEF CapDoubtOK
  <2> QED
    BY <2>1, <2>2
<1>2. CapRowOK(q)'
  BY <1>q, <1>1, <1>n, <1>b, <1>k, <1>t DEF CapRowOK
<1>3. CapSentOK(q)'
  <2>1. \A c \in submitted : clients'[c] \in CapKnown(rec)
    BY <1>t, <1>a DEF CapSentOK
  <2>2. \A c \in submitted : clients'[c] = rec.turn => clients'[c] \in rearmed
    BY <1>t, <1>a, <1>1 DEF CapSentOK
  <2> QED
    BY <2>1, <2>2, <1>q, <1>1, <1>b, <1>k DEF CapSentOK
<1>4. CapDoubtOK(q)'
  BY <1>d, <1>k DEF CapDoubtOK
<1>5. CapCountOK(q)'
  <2>1. ASSUME NEW first \in DOMAIN turns, CapChain(first, q.turn)', rec.turn \notin rearmed
        PROVE  q.turn + 1 < first + m
    <3>1. CapChain(first, rec.turn)
      <4>1. first..rec.turn \subseteq DOMAIN turns
        <5>1. DOMAIN turns = 1..Len(turns) /\ Len(turns) \in Nat /\ rec.turn \in DOMAIN turns
          BY <1>t, <1>1, CapTypes DEF CapRowOK, CapKnown
        <5> QED
          BY <5>1
      <4> QED
        BY <4>1, <2>1, <1>a, <1>k, <1>q DEF CapChain
    <3>2. rec.turn < first + rec.attempts
      BY <3>1, <2>1, <1>t, <1>1 DEF CapCountOK
    <3>3. first \in Nat /\ rec.turn \in Nat
      BY <1>t, CapTypes DEF Record
    <3> QED
      BY <3>2, <3>3, <1>1, <1>b, <1>q
  <2>2. q.turn \notin rearmed' => rec.turn \notin rearmed
    BY <1>q
  <2>3. q.status # "waiting" /\ q.accepted = 0 /\ q.attempts = m
    BY <1>q, <1>1
  <2> QED
    BY <2>1, <2>2, <2>3 DEF CapCountOK
<1>6. CapForgivenOK(q)'
  BY <1>t, <1>q, <1>1, <1>k DEF CapForgivenOK, NextResumed
<1>7. ASSUME NEW p, p = [q EXCEPT !.status = "finished"]
      PROVE  p \in Record /\ CapRecordOK(p)' /\ CapForgivenOK(p)'
  <2>1. /\ p.status = "finished" /\ p.turn = q.turn /\ p.turns = q.turns
        /\ p.retired = q.retired /\ p.client = q.client /\ p.accepted = q.accepted /\ p \in Record
    BY <1>7, <1>q DEF Record, Statuses
  <2>2. CapKnown(p)' = CapKnown(rec) /\ ~CapPending(p)' /\ ~Live(p)
    BY <2>1, <1>q DEF CapKnown, CapPending, Live
  <2>3. CapRowOK(p)'
    BY <2>1, <2>2, <1>2, <1>k, <1>q DEF CapRowOK, CapKnown, Live
  <2>4. CapSentOK(p)'
    BY <2>1, <2>2, <1>3, <1>k, <1>q DEF CapSentOK, Live
  <2>5. CapDoubtOK(p)'
    BY <2>2, <1>d, <1>k DEF CapDoubtOK
  <2>6. CapCountOK(p)'
    BY <2>1, <2>2 DEF CapCountOK
  <2>7. CapForgivenOK(p)'
    BY <2>2, <1>6, <1>k DEF CapForgivenOK
  <2> QED
    BY <2>1, <2>3, <2>4, <2>5, <2>6, <2>7 DEF CapRecordOK
<1> QED
  BY <1>q, <1>1, <1>nn, <1>2, <1>3, <1>4, <1>5, <1>6, <1>7 DEF CapRecordOK

LEMMA CapAttemptStep ==
  ASSUME CapInv, Attempt
  PROVE  CapInv'
<1> USE DEF native
<1>0. /\ UNCHANGED <<turns, submitted, wire, check, settle, eligible, forgiven, rearmed>>
      /\ timer' = FALSE
  BY DEF Attempt
<1>t. /\ TypeOK /\ CapNativeOK /\ CapChecksOK /\ CapRecordOK(file) /\ file \in Record
      /\ forgiven' \subseteq TurnIds /\ rearmed' \subseteq TurnIds
      /\ CapPast(check.view) /\ CapPast(settle.view)
  BY <1>0 DEF CapInv, TypeOK, CapChecksOK
<1>p. CapPast(check.view)' /\ CapPast(settle.view)'
  BY <1>0, CapPasts
<1>1. CASE rec.status # "waiting" \/ Executing \/ check.on
  <2>1. UNCHANGED <<clients, rec, file, exec, faults>>
    BY <1>1 DEF Attempt
  <2>2. CapChecksOK'
    BY <1>0, <1>p, <1>t, <2>1 DEF CapChecksOK, CapKnown, CapExcepted, CapPending
  <2>3. check'.on => exec = "idle"
    BY <1>0, <1>t DEF CapChecksOK
  <2>4. /\ timer' \in BOOLEAN /\ faults' \in 0..MaxFaults
        /\ check'.on \in BOOLEAN /\ check'.read \in BOOLEAN /\ check'.scopes \subseteq DOMAIN turns
        /\ settle'.on \in BOOLEAN /\ settle'.own \in BOOLEAN
    BY <1>0, <2>1, CapTypes
  <2> QED
    BY <1>0, <2>1, <2>2, <2>3, <2>4, CapWatchStep
<1>2. CASE rec.status = "waiting" /\ ~Executing /\ ~check.on /\ ~eligible
  <2>1. NotContinued /\ UNCHANGED clients
    BY <1>2 DEF Attempt
  <2>2. CapNothingSent /\ rec.status # "none" /\ timer' \in BOOLEAN
    BY <1>0, <1>2 DEF CapNothingSent, CapPending
  <2> QED
    BY <1>0, <1>2, <2>1, <2>2, CapNotContinued
<1>3. CASE rec.status = "waiting" /\ ~Executing /\ ~check.on /\ eligible
  <2>1. /\ clients' = Append(clients, rec.turn)
        /\ \/ Save(Claim, TRUE) /\ exec' = "reading"
           \/ GiveUpAfterFault(Claim, "finished")
    BY <1>3 DEF Attempt
  <2>2. PICK q : q = Claim
    OBVIOUS
  <2>3. /\ q \in Record /\ CapRecordOK(q)' /\ CapForgivenOK(q)'
        /\ q.status = "submitting" /\ q.accepted = 0 /\ q.client = Len(clients) + 1
        /\ \A p : p = [q EXCEPT !.status = "finished"] => p \in Record /\ CapRecordOK(p)' /\ CapForgivenOK(p)'
    BY <1>0, <1>3, <2>1, <2>2, CapClaimed
  <2>4. /\ CapNativeOK' /\ clients' \in Seq(TurnIds)
        /\ Len(clients) \in Nat /\ DOMAIN clients = 1..Len(clients) /\ DOMAIN clients' = 1..(Len(clients) + 1)
        /\ \A r \in Record : CapRecordOK(r) => CapRecordOK(r)'
    <3>1. PICK x : x = rec.turn
      OBVIOUS
    <3>2. x \in TurnIds
      BY <3>1, <1>3 DEF CapInv, CapRecordOK, CapRowOK, TypeOK, Record
    <3>3. clients' = Append(clients, x)
      BY <3>1, <2>1
    <3> QED
      BY <3>2, <3>3, <1>0, <1>t, CapClaims
  <2>5. CapChecksOK'
    BY <1>0, <1>p, <1>3 DEF CapChecksOK
  <2>6. submitted' \subseteq DOMAIN clients' /\ wire' \subseteq submitted' /\ Len(clients) + 1 \in DOMAIN clients' \ submitted'
    <3>1. submitted \subseteq 1..Len(clients)
      BY <1>t, <2>4 DEF TypeOK
    <3> QED
      BY <3>1, <1>0, <1>t, <2>4 DEF TypeOK
  \* Whatever was written, the record and the file are sound.
  <2>7. ASSUME NEW p \in Record, CapRecordOK(p)', CapForgivenOK(p)', rec' = p, file' \in {file, p},
               exec' \in Stages, faults' \in 0..MaxFaults, CapExecOK'
        PROVE  CapInv'
    <3>1. TypeOK'
      BY <1>0, <1>t, <2>4, <2>6, <2>7 DEF TypeOK
    <3>2. CapRecordOK(rec)'
      BY <2>7 DEF CapRecordOK, CapRowOK, CapSentOK, CapDoubtOK, CapCountOK, CapKnown, CapPending
    <3>3. CapRecordOK(file)'
      <4>1. PICK f : f = file
        OBVIOUS
      <4>2. CapRecordOK(f)'
        BY <4>1, <1>t, <2>4
      <4>3. CASE file' = f
        BY <4>2, <4>3 DEF CapRecordOK, CapRowOK, CapSentOK, CapDoubtOK, CapCountOK, CapKnown, CapPending
      <4>4. CASE file' = p
        BY <2>7, <4>4 DEF CapRecordOK, CapRowOK, CapSentOK, CapDoubtOK, CapCountOK, CapKnown, CapPending
      <4> QED
        BY <2>7, <4>1, <4>3, <4>4
    <3>4. CapForgivenOK(rec)'
      BY <2>7 DEF CapForgivenOK, CapKnown, Live, NextResumed
    <3> QED
      BY <3>1, <3>2, <3>3, <3>4, <2>4, <2>5, <2>7 DEF CapInv
  <2>8. CASE Save(Claim, TRUE) /\ exec' = "reading"
    <3>1. rec' = q /\ file' = q /\ faults' = faults
      BY <2>2, <2>8 DEF Save
    <3>2. CapExecOK'
      BY <1>0, <1>3, <2>3, <2>6, <2>8, <3>1 DEF CapExecOK
    <3>3. faults' \in 0..MaxFaults /\ exec' \in Stages /\ file' \in {file, q}
      BY <2>8, <3>1, CapTypes DEF Stages
    <3> QED
      BY <2>3, <2>7, <3>1, <3>2, <3>3
  <2>9. CASE GiveUpAfterFault(Claim, "finished")
    <3>1. PICK p : p = [q EXCEPT !.status = "finished"]
      OBVIOUS
    <3>2. p \in Record /\ CapRecordOK(p)' /\ CapForgivenOK(p)'
      BY <2>3, <3>1
    <3>3. rec' = p /\ file' \in {file, p} /\ exec' = "idle" /\ Fault
      BY <2>2, <2>3, <2>9, <3>1 DEF GiveUpAfterFault
    <3>4. faults' \in 0..MaxFaults /\ exec' \in Stages
      BY <3>3, <1>t, CapFaulted DEF Stages
    <3>5. CapExecOK'
      BY <3>3 DEF CapExecOK
    <3> QED
      BY <2>7, <3>2, <3>3, <3>4, <3>5
  <2> QED
    BY <2>1, <2>8, <2>9
<1> QED
  BY <1>1, <1>2, <1>3

\* What a start that is sent now may rely on.
LEMMA CapSubmits ==
  ASSUME CapInv, Submit, submitted' # submitted
  PROVE  /\ UNCHANGED <<turns, clients, timer, check, settle, eligible, forgiven, rearmed, rec, file, faults>>
         /\ submitted' = submitted \union {rec.client} /\ wire' = wire \union {rec.client} /\ exec' = "sent"
         /\ exec = "listing" /\ rec.status = "submitting" /\ file = rec /\ ~check.on
         /\ rec.accepted = 0 /\ rec.client \in DOMAIN clients \ submitted
         /\ clients[rec.client] = rec.turn
<1>1. exec = "listing" /\ Current
  BY DEF Submit
<1>2. /\ UNCHANGED <<turns, clients, timer, check, settle, eligible, forgiven, rearmed, rec, file, faults>>
      /\ submitted' = submitted \union {rec.client} /\ wire' = wire \union {rec.client} /\ exec' = "sent"
  BY <1>1 DEF Submit
<1>3. rec.status = "submitting" /\ ~check.on /\ rec.accepted = 0 /\ rec.client \in DOMAIN clients \ submitted
  BY <1>1, CapUnsent DEF Current
<1>4. file = rec
  BY <1>1, <1>3 DEF CapInv, CapExecOK
<1>5. clients[rec.client] = rec.turn
  BY <1>3 DEF CapInv, CapRecordOK, CapRowOK, CapPending
<1> QED
  BY <1>1, <1>2, <1>3, <1>4, <1>5

LEMMA CapSubmitStep ==
  ASSUME CapInv, Submit
  PROVE  CapInv'
<1>1. CASE submitted' = submitted
  <2>1. exec = "listing"
    BY DEF Submit
  <2>2. CapNothingSent /\ ~check.on /\ rec.status # "none" /\ rec.client \notin submitted
    BY <2>1, CapUnsent
  <2>3. ~Current
    BY <1>1, <2>2 DEF Submit
  <2>4. /\ NotContinued /\ timer' \in BOOLEAN
        /\ UNCHANGED <<turns, clients, submitted, wire, check, settle, eligible, forgiven, rearmed>>
    BY <2>3, CapTypes DEF Submit
  <2> QED
    BY <2>2, <2>4, CapNotContinued
<1>2. CASE submitted' # submitted
  <2>1. /\ UNCHANGED <<turns, clients, timer, check, settle, eligible, forgiven, rearmed, rec, file, faults>>
        /\ submitted' = submitted \union {rec.client} /\ wire' = wire \union {rec.client} /\ exec' = "sent"
        /\ exec = "listing" /\ rec.status = "submitting" /\ file = rec /\ ~check.on
        /\ rec.accepted = 0 /\ rec.client \in DOMAIN clients \ submitted
        /\ clients[rec.client] = rec.turn
    BY <1>2, CapSubmits
  <2> DEFINE c == rec.client
  <2>t. /\ TypeOK /\ CapTurnsOK /\ CapOrderOK /\ CapChainsOK /\ ResumedOnce
        /\ CapRowOK(rec) /\ CapSentOK(rec) /\ CapDoubtOK(rec) /\ CapCountOK(rec)
        /\ CapForgivenOK(rec) /\ CapExecOK /\ CapChecksOK
    BY DEF CapInv, CapNativeOK, CapRecordOK
  <2>x. CapExcepted' = CapExcepted /\ CapKnown(rec)' = CapKnown(rec) /\ CapPending(rec)' /\ CapPending(rec)
        /\ CapPending(rec)' = CapPending(rec) /\ Live(rec) /\ Live(rec)' = Live(rec)
    BY <2>1 DEF CapExcepted, CapKnown, CapPending, Live
  <2>c. c # 0 /\ wire \subseteq submitted /\ submitted \subseteq Nat /\ c \in Nat
        /\ \A d \in submitted : d < c
    <3>1. c \in Nat \ {0} /\ wire \subseteq submitted /\ submitted \subseteq Nat
      BY <2>1, <2>t DEF TypeOK
    <3>2. \A d \in submitted : d <= c /\ d # c
      BY <2>1, <2>t, <2>x DEF CapSentOK
    <3> QED
      BY <3>1, <3>2
  <2>d. rec.turn \in DOMAIN turns /\ rec.turn \in CapKnown(rec)
    BY <2>1, <2>t DEF CapRowOK, CapKnown
  <2>2. TypeOK'
    BY <2>1, <2>t DEF TypeOK, Stages
  <2>3. CapTurnsOK'
    <3>1. \A t \in DOMAIN turns : turns[t].client # 0 => turns[t].client \in submitted /\ turns[t].client # c
      BY <2>1, <2>t DEF CapTurnsOK
    <3> QED
      BY <2>1, <2>t, <2>d, <3>1 DEF CapTurnsOK
  <2>4. CapOrderOK'
    <3> SUFFICES ASSUME NEW a \in submitted', NEW d \in submitted', a < d,
                        a \in wire' \/ \E t \in DOMAIN turns : turns[t].client = a /\ t > clients[d]
                 PROVE  clients[a] \in CapExcepted
      BY <2>1, <2>x DEF CapOrderOK
    <3>1. a # c /\ a \in submitted
      <4>1. ASSUME a = c  PROVE FALSE
        <5>1. CASE d = c
          BY <4>1, <5>1, <2>c
        <5>2. CASE d # c
          <6>1. d \in submitted
            BY <5>2, <2>1
          <6>2. d < c /\ c < d /\ d \in Nat /\ c \in Nat
            BY <4>1, <6>1, <2>c
          <6> QED
            BY <6>2
        <5> QED
          BY <5>1, <5>2
      <4> QED
        BY <4>1, <2>1
    <3>2. CASE d # c
      <4>1. d \in submitted /\ (a \in wire' => a \in wire)
        BY <2>1, <3>1, <3>2
      <4> QED
        BY <3>1, <4>1, <2>t DEF CapOrderOK
    <3>3. CASE d = c
      <4>1. CASE a \in wire
        BY <4>1, <3>1, <2>t DEF CapDoubtOK
      <4>2. CASE a \notin wire
        <5>1. PICK t \in DOMAIN turns : turns[t].client = a /\ t > rec.turn
          BY <2>1, <3>1, <3>3, <4>2
        <5>2. turns[t].client # 0
          BY <5>1, <3>1, <2>t DEF TypeOK
        <5> QED
          BY <5>1, <5>2, <2>1, <2>t DEF CapExecOK
      <4> QED
        BY <4>1, <4>2
    <3> QED
      BY <3>2, <3>3
  <2>5. CapChainsOK'
    BY <2>1, <2>t, <2>x DEF CapChainsOK, CapChain
  <2>6. ResumedOnce'
    <3>1. \A d \in submitted : clients[d] = rec.turn => clients[d] \in rearmed
      BY <2>1, <2>t, <2>x DEF CapSentOK
    <3> SUFFICES ASSUME NEW a \in submitted', NEW d \in submitted', clients[a] = clients[d]
                 PROVE  a = d \/ clients[a] \in rearmed
      BY <2>1 DEF ResumedOnce
    <3> QED
      BY <2>1, <2>t, <3>1 DEF ResumedOnce
  <2>7. CapRecordOK(rec)'
    <3>1. CapRowOK(rec)'
      BY <2>1, <2>t, <2>x DEF CapRowOK
    <3>2. CapSentOK(rec)'
      <4>1. \A d \in submitted' : clients[d] \in CapKnown(rec)
        BY <2>1, <2>t, <2>d DEF CapSentOK
      <4>2. \A d \in submitted' : clients[d] = rec.turn => clients[d] \in rearmed \/ d = rec.client
        BY <2>1, <2>t, <2>x DEF CapSentOK
      <4>3. ASSUME NEW d \in submitted'
            PROVE  d <= rec.client
        <5>1. CASE d = c
          BY <5>1, <2>c
        <5>2. CASE d # c
          <6>1. d \in submitted
            BY <5>2, <2>1
          <6>2. d \in Nat /\ d < c /\ c \in Nat
            BY <6>1, <2>c
          <6> QED
            BY <6>2
        <5> QED
          BY <5>1, <5>2
      <4> QED
        BY <2>1, <2>x, <4>1, <4>2, <4>3 DEF CapSentOK
    <3>3. CapDoubtOK(rec)'
      <4>1. \A d \in wire' : clients[d] \in CapExcepted \/ d = rec.client
        BY <2>1, <2>t DEF CapDoubtOK
      <4> QED
        BY <2>1, <2>t, <2>x, <4>1 DEF CapDoubtOK
    <3>4. CapCountOK(rec)'
      BY <2>1, <2>t, <2>x DEF CapCountOK, CapChain
    <3> QED
      BY <3>1, <3>2, <3>3, <3>4 DEF CapRecordOK
  <2>8. CapRecordOK(file)'
    <3>1. file' = rec'
      BY <2>1
    <3> QED
      BY <2>7, <3>1 DEF CapRecordOK, CapRowOK, CapSentOK, CapDoubtOK, CapCountOK, CapKnown, CapPending
  <2>9. CapForgivenOK(rec)'
    BY <2>1, <2>t DEF CapForgivenOK, CapKnown, Live, NextResumed
  <2>10. CapExecOK'
    <3>1. \A t \in DOMAIN turns : turns[t].client # rec.client
      BY <2>1, <2>c, <2>t DEF CapTurnsOK
    <3>2. CapKnown(rec) \subseteq DOMAIN turns
      BY <2>t DEF CapRowOK
    <3> QED
      BY <2>1, <2>x, <3>1, <3>2 DEF CapExecOK
  <2>11. CapChecksOK'
    <3>1. CapPast(check.view)' /\ CapPast(settle.view)'
      BY <2>1, CapPasts
    <3> QED
      BY <2>1, <3>1 DEF CapChecksOK
  <2> QED
    BY <2>2, <2>3, <2>4, <2>5, <2>6, <2>7, <2>8, <2>9, <2>10, <2>11 DEF CapInv, CapNativeOK
<1> QED
  BY <1>1, <1>2

-----------------------------------------------------------------------------
(* Capacity recovery: a restart.                                           *)

\* What a restart forgets of user input: only the cancellation of the attempt
\* in doubt can go with it.
CapForgets(r) ==
  /\ UNCHANGED <<turns, clients, submitted, wire, rearmed>>
  /\ forgiven' = {t \in forgiven \intersect (r.turns \union r.retired) :
                    Live(r) /\ ~r.cancelFuture => t # NextResumed(r)}

LEMMA CapForgotten ==
  ASSUME NEW r, CapSentOK(r), CapForgets(r)
  PROVE  /\ CapExcepted' \subseteq CapExcepted
         /\ \A c \in submitted : clients[c] \in CapExcepted /\ clients[c] \notin CapExcepted' =>
              CapPending(r) /\ c = r.client
<1>1. CapExcepted' \subseteq CapExcepted
  BY DEF CapExcepted, CapForgets
<1>2. ASSUME NEW c \in submitted, clients[c] \in CapExcepted, clients[c] \notin CapExcepted'
      PROVE  CapPending(r) /\ c = r.client
  <2>1. clients[c] \in r.turns \union r.retired
    BY DEF CapSentOK, CapKnown
  <2>2. clients[c] \notin rearmed
    BY <1>2 DEF CapExcepted, CapForgets
  <2>3. Live(r) /\ ~r.cancelFuture /\ clients[c] = NextResumed(r)
    BY <1>2, <2>1, <2>2 DEF CapExcepted, CapForgets
  <2>4. r.accepted = 0
    BY <2>2, <2>3 DEF CapSentOK, NextResumed
  <2>5. clients[c] = r.turn
    BY <2>3, <2>4 DEF NextResumed
  <2> QED
    BY <2>2, <2>3, <2>4, <2>5 DEF CapSentOK
<1> QED
  BY <1>1, <1>2

\* Chains that end where the attempt in doubt began, or that are none of its, stay.
LEMMA CapChainForgotten ==
  ASSUME TypeOK, CapTurnsOK, NEW r, CapRowOK(r), CapSentOK(r), CapForgets(r),
         NEW first \in DOMAIN turns, NEW last \in DOMAIN turns, CapChain(first, last)',
         CapPending(r) => \A t \in first..last : turns[t].client # r.client
  PROVE  CapChain(first, last)
<1>1. DOMAIN turns = 1..Len(turns) /\ Len(turns) \in Nat
  BY DEF TypeOK
<1>2. /\ first <= last /\ turns' = turns /\ clients' = clients
      /\ \A t \in first..last : turns[t].client # 0 /\ clients[turns[t].client] \notin CapExcepted'
  BY DEF CapChain, CapForgets
<1>3. ASSUME NEW t \in first..last
      PROVE  clients[turns[t].client] \notin CapExcepted
  <2>1. t \in DOMAIN turns
    BY <1>1
  <2>2. turns[t].client \in submitted
    BY <1>2, <2>1 DEF CapTurnsOK
  <2> QED
    BY <1>2, <2>2, CapForgotten
<1> QED
  BY <1>2, <1>3 DEF CapChain

LEMMA CapRecordForgotten ==
  ASSUME TypeOK, CapTurnsOK, NEW r, CapRecordOK(r), CapForgets(r)
  PROVE  CapRecordOK(r)'
<1>r. CapRowOK(r) /\ CapSentOK(r) /\ CapDoubtOK(r) /\ CapCountOK(r)
  BY DEF CapRecordOK
<1>u. UNCHANGED <<turns, clients, submitted, wire, rearmed>>
  BY DEF CapForgets
<1>k. CapKnown(r)' = CapKnown(r) /\ CapPending(r)' = CapPending(r)
  BY DEF CapKnown, CapPending
<1>f. \A c \in submitted : clients[c] \in CapExcepted /\ clients[c] \notin CapExcepted' =>
        CapPending(r) /\ c = r.client
  BY <1>r, CapForgotten
<1>w. wire \subseteq submitted /\ \A t \in DOMAIN turns : turns[t].client # 0 => turns[t].client \in submitted
  BY DEF TypeOK, CapTurnsOK
<1>1. CapRowOK(r)'
  BY <1>r, <1>u, <1>k DEF CapRowOK
<1>2. CapSentOK(r)'
  BY <1>r, <1>u, <1>k DEF CapSentOK
<1>3. CapDoubtOK(r)'
  <2>1. \A c \in wire : clients[c] \in CapExcepted' \/ (CapPending(r) /\ c = r.client)
    BY <1>r, <1>f, <1>w DEF CapDoubtOK
  <2>2. ASSUME NEW t \in DOMAIN turns, turns[t].client # 0
        PROVE  \/ t \in CapKnown(r) \/ t < Len(turns) \/ turns[t].status = "ended"
               \/ clients[turns[t].client] \in CapExcepted' \/ (CapPending(r) /\ turns[t].client = r.client)
    BY <2>2, <1>r, <1>f, <1>w DEF CapDoubtOK
  <2> QED
    BY <2>1, <2>2, <1>u, <1>k DEF CapDoubtOK
<1>4. CapCountOK(r)'
  <2>n. DOMAIN turns = 1..Len(turns) /\ Len(turns) \in Nat
    BY DEF TypeOK
  <2>1. ASSUME NEW first \in DOMAIN turns, ~CapPending(r), NEW last \in DOMAIN turns, CapChain(first, last)'
        PROVE  CapChain(first, last)
    BY <2>1, <1>r, CapChainForgotten
  \* The turn of the attempt in doubt comes after the turn it resumes.
  <2>2. ASSUME NEW first \in DOMAIN turns, CapPending(r), CapChain(first, r.turn)'
        PROVE  CapChain(first, r.turn)
    <3>1. r.turn \in DOMAIN turns /\ r.client # 0 /\ clients[r.client] = r.turn
      BY <2>2, <1>r DEF CapRowOK, CapPending, CapKnown
    <3>2. ASSUME NEW t \in first..r.turn, turns[t].client = r.client
          PROVE  FALSE
      <4>1. t \in DOMAIN turns /\ t <= r.turn /\ t \in Nat /\ r.turn \in Nat
        BY <2>n, <3>1
      <4>2. clients[turns[t].client] < t
        BY <3>1, <3>2, <4>1 DEF CapTurnsOK
      <4> QED
        BY <3>1, <3>2, <4>1, <4>2
    <3> QED
      BY <2>2, <3>1, <3>2, <1>r, CapChainForgotten
  <2>3. r.accepted # 0 => r.accepted \in DOMAIN turns /\ ~CapPending(r)
    BY <1>r DEF CapRowOK, CapPending
  <2>4. r.status = "waiting" => r.turn \in DOMAIN turns /\ ~CapPending(r)
    BY <1>r DEF CapRowOK, CapPending, CapKnown
  <2> QED
    BY <2>1, <2>2, <2>3, <2>4, <1>r, <1>u, <1>k DEF CapCountOK
<1> QED
  BY <1>1, <1>2, <1>3, <1>4 DEF CapRecordOK

LEMMA CapNativeForgotten ==
  ASSUME TypeOK, CapNativeOK, NEW r \in Record, CapRecordOK(r), CapForgets(r)
  PROVE  CapNativeOK'
<1>i. CapTurnsOK /\ CapOrderOK /\ CapChainsOK /\ ResumedOnce
  BY DEF CapNativeOK
<1>r. CapRowOK(r) /\ CapSentOK(r) /\ CapCountOK(r)
  BY DEF CapRecordOK
<1>u. UNCHANGED <<turns, clients, submitted, wire, rearmed>>
  BY DEF CapForgets
<1>f. \A c \in submitted : clients[c] \in CapExcepted /\ clients[c] \notin CapExcepted' =>
        CapPending(r) /\ c = r.client
  BY <1>r, CapForgotten
<1>n. DOMAIN turns = 1..Len(turns) /\ Len(turns) \in Nat /\ submitted \subseteq Nat
  BY DEF TypeOK
<1>1. CapTurnsOK'
  BY <1>i, <1>u DEF CapTurnsOK
<1>2. CapOrderIn(CapExcepted')
  <2> SUFFICES ASSUME NEW c \in submitted, NEW d \in submitted, c < d,
                      c \in wire \/ \E t \in DOMAIN turns : turns[t].client = c /\ t > clients[d],
                      clients[c] \notin CapExcepted'
               PROVE  FALSE
    BY DEF CapOrderIn
  <2>1. clients[c] \in CapExcepted
    BY <1>i DEF CapOrderOK
  <2>2. CapPending(r) /\ c = r.client
    BY <2>1, <1>f
  <2>3. d <= c
    BY <2>2, <1>r DEF CapSentOK
  <2> QED
    BY <2>3, <1>n
<1>3. CapOrderOK'
  BY <1>2, <1>u DEF CapOrderOK, CapOrderIn
<1>4. CapChainsOK'
  <2> SUFFICES ASSUME NEW first \in DOMAIN turns, NEW last \in DOMAIN turns, CapChain(first, last)'
               PROVE  last < first + Limit
    BY <1>u DEF CapChainsOK
  <2>l. Limit \in Nat \ {0} /\ first \in Nat /\ last \in Nat /\ first <= last /\ first..last \subseteq DOMAIN turns
    BY BoundsAssumption, <1>n DEF CapChain
  <2>a. \A t \in first..last : turns[t].client # 0 /\ clients[turns[t].client] \notin CapExcepted'
    BY <1>u DEF CapChain
  <2>1. CASE CapPending(r) => \A t \in first..last : turns[t].client # r.client
    <3>1. CapChain(first, last)
      BY <2>1, <1>i, <1>r, CapChainForgotten
    <3> QED
      BY <3>1, <1>i DEF CapChainsOK
  <2>2. CASE CapPending(r) /\ \E t \in first..last : turns[t].client = r.client
    <3>1. PICK t \in first..last : turns[t].client = r.client
      BY <2>2
    <3>2. /\ r.client # 0 /\ clients[r.client] = r.turn /\ r.attempts \in 0..Limit
          /\ r.client \in submitted /\ r.turn < t /\ t \in DOMAIN turns /\ t \in Nat
          /\ r.turn \notin rearmed
      <4>1. r.client # 0 /\ clients[r.client] = r.turn
        BY <2>2, <1>r DEF CapRowOK
      <4>2. t \in DOMAIN turns /\ t \in Nat
        BY <2>l, <1>n
      <4>3. r.client \in submitted /\ clients[r.client] < t
        BY <3>1, <4>1, <4>2, <1>i DEF CapTurnsOK
      <4>4. r.turn \notin rearmed
        BY <2>a, <3>1, <4>1, <1>u DEF CapExcepted
      <4> QED
        BY <4>1, <4>2, <4>3, <4>4 DEF Record
    \* Nothing follows the turn of the attempt in doubt.
    <3>3. t = last
      <4> SUFFICES ASSUME t # last  PROVE FALSE
        OBVIOUS
      <4>1. t + 1 \in first..last /\ t + 1 # 1 /\ t + 1 \in DOMAIN turns /\ (t + 1) - 1 = t
        <5>1. t < last /\ first <= t
          BY <2>l, <3>1, <3>2
        <5>2. t + 1 \in first..last
          BY <5>1, <2>l, <3>2
        <5> QED
          BY <5>2, <2>l, <3>2, <1>n
      <4> DEFINE d == turns[t + 1].client
      <4>2. d # 0 /\ d \in submitted /\ clients[d] \notin CapExcepted'
        BY <4>1, <2>a, <1>i DEF CapTurnsOK
      <4>3. d # r.client
        <5>1. t + 1 # t
          BY <3>2
        <5> QED
          BY <5>1, <4>1, <4>2, <3>1, <3>2, <1>i DEF CapTurnsOK
      <4>4. d < r.client
        <5>1. d <= r.client
          BY <2>2, <4>2, <1>r DEF CapSentOK
        <5>2. d \in Nat /\ r.client \in Nat
          BY <4>2, <3>2, <1>n
        <5> HIDE DEF d
        <5> QED
          BY <5>1, <5>2, <4>3
      <4>5. t + 1 > clients[r.client] /\ turns[t + 1].client = d
        BY <3>2, <1>r, <1>n DEF Record
      <4> HIDE DEF d
      <4> QED
        BY <4>1, <4>2, <4>4, <4>5, <3>2, <1>2 DEF CapOrderIn
    <3>4. CASE first = last
      BY <3>4, <2>l
    <3>5. CASE first # last
      <4>1. /\ last - 1 \in first..last /\ last \in first..last /\ last # 1 /\ first <= last - 1
            /\ last - 1 \in DOMAIN turns /\ first..(last - 1) \subseteq first..last
        BY <3>5, <2>l, <1>n
      <4>2. clients[turns[last].client] = last - 1
        <5>1. PICK X : X = CapExcepted'
          OBVIOUS
        <5>2. /\ CapOrderIn(X)
              /\ turns[last].client # 0 /\ clients[turns[last].client] \notin X
              /\ turns[last - 1].client # 0 /\ clients[turns[last - 1].client] \notin X
          BY <5>1, <1>2, <2>a, <4>1
        <5> QED
          BY <5>2, <4>1, <1>i, CapLink
      <4>3. r.turn = last - 1
        BY <4>2, <3>1, <3>2, <3>3
      <4>4. CapChain(first, last - 1)'
        BY <4>1, <2>a, <1>u DEF CapChain
      <4>5. \A s \in first..(last - 1) : turns[s].client # r.client
        <5> SUFFICES ASSUME NEW s \in first..(last - 1), turns[s].client = r.client
                     PROVE  FALSE
          OBVIOUS
        <5>1. s \in DOMAIN turns /\ s # t
          BY <4>1, <2>l, <3>3
        <5> QED
          BY <5>1, <3>1, <3>2, <1>i DEF CapTurnsOK
      <4>6. CapChain(first, last - 1)
        <5>1. PICK m : m = last - 1
          OBVIOUS
        <5>2. m \in DOMAIN turns /\ CapChain(first, m)' /\ \A s \in first..m : turns[s].client # r.client
          BY <5>1, <4>1, <4>4, <4>5
        <5>3. CapChain(first, m)
          BY <5>2, <1>i, <1>r, CapChainForgotten
        <5> QED
          BY <5>1, <5>3
      <4>7. r.turn + 1 < first + r.attempts
        BY <2>2, <3>2, <4>3, <4>6, <1>r DEF CapCountOK
      <4> QED
        BY <4>3, <4>7, <3>2, <2>l
    <3> QED
      BY <3>4, <3>5
  <2> QED
    BY <2>1, <2>2
<1>5. ResumedOnce'
  BY <1>i, <1>u DEF ResumedOnce
<1> QED
  BY <1>1, <1>3, <1>4, <1>5 DEF CapNativeOK

LEMMA CapLoaded ==
  ASSUME NEW r \in Record, CapRowOK(r), NEW q, q = Load(r)
  PROVE  q \in Record /\ CapCarried(r, q) /\ (CapPending(q) <=> CapPending(r))
<1> DEFINE st == IF r.status \in {"submitting", "running"} THEN "uncertain" ELSE r.status
           tn == IF r.accepted # 0 THEN r.accepted ELSE r.turn
<1>1. st \in Statuses /\ tn \in 0..MaxTurns
  BY DEF Record, Statuses
<1>2. q = [r EXCEPT !.status = st, !.turn = tn]
  BY DEF Load, Record
<1> HIDE DEF st, tn
<1>3. /\ q.status = st /\ q.turn = tn /\ q.attempts = r.attempts /\ q.turns = r.turns
      /\ q.retired = r.retired /\ q.client = r.client /\ q.accepted = r.accepted
      /\ q.cancelFuture = r.cancelFuture /\ q \in Record
  BY <1>1, <1>2 DEF Record
<1>4. CapCarried(r, q)
  BY <1>3 DEF CapCarried, NextResumed, st, tn
<1>5. CapPending(q) <=> CapPending(r)
  BY <1>3 DEF CapPending, CapRowOK, st
<1> QED
  BY <1>3, <1>4, <1>5

LEMMA CapRestartStep ==
  ASSUME CapInv, Restart
  PROVE  CapInv'
<1> USE DEF native
<1>1. PICK r \in {rec, file} :
        /\ rec' = Load(r) /\ file' = rec' /\ timer' = (rec'.status = "waiting")
        /\ forgiven' = {t \in forgiven \intersect (r.turns \union r.retired) :
                         Live(r) /\ ~r.cancelFuture => t # NextResumed(r)}
  BY DEF Restart
<1>0. /\ UNCHANGED <<turns, submitted, wire, clients, eligible, rearmed>>
      /\ exec' = "idle" /\ check' = NoCheck /\ settle' = NoSettle /\ Fault
  BY DEF Restart
<1>t. TypeOK /\ CapNativeOK /\ CapTurnsOK /\ r \in Record /\ CapRecordOK(r) /\ CapRowOK(r)
  <2>1. CapRecordOK(rec) /\ CapRecordOK(file) /\ TypeOK /\ CapNativeOK /\ CapTurnsOK
    BY DEF CapInv, CapNativeOK
  <2>2. rec \in Record /\ file \in Record
    BY <2>1 DEF TypeOK
  <2>3. CASE r = rec
    BY <2>1, <2>2, <2>3 DEF CapRecordOK
  <2>4. CASE r = file
    BY <2>1, <2>2, <2>4 DEF CapRecordOK
  <2> QED
    BY <2>3, <2>4
<1>f. CapForgets(r)
  BY <1>0, <1>1 DEF CapForgets
<1>2. PICK q : q = Load(r)
  OBVIOUS
<1>3. q \in Record /\ CapCarried(r, q) /\ rec' = q /\ file' = q /\ timer' = (q.status = "waiting")
  BY <1>1, <1>2, <1>t, CapLoaded
<1>4. CapRecordOK(q)'
  \* The record that is loaded, judged after the restart.
  <2>1. CapRecordOK(r)'
    BY <1>t, <1>f, CapRecordForgotten
  <2>2. CapRecordOK(q)
    BY <1>t, <1>3, CapCarriedOn
  <2>3. CapForgets(q)
    <3>1. q.turns = r.turns /\ q.retired = r.retired /\ q.cancelFuture = r.cancelFuture
      BY <1>3 DEF CapCarried
    <3>2. Live(q) <=> Live(r)
      BY <1>3 DEF CapCarried, Live
    <3>3. NextResumed(q) = NextResumed(r)
      BY <1>3 DEF CapCarried, NextResumed
    <3> QED
      BY <3>1, <3>2, <3>3, <1>f DEF CapForgets
  <2> QED
    BY <2>2, <2>3, <1>t, CapRecordForgotten
<1>5. CapForgivenOK(q)'
  <2>1. /\ q.turns = r.turns /\ q.retired = r.retired /\ q.cancelFuture = r.cancelFuture
        /\ (Live(q) <=> Live(r)) /\ NextResumed(q) = NextResumed(r)
    BY <1>3 DEF CapCarried, Live, NextResumed
  <2>2. forgiven' \subseteq r.turns \union r.retired
    BY <1>1
  <2>3. Live(q) /\ ~q.cancelFuture => NextResumed(q) \notin forgiven'
    BY <1>1, <2>1
  <2> QED
    BY <2>1, <2>2, <2>3 DEF CapForgivenOK, CapKnown
<1>6. CapNativeOK'
  BY <1>t, <1>f, CapNativeForgotten
<1>7. CapExecOK'
  BY <1>0 DEF CapExecOK
<1>8. check'.on = FALSE /\ check'.read = FALSE /\ check'.scopes = {} /\ check'.view = NoCheck.view
      /\ settle'.on = FALSE /\ settle'.own = FALSE /\ settle'.view = NoSettle.view
  BY <1>0 DEF NoCheck, NoSettle
<1>9. CapChecksOK'
  <2>1. CapPast(check.view)' /\ CapPast(settle.view)'
    BY <1>0, <1>8, CapPasts
  <2> QED
    BY <2>1, <1>8 DEF CapChecksOK
<1>10. TypeOK'
  <2>1. faults' \in 0..MaxFaults
    BY <1>0, <1>t, CapFaulted
  <2>2. forgiven' \subseteq TurnIds
    BY <1>1, <1>t DEF TypeOK
  <2>3. timer' \in BOOLEAN
    BY <1>3
  <2>4. rec' \in Record /\ file' \in Record
    BY <1>3
  <2> QED
    BY <1>0, <1>8, <1>t, <2>1, <2>2, <2>3, <2>4 DEF TypeOK, Stages
<1>11. CapRecordOK(rec)' /\ CapRecordOK(file)' /\ CapForgivenOK(rec)'
  BY <1>3, <1>4, <1>5
     DEF CapRecordOK, CapRowOK, CapSentOK, CapDoubtOK, CapCountOK, CapKnown, CapPending, CapForgivenOK, Live, NextResumed
<1> QED
  BY <1>6, <1>7, <1>9, <1>10, <1>11 DEF CapInv

-----------------------------------------------------------------------------
(* Capacity recovery: the theorems.                                        *)

LEMMA CapInit ==
  ASSUME Init
  PROVE  CapInv
<1> DEFINE none == <<>>
           zero == {}
<1>1. /\ turns = none /\ clients = none /\ submitted = zero /\ wire = zero
      /\ rec = NoRecord /\ file = NoRecord
      /\ timer = FALSE /\ check = NoCheck /\ settle = NoSettle /\ exec = "idle"
      /\ eligible = TRUE /\ forgiven = zero /\ rearmed = zero /\ faults = 0
  BY DEF Init
<1>2. /\ NoRecord.status = "none" /\ NoRecord.turn = 0 /\ NoRecord.attempts = 0 /\ NoRecord.turns = zero
      /\ NoRecord.retired = zero /\ NoRecord.client = 0 /\ NoRecord.accepted = 0 /\ NoRecord.cancelFuture = FALSE
  BY DEF NoRecord
<1>3. /\ NoCheck.on = FALSE /\ NoCheck.read = FALSE /\ NoCheck.scopes = zero /\ NoCheck.view = none
      /\ NoSettle.on = FALSE /\ NoSettle.own = FALSE /\ NoSettle.view = none
  BY DEF NoCheck, NoSettle
<1>4. NoRecord \in Record
  <2>1. 0 \in Nat /\ 0 \in 0..Limit /\ 0 \in 0..MaxTurns /\ "none" \in Statuses /\ zero \in SUBSET TurnIds /\ FALSE \in BOOLEAN
    BY BoundsAssumption DEF Statuses
  <2>2. NoRecord = [status |-> "none", turn |-> 0, attempts |-> 0, turns |-> zero, retired |-> zero,
                    client |-> 0, accepted |-> 0, cancelFuture |-> FALSE]
    BY DEF NoRecord
  <2> HIDE DEF zero
  <2>3. [status |-> "none", turn |-> 0, attempts |-> 0, turns |-> zero, retired |-> zero,
         client |-> 0, accepted |-> 0, cancelFuture |-> FALSE] \in Record
    BY ONLY <2>1, CapFields
  <2> QED
    BY <2>2, <2>3
<1>5. none \in Seq(Turn) /\ none \in Seq(TurnIds) /\ Len(none) = 0 /\ DOMAIN none = {}
  OBVIOUS
<1>6. TypeOK
  <2>1. turns \in Seq(Turn) /\ Len(turns) <= MaxTurns /\ clients \in Seq(TurnIds)
    BY <1>1, <1>5, BoundsAssumption
  <2>2. /\ submitted \subseteq DOMAIN clients /\ wire \subseteq submitted /\ check.scopes \subseteq DOMAIN turns
        /\ forgiven \subseteq TurnIds /\ rearmed \subseteq TurnIds
    BY <1>1, <1>3
  <2>3. /\ rec \in Record /\ file \in Record
        /\ check.on \in BOOLEAN /\ check.read \in BOOLEAN /\ settle.on \in BOOLEAN /\ settle.own \in BOOLEAN
    BY <1>1, <1>3, <1>4
  <2>4. timer \in BOOLEAN /\ exec \in Stages /\ eligible \in BOOLEAN /\ faults \in 0..MaxFaults
    <3>1. faults \in 0..MaxFaults
      BY <1>1, BoundsAssumption
    <3>2. exec \in Stages
      BY <1>1 DEF Stages
    <3>3. timer \in BOOLEAN /\ eligible \in BOOLEAN
      BY <1>1
    <3> QED
      BY <3>1, <3>2, <3>3
  <2> QED
    BY <2>1, <2>2, <2>3, <2>4 DEF TypeOK
<1>7. CapNativeOK
  BY <1>1, <1>5 DEF CapNativeOK, CapTurnsOK, CapOrderOK, CapChainsOK, ResumedOnce
<1>8. CapRecordOK(rec) /\ CapRecordOK(file)
  <2>1. CapRowOK(rec)
    BY <1>1, <1>2, <1>5 DEF CapRowOK, CapKnown, CapPending, Live
  <2>2. CapSentOK(rec) /\ CapDoubtOK(rec) /\ CapCountOK(rec)
    BY <1>1, <1>2, <1>5 DEF CapSentOK, CapDoubtOK, CapCountOK, Live, CapPending
  <2>3. file = rec
    BY <1>1
  <2> QED
    BY <2>1, <2>2, <2>3 DEF CapRecordOK
<1>9. CapForgivenOK(rec)
  BY <1>1, <1>2 DEF CapForgivenOK, Live
<1>10. CapExecOK
  BY <1>1 DEF CapExecOK
<1>11. CapChecksOK
  <2>1. CapPast(none)
    BY <1>1, <1>5 DEF CapPast
  <2> QED
    BY <1>1, <1>3, <2>1 DEF CapChecksOK
<1> QED
  BY <1>6, <1>7, <1>8, <1>9, <1>10, <1>11 DEF CapInv

LEMMA CapNext ==
  ASSUME CapInv, [Next]_vars
  PROVE  CapInv'
<1>1. CASE Environment
  BY <1>1, CapEnvironment
<1>2. CASE Coordinate
  <2>1. ASSUME NEW t \in TurnIds, Offer(t)  PROVE CapInv'
    BY <2>1, CapOfferStep
  <2> QED
    BY <1>2, <2>1, CapCancelStep, CapReconcileSteps, CapReconciledStep, CapSettledStep DEF Coordinate
<1>3. CASE Execute
  <2>1. ASSUME NEW t \in TurnIds, Accepted(t)  PROVE CapInv'
    BY <2>1, CapAcceptedStep
  <2> QED
    BY <1>3, <2>1, CapAttemptStep, CapReadSteps, CapSubmitStep, CapShownStep, CapAnswerSteps, CapObservedStep,
       CapDeliveredStep DEF Execute
<1>4. CASE Restart
  BY <1>4, CapRestartStep
<1>5. CASE UNCHANGED vars
  <2>1. UNCHANGED <<turns, clients, submitted, wire, rec, file, timer, check, settle, exec, eligible, forgiven, rearmed, faults>>
    BY <1>5 DEF vars, native, capacity
  <2>2. CapChecksOK'
    <3>1. CapPast(check.view)' /\ CapPast(settle.view)'
      BY <2>1, CapPasts
    <3> QED
      BY <2>1, <3>1 DEF CapInv, CapChecksOK, CapKnown, CapExcepted, CapPending
  <2>3. /\ timer' \in BOOLEAN /\ faults' \in 0..MaxFaults
        /\ check'.on \in BOOLEAN /\ check'.read \in BOOLEAN /\ check'.scopes \subseteq DOMAIN turns
        /\ settle'.on \in BOOLEAN /\ settle'.own \in BOOLEAN
    BY <2>1, CapTypes
  <2>4. check'.on => exec = "idle"
    BY <2>1 DEF CapInv, CapChecksOK
  <2> QED
    BY <2>1, <2>2, <2>3, <2>4, CapWatchStep
<1> QED
  BY <1>1, <1>2, <1>3, <1>4, <1>5 DEF Next

\* The invariant, whatever the bounds: the coordinator's record, in memory and on
\* disk, knows every turn that was resumed, blocks what is in doubt and counts the
\* chain that leads to the turn it resumes next.
THEOREM CapInvariant == Spec => []CapInv
<1>1. Init => CapInv
  BY CapInit
<1>2. CapInv /\ [Next]_vars => CapInv'
  BY CapNext
<1> QED
  BY <1>1, <1>2, PTL DEF Spec

\* No failed turn is resumed twice, and no more than Limit automatic turns follow
\* each other, unless user input cancelled an attempt among them.
THEOREM ResumptionsAreBounded == Spec => []ResumesAreBounded
<1>1. CapInv => ResumesAreBounded
  <2> SUFFICES ASSUME CapInv, NEW first \in DOMAIN turns, first + Limit \in DOMAIN turns,
                      \A t \in first..(first + Limit) : turns[t].client # 0,
                      \A t \in first..(first + Limit) : clients[turns[t].client] \notin forgiven \union rearmed
               PROVE  FALSE
    BY DEF CapInv, CapNativeOK, ResumesAreBounded, ChainBounded
  <2>1. first \in Nat /\ Limit \in Nat /\ first <= first + Limit
    BY BoundsAssumption, CapTypes
  <2>2. CapChain(first, first + Limit)
    BY <2>1 DEF CapChain, CapExcepted
  <2>3. first + Limit < first + Limit
    BY <2>2 DEF CapInv, CapNativeOK, CapChainsOK
  <2> QED
    BY <2>1, <2>3
<1> QED
  BY <1>1, CapInvariant, PTL

\* Nothing but Submit sends a turn/start.
LEMMA CapOnlySubmits ==
  ASSUME CapInv, [Next]_vars, submitted' # submitted
  PROVE  Submit
  BY DEF Next, Environment, Coordinate, Execute, Restart, ForeignStart, Reroute, TurnEnds, ApplyStart,
         Cancel, ReconcileRead, Reconciled, ReconcileFails, SettleRead, Settled, Offer, Attempt, ReadTail, ReadFails,
         QueueTakesPrecedence, AcceptanceShown, StartRefused, AnswerLost, Observed, Delivered, Accepted, vars, native

\* While one turn/start may still be applied no other is sent, unless user input
\* gave the first up.
THEOREM DoubtStaysBlocked == Spec => DoubtBlocks
<1>1. CapInv /\ [Next]_vars => [submitted' # submitted => \A c \in wire : clients[c] \in forgiven \union rearmed]_vars
  <2> SUFFICES ASSUME CapInv, [Next]_vars, submitted' # submitted, NEW c \in wire
               PROVE  clients[c] \in forgiven \union rearmed
    OBVIOUS
  <2>1. Submit
    BY CapOnlySubmits
  <2>2. rec.client \notin submitted /\ c \in submitted
    BY <2>1, CapSubmits, CapTypes
  <2> QED
    BY <2>2 DEF CapInv, CapRecordOK, CapDoubtOK, CapExcepted
<1> QED
  BY <1>1, CapInvariant, PTL DEF Spec, DoubtBlocks

\* What user input cancelled is never resumed afterwards.
THEOREM CancellationHolds == Spec => CancelHolds
<1>1. CapInv /\ [Next]_vars => [\A c \in submitted' \ submitted : clients'[c] \notin forgiven \ rearmed]_vars
  <2> SUFFICES ASSUME CapInv, [Next]_vars, NEW c \in submitted' \ submitted
               PROVE  clients'[c] \notin forgiven \ rearmed
    OBVIOUS
  <2>1. Submit
    BY CapOnlySubmits
  <2>2. /\ clients' = clients /\ c = rec.client /\ clients[rec.client] = rec.turn
        /\ rec.status = "submitting" /\ rec.accepted = 0
    BY <2>1, CapSubmits
  <2>3. Live(rec) /\ ~rec.cancelFuture /\ NextResumed(rec) = rec.turn
    BY <2>2 DEF CapInv, CapRecordOK, CapRowOK, Live, NextResumed
  <2> QED
    BY <2>2, <2>3 DEF CapInv, CapForgivenOK
<1> QED
  BY <1>1, CapInvariant, PTL DEF Spec, CancelHolds

=============================================================================
