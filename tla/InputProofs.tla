---------------------------- MODULE InputProofs -----------------------------
(***************************************************************************)
(* Proofs about how an input reaches a session: PromptBuffer,              *)
(* PeerExecution and SessionControl, for any number of messages,           *)
(* submissions, calls, service generations and faults.                     *)
(*                                                                         *)
(* Prompt buffer.  A message is in the buffer of the service in use, in    *)
(* the buffer on disk and in submissions.  RowOK, for each of the buffers, *)
(* and BatchesApart, between submissions, say which submission may still   *)
(* write it or has written it: at most one, and it is the one that a       *)
(* buffer under way names.  What the user was told of is in both buffers   *)
(* or with Codex (HeldOK).  A suspended service that saves its copy after  *)
(* another has taken over breaks all of it (overtaken).                    *)
(*                                                                         *)
(* Peer execution.  Each row, in memory and in the file, says what is      *)
(* certain of the native write (PeerRowOK); at most one call is past its   *)
(* intent or has written (PeerOne); and no restart forgets a result or an  *)
(* intent (PeerRows).                                                      *)
(*                                                                         *)
(* Session control.  A row without an intent excludes any steer under way  *)
(* or done (SteerRowsOK); the choice of a card belongs to one call and its *)
(* steer, in memory and in the file (SteerOne, SteerCallOK); the steer     *)
(* being submitted is at the head of the queue of the thread (SteerLine).  *)
(***************************************************************************)
EXTENDS PromptBuffer, PeerExecution, SessionControl, FiniteSetTheorems, TLAPS

-----------------------------------------------------------------------------
(* The prompt buffer: the inductive invariant.                             *)

BufUnderWay == {"preparing", "entered", "written"}

\* In a table b of submissions, with service lv in use: one that may still write.
BatchLive(b, lv, s) == b[s].at \in BufUnderWay /\ b[s].by = lv

BufTypeOK ==
  /\ bufFile \in BufRow
  /\ bufMem \in [BufOwners -> BufRow]
  /\ bufLive \in BufOwners
  /\ bufScope \in Nat \ {0}
  /\ batch \in [Batches -> Batch]
  /\ \A s \in Batches : batch[s].at # "unused" => batch[s].by \in BufOwners
  /\ bufHeld \subseteq BufItems
  /\ bufUnder \in [BufItems -> Nat]
  /\ overtaken \in BOOLEAN
  /\ bufFaults \in 0..MaxBufFaults

\* What a submission knows of itself.
BatchOK(b, lv, un, s) ==
  /\ b[s].at = "unused" => b[s].items = {} /\ ~b[s].wrote
  /\ b[s].at # "unused" => b[s].by <= lv
  /\ b[s].at \in {"preparing", "entered"} => ~b[s].wrote
  /\ b[s].at = "written" => b[s].wrote
  /\ b[s].wrote => b[s].under = b[s].scope
  /\ \A i \in b[s].items : un[i] = b[s].scope /\ b[s].scope # 0

\* Of two submissions that share a message one neither may write nor has.
BatchesApart(b, lv, s, t) ==
  s # t /\ (\E i \in b[s].items : i \in b[t].items) =>
    ~ (BatchLive(b, lv, s) \/ b[s].wrote) \/ ~ (BatchLive(b, lv, t) \/ b[t].wrote)

BatchesOK(b, lv, un) ==
  /\ \A s \in Batches : BatchOK(b, lv, un, s)
  /\ \A s, t \in Batches : BatchesApart(b, lv, s, t)

\* A copy of the buffer, on disk or in the service in use: the submission it was
\* begun with is the only one that may write a message of it, or has.
RowOK(row, b, lv, un) ==
  /\ \A i \in row.items : un[i] = row.scope /\ row.scope # 0
  /\ row.phase = "absent" => row.items = {}
  /\ row.phase \in {"absent", "collecting"} => row.id = 0
  /\ row.phase \in {"preparing", "submitting"} => row.id \in Batches
  /\ row.phase = "preparing" =>
       b[row.id].at \in {"unused", "preparing", "over"} /\ ~b[row.id].wrote
  /\ row.phase = "submitting" =>
       b[row.id].at # "unused" /\ row.items = b[row.id].items
  /\ \A t \in Batches : t # row.id /\ (\E i \in row.items : i \in b[t].items) =>
       ~BatchLive(b, lv, t) /\ ~b[t].wrote

\* The copy in memory was begun by the submission it names.
MineOK(row, b) ==
  row.phase = "preparing" => b[row.id].at # "unused" /\ row.items = b[row.id].items

\* A message the user was told of is in both copies, or Codex has it.
HeldOK(held, mine, file, b) == \A i \in held :
  (\E s \in Batches : b[s].wrote /\ i \in b[s].items) \/ (i \in mine.items /\ i \in file.items)

BufGood == ~overtaken =>
  /\ BatchesOK(batch, bufLive, bufUnder)
  /\ RowOK(BufMine, batch, bufLive, bufUnder)
  /\ RowOK(bufFile, batch, bufLive, bufUnder)
  /\ MineOK(BufMine, batch)
  /\ HeldOK(bufHeld, BufMine, bufFile, batch)

BufInv == BufTypeOK /\ BufGood

-----------------------------------------------------------------------------
(* Rows.                                                                   *)

LEMMA RowFields ==
  ASSUME NEW row \in BufRow
  PROVE  /\ row.phase \in {"absent", "collecting", "preparing", "submitting"}
         /\ row.items \subseteq BufItems /\ row.scope \in Nat /\ row.id \in Nat
  BY DEF BufRow

LEMMA NoRow ==
  /\ NoBuffer \in BufRow /\ NoBuffer.phase = "absent" /\ NoBuffer.items = {}
  /\ NoBuffer.scope = 0 /\ NoBuffer.id = 0
  BY DEF NoBuffer, BufRow

LEMMA StartRow ==
  ASSUME NEW sc \in Nat
  PROVE  LET row == [NoBuffer EXCEPT !.phase = "collecting", !.scope = sc]
         IN  /\ row \in BufRow /\ row.phase = "collecting" /\ row.items = {}
             /\ row.scope = sc /\ row.id = 0
<1> DEFINE mid == [NoBuffer EXCEPT !.phase = "collecting"]
<1>1. mid \in BufRow /\ mid.phase = "collecting" /\ mid.items = {} /\ mid.id = 0
  BY NoRow DEF BufRow
<1>2. [NoBuffer EXCEPT !.phase = "collecting", !.scope = sc] = [mid EXCEPT !.scope = sc]
  OBVIOUS
<1> HIDE DEF mid
<1> QED
  BY <1>1, <1>2 DEF BufRow

BufPhased(row, phase, id) == [row EXCEPT !.phase = phase, !.id = id]

\* The row of a submission that has begun, and of one that gave the buffer back.
LEMMA PhaseRow ==
  ASSUME NEW row \in BufRow, NEW id \in Nat,
         NEW phase \in {"absent", "collecting", "preparing", "submitting"}
  PROVE  /\ BufPhased(row, phase, id) \in BufRow
         /\ BufPhased(row, phase, id).phase = phase /\ BufPhased(row, phase, id).id = id
         /\ BufPhased(row, phase, id).items = row.items
         /\ BufPhased(row, phase, id).scope = row.scope
<1> DEFINE mid == [row EXCEPT !.phase = phase]
<1>1. mid \in BufRow /\ mid.phase = phase /\ mid.items = row.items /\ mid.scope = row.scope
  BY DEF BufRow
<1>2. BufPhased(row, phase, id) = [mid EXCEPT !.id = id]
  BY DEF BufPhased
<1> HIDE DEF mid
<1> QED
  BY <1>1, <1>2 DEF BufRow

LEMMA EnterRow ==
  ASSUME NEW row \in BufRow
  PROVE  LET new == [row EXCEPT !.phase = "submitting"]
         IN  /\ new \in BufRow /\ new.phase = "submitting" /\ new.id = row.id
             /\ new.items = row.items /\ new.scope = row.scope
  BY DEF BufRow

LEMMA GrownRow ==
  ASSUME NEW row \in BufRow, NEW i \in BufItems
  PROVE  LET new == [row EXCEPT !.items = @ \cup {i}]
         IN  /\ new \in BufRow /\ new.phase = row.phase /\ new.id = row.id
             /\ new.items = row.items \cup {i} /\ new.scope = row.scope
  BY DEF BufRow

LEMMA LoadedRow ==
  ASSUME BufTypeOK
  PROVE  /\ BufLoaded \in BufRow
         /\ BufLoaded.items = bufFile.items /\ BufLoaded.scope = bufFile.scope
         /\ bufFile.phase = "preparing" => BufLoaded.phase = "collecting" /\ BufLoaded.id = 0
         /\ bufFile.phase # "preparing" => BufLoaded = bufFile
<1>0. bufFile \in BufRow
  BY DEF BufTypeOK
<1>1. CASE bufFile.phase = "preparing"
  <2> DEFINE new == BufPhased(bufFile, "collecting", 0)
  <2>1. BufLoaded = new
    BY <1>1 DEF BufLoaded, BufPhased
  <2>2. /\ new \in BufRow /\ new.phase = "collecting" /\ new.id = 0
        /\ new.items = bufFile.items /\ new.scope = bufFile.scope
    BY <1>0, PhaseRow
  <2> HIDE DEF new
  <2> QED
    BY <1>1, <2>1, <2>2
<1>2. CASE bufFile.phase # "preparing"
  BY <1>2 DEF BufLoaded, BufTypeOK
<1> QED
  BY <1>1, <1>2

-----------------------------------------------------------------------------
(* Saves and submissions.                                                   *)

LEMMA SavedEffect ==
  ASSUME BufTypeOK, NEW o \in BufOwners, NEW row \in BufRow, BufSaved(o, row)
  PROVE  /\ bufMem' \in [BufOwners -> BufRow] /\ bufFile' \in BufRow
         /\ overtaken' \in BOOLEAN /\ bufFaults' \in 0..MaxBufFaults
         /\ bufMem'[o] = row /\ bufFile' = row
         /\ ~overtaken' => ~overtaken /\ o = bufLive
  BY DEF BufTypeOK, BufSaved

LEMMA UnsavedEffect ==
  ASSUME BufTypeOK, NEW o \in BufOwners, NEW rows \in SUBSET BufRow, BufUnsaved(o, rows)
  PROVE  /\ bufMem' = bufMem /\ bufFile' \in BufRow
         /\ overtaken' \in BOOLEAN /\ bufFaults' \in 0..MaxBufFaults
         /\ ~overtaken' => ~overtaken /\ (bufFile' = bufFile \/ (o = bufLive /\ bufFile' \in rows))
<1>1. bufFaults \in Nat /\ bufFaults < MaxBufFaults /\ bufFaults' = bufFaults + 1
  BY BufAssumption DEF BufTypeOK, BufUnsaved, BufFault
<1>2. bufFaults' \in 0..MaxBufFaults
  BY <1>1, BufAssumption
<1>3. bufMem' = bufMem /\ bufFile' \in {bufFile} \cup rows
  BY DEF BufUnsaved
<1>4. bufFile' \in BufRow
  BY <1>3 DEF BufTypeOK
<1>5. overtaken' = (overtaken \/ (o # bufLive /\ bufFile' # bufFile))
  BY DEF BufUnsaved
<1>6. overtaken' \in BOOLEAN
  BY <1>5
<1>7. ~overtaken' => ~overtaken /\ (bufFile' = bufFile \/ (o = bufLive /\ bufFile' \in rows))
  BY <1>3, <1>5
<1> QED
  BY <1>2, <1>3, <1>4, <1>6, <1>7

\* A save that throws, when it may replace the file by this row only.
BufFailed(o, row) == BufUnsaved(o, {row})

LEMMA UnsavedOne ==
  ASSUME BufTypeOK, NEW o \in BufOwners, NEW row \in BufRow, BufFailed(o, row)
  PROVE  /\ bufMem' = bufMem /\ bufFile' \in BufRow
         /\ overtaken' \in BOOLEAN /\ bufFaults' \in 0..MaxBufFaults
         /\ ~overtaken' => ~overtaken /\ (bufFile' = bufFile \/ (o = bufLive /\ bufFile' = row))
<1> DEFINE rows == {row}
<1>1. rows \in SUBSET BufRow /\ BufUnsaved(o, rows)
  BY DEF BufFailed
<1>2. bufFile' \in rows => bufFile' = row
  OBVIOUS
<1> HIDE DEF rows
<1>3. /\ bufMem' = bufMem /\ bufFile' \in BufRow
      /\ overtaken' \in BOOLEAN /\ bufFaults' \in 0..MaxBufFaults
      /\ ~overtaken' => ~overtaken /\ (bufFile' = bufFile \/ (o = bufLive /\ bufFile' \in rows))
  BY <1>1, UnsavedEffect
<1> QED
  BY <1>2, <1>3

LEMMA PlaceEffect ==
  ASSUME BufTypeOK, NEW s \in Batches, NEW place \in {"unused", "preparing", "entered", "written", "over"},
         BatchAt(s, place)
  PROVE  /\ batch' \in [Batches -> Batch]
         /\ batch'[s].at = place /\ batch'[s].by = batch[s].by /\ batch'[s].items = batch[s].items
         /\ batch'[s].scope = batch[s].scope /\ batch'[s].wrote = batch[s].wrote
         /\ batch'[s].under = batch[s].under
         /\ \A t \in Batches \ {s} : batch'[t] = batch[t]
  BY DEF BufTypeOK, BatchAt, Batch

LEMMA WriteEffect ==
  ASSUME BufTypeOK, NEW s \in Batches, NEW place \in {"written", "over"},
         batch' = [batch EXCEPT ![s].at = place, ![s].wrote = TRUE, ![s].under = bufScope]
  PROVE  /\ batch' \in [Batches -> Batch]
         /\ batch'[s].at = place /\ batch'[s].by = batch[s].by /\ batch'[s].items = batch[s].items
         /\ batch'[s].scope = batch[s].scope /\ batch'[s].wrote /\ batch'[s].under = bufScope
         /\ \A t \in Batches \ {s} : batch'[t] = batch[t]
<1> DEFINE r1 == [batch[s] EXCEPT !.at = place]
           r2 == [r1 EXCEPT !.wrote = TRUE]
           r3 == [r2 EXCEPT !.under = bufScope]
<1>1. /\ r1 \in Batch /\ r1.at = place /\ r1.by = batch[s].by /\ r1.items = batch[s].items
      /\ r1.scope = batch[s].scope
  BY DEF BufTypeOK, Batch
<1>4. batch' = [batch EXCEPT ![s] = r3]
  BY DEF BufTypeOK
<1> HIDE DEF r1
<1>2. /\ r2 \in Batch /\ r2.at = place /\ r2.by = batch[s].by /\ r2.items = batch[s].items
      /\ r2.scope = batch[s].scope /\ r2.wrote
  BY <1>1 DEF Batch
<1> HIDE DEF r2
<1>3. /\ r3 \in Batch /\ r3.at = place /\ r3.by = batch[s].by /\ r3.items = batch[s].items
      /\ r3.scope = batch[s].scope /\ r3.wrote /\ r3.under = bufScope
  BY <1>2 DEF Batch, BufTypeOK
<1> HIDE DEF r3
<1>5. batch \in [Batches -> Batch]
  BY DEF BufTypeOK
<1>6. batch'[s] = r3 /\ \A t \in Batches \ {s} : batch'[t] = batch[t]
  BY <1>4, <1>5
<1>7. batch' \in [Batches -> Batch]
  BY <1>3, <1>4, <1>5
<1> QED
  BY <1>3, <1>6, <1>7

BufBegun(s, items) ==
  batch' = [batch EXCEPT ![s] =
             [@ EXCEPT !.at = "preparing", !.by = bufLive, !.items = items, !.scope = bufScope]]

LEMMA BeginEffect ==
  ASSUME BufTypeOK, NEW s \in Batches, NEW items \in SUBSET BufItems, BufBegun(s, items)
  PROVE  /\ batch' \in [Batches -> Batch]
         /\ batch'[s].at = "preparing" /\ batch'[s].by = bufLive /\ batch'[s].items = items
         /\ batch'[s].scope = bufScope /\ batch'[s].wrote = batch[s].wrote
         /\ batch'[s].under = batch[s].under
         /\ \A t \in Batches \ {s} : batch'[t] = batch[t]
<1> DEFINE r1 == [batch[s] EXCEPT !.at = "preparing"]
           r2 == [r1 EXCEPT !.by = bufLive]
           r3 == [r2 EXCEPT !.items = items]
           r4 == [r3 EXCEPT !.scope = bufScope]
<1>5. batch' = [batch EXCEPT ![s] = r4]
  BY DEF BufTypeOK, BufBegun
<1>1. /\ r1 \in Batch /\ r1.at = "preparing" /\ r1.wrote = batch[s].wrote /\ r1.under = batch[s].under
  BY DEF BufTypeOK, Batch
<1> HIDE DEF r1
<1>6. bufLive \in Nat
  BY BufAssumption DEF BufTypeOK, BufOwners
<1>2. /\ r2 \in Batch /\ r2.at = "preparing" /\ r2.wrote = batch[s].wrote /\ r2.under = batch[s].under
      /\ r2.by = bufLive
  BY <1>1, <1>6 DEF Batch
<1> HIDE DEF r2
<1>3. /\ r3 \in Batch /\ r3.at = "preparing" /\ r3.wrote = batch[s].wrote /\ r3.under = batch[s].under
      /\ r3.by = bufLive /\ r3.items = items
  BY <1>2 DEF Batch
<1> HIDE DEF r3
<1>4. /\ r4 \in Batch /\ r4.at = "preparing" /\ r4.wrote = batch[s].wrote /\ r4.under = batch[s].under
      /\ r4.by = bufLive /\ r4.items = items /\ r4.scope = bufScope
  BY <1>3 DEF Batch, BufTypeOK
<1> HIDE DEF r4
<1> QED
  BY <1>4, <1>5 DEF BufTypeOK
-----------------------------------------------------------------------------
(* What a step leaves of the submissions and of the copies.                 *)

BufTouches(b, lv, s) == BatchLive(b, lv, s) \/ b[s].wrote

\* From table b to table c no submission gains a message or the power to write.
BufCalm(b, c, lv, lw) ==
  /\ lv \in Nat /\ lw \in Nat /\ lv <= lw
  /\ \A t \in Batches :
       /\ c[t].items = b[t].items /\ c[t].scope = b[t].scope /\ c[t].by = b[t].by
       /\ BufTouches(c, lw, t) => BufTouches(b, lv, t)
       /\ c[t].at = "unused" <=> b[t].at = "unused"
       /\ b[t].wrote => c[t].wrote
       /\ c[t].wrote => b[t].wrote \/ b[t].at = "entered"
       /\ c[t].wrote => c[t].under = c[t].scope
       /\ c[t].at \in {"preparing", "entered"} => ~c[t].wrote
       /\ c[t].at = "written" => c[t].wrote

LEMMA CalmBatches ==
  ASSUME NEW b \in [Batches -> Batch], NEW c \in [Batches -> Batch], NEW lv, NEW lw, NEW un,
         BufCalm(b, c, lv, lw), BatchesOK(b, lv, un)
  PROVE  BatchesOK(c, lw, un)
<1>1. ASSUME NEW s \in Batches
      PROVE  BatchOK(c, lw, un, s)
  <2>1. BatchOK(b, lv, un, s)
    BY DEF BatchesOK
  <2>2. b[s].by \in Nat
    BY DEF Batch
  <2>3. b[s].at # "unused" => c[s].by <= lw
    BY <2>1, <2>2 DEF BufCalm, BatchOK
  <2> QED
    BY <2>1, <2>3 DEF BufCalm, BatchOK
<1>2. ASSUME NEW s \in Batches, NEW t \in Batches
      PROVE  BatchesApart(c, lw, s, t)
  <2>1. BatchesApart(b, lv, s, t)
    BY DEF BatchesOK
  <2> QED
    BY <2>1 DEF BufCalm, BatchesApart, BufTouches
<1> QED
  BY <1>1, <1>2 DEF BatchesOK

LEMMA CalmRow ==
  ASSUME NEW b \in [Batches -> Batch], NEW c \in [Batches -> Batch], NEW lv, NEW lw, NEW un,
         NEW row \in BufRow, BufCalm(b, c, lv, lw), RowOK(row, b, lv, un),
         row.phase = "preparing" => c[row.id].at \in {"unused", "preparing", "over"}
  PROVE  RowOK(row, c, lw, un)
<1>1. row.phase = "preparing" => ~c[row.id].wrote
  BY DEF BufCalm, RowOK
<1>2. row.phase = "submitting" => c[row.id].at # "unused" /\ row.items = c[row.id].items
  BY DEF BufCalm, RowOK
<1>3. ASSUME NEW t \in Batches, t # row.id, \E i \in row.items : i \in c[t].items
      PROVE  ~BatchLive(c, lw, t) /\ ~c[t].wrote
  BY <1>3 DEF BufCalm, RowOK, BufTouches
<1> QED
  BY <1>1, <1>2, <1>3 DEF RowOK

\* A buffer handed back by a submission that has not written and is over.
LEMMA BackRow ==
  ASSUME NEW b \in [Batches -> Batch], NEW c \in [Batches -> Batch], NEW lv, NEW lw, NEW un,
         NEW row \in BufRow, NEW new \in BufRow, BufCalm(b, c, lv, lw), RowOK(row, b, lv, un),
         row.id \in Batches => ~BufTouches(c, lw, row.id),
         new.items = row.items, new.scope = row.scope, new.phase = "collecting", new.id = 0
  PROVE  RowOK(new, c, lw, un)
<1>3. ASSUME NEW t \in Batches, \E i \in row.items : i \in c[t].items
      PROVE  ~BatchLive(c, lw, t) /\ ~c[t].wrote
  BY <1>3 DEF BufCalm, RowOK, BufTouches
<1> QED
  BY <1>3 DEF RowOK

LEMMA EmptyRow ==
  ASSUME NEW b, NEW lv, NEW un, NEW row \in BufRow,
         row.items = {}, row.phase \in {"absent", "collecting"}, row.id = 0
  PROVE  RowOK(row, b, lv, un) /\ MineOK(row, b)
  BY DEF RowOK, MineOK

\* What the user was told of and is not dropped is with Codex when it is no longer here.
LEMMA HeldRest ==
  ASSUME NEW b, NEW c, NEW lv, NEW lw, NEW held, NEW mine, NEW file, NEW mine2, NEW file2,
         BufCalm(b, c, lv, lw), HeldOK(held, mine, file, b)
  PROVE  HeldOK(held \ mine.items, mine2, file2, c)
  BY DEF HeldOK, BufCalm

LEMMA HeldStays ==
  ASSUME NEW b, NEW c, NEW lv, NEW lw, NEW held, NEW mine, NEW file, NEW mine2, NEW file2,
         BufCalm(b, c, lv, lw), HeldOK(held, mine, file, b),
         mine.items \subseteq mine2.items, file.items \cap mine.items \subseteq file2.items
  PROVE  HeldOK(held, mine2, file2, c)
  BY DEF HeldOK, BufCalm

\* Nothing happens to the submissions.
LEMMA CalmSame ==
  ASSUME BufTypeOK, BufGood, ~overtaken
  PROVE  BufCalm(batch, batch, bufLive, bufLive)
<1>1. bufLive \in Nat
  BY BufAssumption DEF BufTypeOK, BufOwners
<1>2. \A t \in Batches : BatchOK(batch, bufLive, bufUnder, t)
  BY DEF BufGood, BatchesOK
<1> QED
  BY <1>1, <1>2 DEF BufCalm, BatchOK
-----------------------------------------------------------------------------
(* What the actions do to the copies of the buffer.                         *)

BufSavesTyped ==
  /\ bufMem' \in [BufOwners -> BufRow] /\ bufFile' \in BufRow
  /\ overtaken' \in BOOLEAN /\ bufFaults' \in 0..MaxBufFaults

\* As long as no suspended service writes: both copies are of these rows, or as before.
BufCopiesIn(rows) == ~overtaken' =>
  /\ ~overtaken
  /\ bufMem'[bufLive] \in {bufMem[bufLive]} \cup rows
  /\ bufFile' \in {bufFile} \cup rows

LEMMA CopiesSame ==
  ASSUME BufTypeOK, BufUnchanged, NEW rows
  PROVE  BufSavesTyped /\ BufCopiesIn(rows) /\ bufMem' = bufMem /\ bufFile' = bufFile
  BY DEF BufTypeOK, BufUnchanged, BufSavesTyped, BufCopiesIn

\* One change, saved or not, in service o.
BufChanged(o, row) == BufSaved(o, row) \/ BufFailed(o, row)

BufChangeDone(o, row) == ~overtaken' =>
  /\ ~overtaken
  /\ \/ bufMem'[bufLive] = bufMem[bufLive] /\ bufFile' = bufFile
     \/ o = bufLive /\ bufFile' = row /\ bufMem'[bufLive] \in {bufMem[bufLive], row}

LEMMA ChangeEffect ==
  ASSUME BufTypeOK, NEW o \in BufOwners, NEW row \in BufRow, BufChanged(o, row)
  PROVE  BufSavesTyped /\ BufChangeDone(o, row)
<1>1. CASE BufSaved(o, row)
  BY <1>1, SavedEffect DEF BufSavesTyped, BufChangeDone
<1>2. CASE BufFailed(o, row)
  BY <1>2, UnsavedOne DEF BufTypeOK, BufSavesTyped, BufChangeDone
<1> QED
  BY <1>1, <1>2 DEF BufChanged

LEMMA ChangeCopies ==
  ASSUME NEW o, NEW row, BufChangeDone(o, row)
  PROVE  BufCopiesIn({row})
  BY DEF BufChangeDone, BufCopiesIn

LEMMA DropEffect ==
  ASSUME BufTypeOK, BufSaved(bufLive, NoBuffer) \/ BufUnsaved(bufLive, {NoBuffer})
  PROVE  BufSavesTyped /\ BufCopiesIn({NoBuffer})
<1>1. BufChanged(bufLive, NoBuffer) /\ bufLive \in BufOwners
  BY DEF BufChanged, BufFailed, BufTypeOK
<1> QED
  BY <1>1, NoRow, ChangeEffect, ChangeCopies

BufStartRow == [NoBuffer EXCEPT !.phase = "collecting", !.scope = bufScope]

LEMMA StartEffect ==
  ASSUME BufTypeOK, BufStart
  PROVE  BufSavesTyped /\ BufCopiesIn({NoBuffer, BufStartRow})
<1>1. BufStartRow \in BufRow /\ NoBuffer \in BufRow /\ bufLive \in BufOwners
  BY NoRow, StartRow DEF BufStartRow, BufTypeOK
<1>2. \/ BufSaved(bufLive, BufStartRow)
      \/ BufFailed(bufLive, BufStartRow) \/ BufFailed(bufLive, NoBuffer)
      \/ /\ BufFault
         /\ bufMem' = [bufMem EXCEPT ![bufLive] = NoBuffer]
         /\ bufFile' \in {NoBuffer, BufStartRow}
         /\ UNCHANGED overtaken
  BY DEF BufStart, BufStartRow, BufFailed
<1>3. CASE BufSaved(bufLive, BufStartRow)
  BY <1>1, <1>3, SavedEffect DEF BufSavesTyped, BufCopiesIn
<1>4. CASE BufFailed(bufLive, BufStartRow)
  BY <1>1, <1>4, UnsavedOne DEF BufTypeOK, BufSavesTyped, BufCopiesIn
<1>5. CASE BufFailed(bufLive, NoBuffer)
  BY <1>1, <1>5, UnsavedOne DEF BufTypeOK, BufSavesTyped, BufCopiesIn
<1>6. CASE /\ BufFault
           /\ bufMem' = [bufMem EXCEPT ![bufLive] = NoBuffer]
           /\ bufFile' \in {NoBuffer, BufStartRow}
           /\ UNCHANGED overtaken
  <2>1. bufFaults' \in 0..MaxBufFaults
    BY <1>6, BufAssumption DEF BufFault, BufTypeOK
  <2>2. bufMem' \in [BufOwners -> BufRow] /\ bufMem'[bufLive] = NoBuffer
    BY <1>1, <1>6 DEF BufTypeOK
  <2> QED
    BY <1>1, <1>6, <2>1, <2>2 DEF BufSavesTyped, BufCopiesIn, BufTypeOK
<1> QED
  BY <1>2, <1>3, <1>4, <1>5, <1>6

BufBack(row) == BufPhased(row, "collecting", 0)
LEMMA BackFields ==
  ASSUME NEW row \in BufRow
  PROVE  /\ BufBack(row) \in BufRow /\ BufBack(row).phase = "collecting" /\ BufBack(row).id = 0
         /\ BufBack(row).items = row.items /\ BufBack(row).scope = row.scope
<1>1. 0 \in Nat /\ "collecting" \in {"absent", "collecting", "preparing", "submitting"}
  OBVIOUS
<1> QED
  BY <1>1, PhaseRow DEF BufBack

LEMMA BegunFields ==
  ASSUME NEW row \in BufRow, NEW s \in Batches
  PROVE  /\ BufPhased(row, "preparing", s) \in BufRow
         /\ BufPhased(row, "preparing", s).phase = "preparing" /\ BufPhased(row, "preparing", s).id = s
         /\ BufPhased(row, "preparing", s).items = row.items
         /\ BufPhased(row, "preparing", s).scope = row.scope
<1>1. s \in Nat /\ "preparing" \in {"absent", "collecting", "preparing", "submitting"}
  BY BufAssumption DEF Batches
<1> QED
  BY <1>1, PhaseRow

BufEntered(row) == [row EXCEPT !.phase = "submitting"]

\* settle() in service o.
LEMMA SettleEffect ==
  ASSUME BufTypeOK, NEW o \in BufOwners, NEW s \in Batches, NEW accepted \in BOOLEAN,
         BufSettle(o, s, accepted)
  PROVE  /\ BufSavesTyped
         /\ \/ BufUnchanged
            \/ /\ bufMem[o].id = s
               /\ BufChangeDone(o, IF accepted THEN NoBuffer ELSE BufBack(bufMem[o]))
<1> DEFINE row == IF accepted THEN NoBuffer ELSE BufBack(bufMem[o])
<1>1. bufMem[o] \in BufRow
  BY DEF BufTypeOK
<1>2. row \in BufRow
  BY <1>1, NoRow, PhaseRow DEF BufBack
<1>3. BufUnchanged \/ (bufMem[o].id = s /\ BufChanged(o, row))
  BY DEF BufSettle, BufChanged, BufFailed, BufBack, BufPhased
<1>4. CASE BufUnchanged
  BY <1>4, CopiesSame
<1>5. CASE bufMem[o].id = s /\ BufChanged(o, row)
  <2> HIDE DEF row
  <2>1. BufSavesTyped /\ BufChangeDone(o, row)
    BY <1>2, <1>5, ChangeEffect
  <2> QED
    BY <1>5, <2>1 DEF row
<1> QED
  BY <1>3, <1>4, <1>5
-----------------------------------------------------------------------------
(* The step, action by action.                                              *)

BufMineNext == bufMem'[bufLive']

LEMMA TypedStep ==
  ASSUME BufSavesTyped, bufLive' \in BufOwners, bufScope' \in Nat \ {0}, batch' \in [Batches -> Batch],
         \A s \in Batches : batch'[s].at # "unused" => batch'[s].by \in BufOwners,
         bufHeld' \subseteq BufItems, bufUnder' \in [BufItems -> Nat]
  PROVE  BufTypeOK'
  BY DEF BufSavesTyped, BufTypeOK

LEMMA GoodStep ==
  ASSUME ~overtaken' =>
           /\ BatchesOK(batch', bufLive', bufUnder')
           /\ RowOK(BufMineNext, batch', bufLive', bufUnder')
           /\ RowOK(bufFile', batch', bufLive', bufUnder')
           /\ MineOK(BufMineNext, batch')
           /\ HeldOK(bufHeld', BufMineNext, bufFile', batch')
  PROVE  BufGood'
<1>1. BufMine' = BufMineNext
  BY DEF BufMine, BufMineNext
<1> QED
  BY <1>1 DEF BufGood

LEMMA DropGood ==
  ASSUME BufInv, NEW rows, BufCopiesIn(rows),
         \A r \in rows : r \in BufRow /\ r.items = {} /\ r.phase \in {"absent", "collecting"} /\ r.id = 0,
         batch' = batch, bufLive' = bufLive, bufUnder' = bufUnder,
         bufHeld' = bufHeld \ BufMine.items
  PROVE  BufGood'
<1> SUFFICES ASSUME ~overtaken'
             PROVE  /\ BatchesOK(batch', bufLive', bufUnder')
                    /\ RowOK(BufMineNext, batch', bufLive', bufUnder')
                    /\ RowOK(bufFile', batch', bufLive', bufUnder')
                    /\ MineOK(BufMineNext, batch')
                    /\ HeldOK(bufHeld', BufMineNext, bufFile', batch')
  BY GoodStep
<1>1. /\ ~overtaken
      /\ BufMineNext \in {BufMine} \cup rows
      /\ bufFile' \in {bufFile} \cup rows
  BY DEF BufCopiesIn, BufMineNext, BufMine
<1>2. /\ BatchesOK(batch, bufLive, bufUnder)
      /\ RowOK(BufMine, batch, bufLive, bufUnder)
      /\ RowOK(bufFile, batch, bufLive, bufUnder)
      /\ MineOK(BufMine, batch)
      /\ HeldOK(bufHeld, BufMine, bufFile, batch)
  BY <1>1 DEF BufInv, BufGood
<1>3. BufCalm(batch, batch, bufLive, bufLive)
  BY <1>1, CalmSame DEF BufInv
<1>4. RowOK(BufMineNext, batch, bufLive, bufUnder) /\ MineOK(BufMineNext, batch)
  BY <1>1, <1>2, EmptyRow
<1>5. RowOK(bufFile', batch, bufLive, bufUnder)
  BY <1>1, <1>2, EmptyRow
<1>6. HeldOK(bufHeld \ BufMine.items, BufMineNext, bufFile', batch)
  BY <1>2, <1>3, HeldRest
<1> QED
  BY <1>2, <1>4, <1>5, <1>6

LEMMA NoRows ==
  \A r \in {NoBuffer} : r \in BufRow /\ r.items = {} /\ r.phase \in {"absent", "collecting"} /\ r.id = 0
  BY NoRow

LEMMA ExpireStep ==
  ASSUME BufInv, BufExpire
  PROVE  BufInv'
<1>1. /\ BufSavesTyped /\ BufCopiesIn({NoBuffer})
      /\ UNCHANGED <<bufLive, bufScope, batch, bufUnder>>
      /\ bufHeld' = bufHeld \ BufMine.items
  BY DropEffect DEF BufExpire, BufInv
<1>2. BufTypeOK'
  BY <1>1, TypedStep DEF BufInv, BufTypeOK
<1>3. BufGood'
  BY <1>1, NoRows, DropGood
<1> QED
  BY <1>2, <1>3 DEF BufInv

LEMMA CancelStep ==
  ASSUME BufInv, BufCancel
  PROVE  BufInv'
<1>1. /\ BufSavesTyped /\ BufCopiesIn({NoBuffer})
      /\ UNCHANGED <<bufLive, bufScope, batch, bufUnder>>
      /\ bufHeld' = bufHeld \ BufMine.items
  BY DropEffect DEF BufCancel, BufDrop, BufInv
<1>2. BufTypeOK'
  BY <1>1, TypedStep DEF BufInv, BufTypeOK
<1>3. BufGood'
  BY <1>1, NoRows, DropGood
<1> QED
  BY <1>2, <1>3 DEF BufInv

LEMMA StartStep ==
  ASSUME BufInv, BufStart
  PROVE  BufInv'
<1>1. /\ BufSavesTyped /\ BufCopiesIn({NoBuffer, BufStartRow})
      /\ UNCHANGED <<bufLive, bufScope, batch, bufUnder>>
      /\ bufHeld' = bufHeld \ BufMine.items
  BY StartEffect DEF BufStart, BufInv
<1>2. BufTypeOK'
  BY <1>1, TypedStep DEF BufInv, BufTypeOK
<1>3. \A r \in {NoBuffer, BufStartRow} :
        r \in BufRow /\ r.items = {} /\ r.phase \in {"absent", "collecting"} /\ r.id = 0
  BY NoRow, StartRow DEF BufStartRow, BufInv, BufTypeOK
<1>4. BufGood'
  BY <1>1, <1>3, DropGood
<1> QED
  BY <1>2, <1>4 DEF BufInv

LEMMA RebindStep ==
  ASSUME BufInv, BufRebind
  PROVE  BufInv'
<1>1. bufScope' \in Nat \ {0} /\ UNCHANGED <<bufLive, batch, bufUnder>>
  BY DEF BufRebind, BufInv, BufTypeOK
<1>2. CASE BufDrop
  <2>1. BufSavesTyped /\ BufCopiesIn({NoBuffer}) /\ bufHeld' = bufHeld \ BufMine.items
    BY <1>2, DropEffect DEF BufDrop, BufInv
  <2>2. BufTypeOK'
    BY <1>1, <2>1, TypedStep DEF BufInv, BufTypeOK
  <2>3. BufGood'
    BY <1>1, <2>1, NoRows, DropGood
  <2> QED
    BY <2>2, <2>3 DEF BufInv
<1>3. CASE BufUnchanged /\ UNCHANGED bufHeld
  <2>1. BufTypeOK'
    BY <1>1, <1>3 DEF BufInv, BufTypeOK, BufUnchanged
  <2>2. BufMineNext = BufMine
    BY <1>1, <1>3 DEF BufMineNext, BufMine, BufUnchanged
  <2>3. ~overtaken' =>
           /\ BatchesOK(batch', bufLive', bufUnder')
           /\ RowOK(BufMineNext, batch', bufLive', bufUnder')
           /\ RowOK(bufFile', batch', bufLive', bufUnder')
           /\ MineOK(BufMineNext, batch')
           /\ HeldOK(bufHeld', BufMineNext, bufFile', batch')
    BY <1>1, <1>3, <2>2 DEF BufUnchanged, BufInv, BufGood
  <2> QED
    BY <2>1, <2>3, GoodStep DEF BufInv
<1> QED
  BY <1>2, <1>3 DEF BufRebind

LEMMA ElsewhereStep ==
  ASSUME BufInv, NEW o \in BufOwners, BufElsewhere(o)
  PROVE  BufInv'
<1>1. /\ bufFile' = bufMem[o] /\ overtaken' = (overtaken \/ o # bufLive)
      /\ UNCHANGED <<bufMem, bufLive, bufScope, batch, bufHeld, bufUnder, bufFaults>>
  BY DEF BufElsewhere
<1>2. BufTypeOK'
  BY <1>1 DEF BufInv, BufTypeOK
<1>3. BufMineNext = BufMine
  BY <1>1 DEF BufMineNext, BufMine
<1>4. ASSUME ~overtaken'
      PROVE  /\ BatchesOK(batch', bufLive', bufUnder')
             /\ RowOK(BufMineNext, batch', bufLive', bufUnder')
             /\ RowOK(bufFile', batch', bufLive', bufUnder')
             /\ MineOK(BufMineNext, batch')
             /\ HeldOK(bufHeld', BufMineNext, bufFile', batch')
  <2>1. ~overtaken /\ bufFile' = BufMine
    BY <1>1, <1>4 DEF BufMine
  <2>2. HeldOK(bufHeld, BufMine, BufMine, batch)
    BY <2>1 DEF BufInv, BufGood, HeldOK
  <2> QED
    BY <1>1, <1>3, <2>1, <2>2 DEF BufInv, BufGood
<1> QED
  BY <1>2, <1>4, GoodStep DEF BufInv
BufGrown(row, i) == [row EXCEPT !.items = @ \cup {i}]

\* A message not seen before is in no submission and in no copy.
LEMMA FreshItem ==
  ASSUME NEW b, NEW lv, NEW un \in [BufItems -> Nat], NEW i \in BufItems, NEW sc,
         NEW file \in BufRow, un[i] = 0, BatchesOK(b, lv, un), RowOK(file, b, lv, un),
         \A t \in Batches : b[t].items \subseteq BufItems
  PROVE  LET new == [un EXCEPT ![i] = sc]
         IN  /\ BatchesOK(b, lv, new) /\ RowOK(file, b, lv, new)
             /\ \A t \in Batches : i \notin b[t].items
<1> DEFINE new == [un EXCEPT ![i] = sc]
<1>1. \A j \in BufItems : j # i => new[j] = un[j]
  OBVIOUS
<1>2. ASSUME NEW t \in Batches
      PROVE  i \notin b[t].items /\ BatchOK(b, lv, new, t)
  <2>1. BatchOK(b, lv, un, t)
    BY DEF BatchesOK
  <2>2. i \notin b[t].items
    BY <2>1 DEF BatchOK
  <2> HIDE DEF new
  <2>3. \A j \in b[t].items : new[j] = un[j]
    BY <1>1, <2>2
  <2> QED
    BY <2>1, <2>2, <2>3 DEF BatchOK
<1>3. \A j \in file.items : new[j] = un[j]
  BY <1>1, RowFields DEF RowOK
<1> HIDE DEF new
<1>4. RowOK(file, b, lv, new)
  BY <1>3 DEF RowOK
<1>5. BatchesOK(b, lv, new)
  BY <1>2 DEF BatchesOK
<1> QED
  BY <1>2, <1>4, <1>5 DEF new

LEMMA AppendStep ==
  ASSUME BufInv, NEW i \in BufItems, BufAppend(i)
  PROVE  BufInv'
<1> DEFINE row == BufGrown(BufMine, i)
<1>1. /\ BufMine.phase = "collecting" /\ BufMine.scope = bufScope /\ bufUnder[i] = 0
      /\ bufUnder' = [bufUnder EXCEPT ![i] = bufScope]
      /\ UNCHANGED <<bufLive, bufScope, batch>>
  BY DEF BufAppend
<1>2. \/ BufSaved(bufLive, row) /\ bufHeld' = bufHeld \cup {i}
      \/ BufFailed(bufLive, row) /\ UNCHANGED bufHeld
  BY DEF BufAppend, BufGrown, BufFailed
<1>3. BufMine \in BufRow /\ bufLive \in BufOwners /\ bufScope \in Nat \ {0}
  BY DEF BufInv, BufTypeOK, BufMine
<1>4. /\ row \in BufRow /\ row.phase = "collecting" /\ row.id = BufMine.id
      /\ row.items = BufMine.items \cup {i} /\ row.scope = bufScope
  BY <1>1, <1>3, GrownRow DEF BufGrown
<1> HIDE DEF row
<1>5. BufSavesTyped /\ BufChangeDone(bufLive, row) /\ bufHeld' \subseteq BufItems
  BY <1>2, <1>3, <1>4, ChangeEffect DEF BufChanged, BufInv, BufTypeOK
<1>6. BufTypeOK'
  BY <1>1, <1>3, <1>5, TypedStep DEF BufInv, BufTypeOK
<1>7. ASSUME ~overtaken'
      PROVE  /\ BatchesOK(batch', bufLive', bufUnder')
             /\ RowOK(BufMineNext, batch', bufLive', bufUnder')
             /\ RowOK(bufFile', batch', bufLive', bufUnder')
             /\ MineOK(BufMineNext, batch')
             /\ HeldOK(bufHeld', BufMineNext, bufFile', batch')
  <2>1. /\ ~overtaken
        /\ \/ BufMineNext = BufMine /\ bufFile' = bufFile
           \/ bufFile' = row /\ BufMineNext \in {BufMine, row}
    BY <1>1, <1>5, <1>7 DEF BufChangeDone, BufMineNext, BufMine
  <2>2. /\ BatchesOK(batch, bufLive, bufUnder)
        /\ RowOK(BufMine, batch, bufLive, bufUnder)
        /\ RowOK(bufFile, batch, bufLive, bufUnder)
        /\ MineOK(BufMine, batch)
        /\ HeldOK(bufHeld, BufMine, bufFile, batch)
    BY <2>1 DEF BufInv, BufGood
  <2>3. /\ bufFile \in BufRow /\ bufUnder \in [BufItems -> Nat]
        /\ \A t \in Batches : batch[t].items \subseteq BufItems
    BY DEF BufInv, BufTypeOK, Batch
  <2>4. /\ BatchesOK(batch, bufLive, bufUnder') /\ RowOK(bufFile, batch, bufLive, bufUnder')
        /\ RowOK(BufMine, batch, bufLive, bufUnder')
        /\ \A t \in Batches : i \notin batch[t].items
    BY <1>1, <1>3, <2>2, <2>3, FreshItem
  <2>5. bufUnder'[i] = bufScope
    BY <1>1, <2>3
  <2>6. RowOK(row, batch, bufLive, bufUnder') /\ MineOK(row, batch)
    BY <1>1, <1>3, <1>4, <2>4, <2>5 DEF RowOK, MineOK
  <2>7. HeldOK(bufHeld', BufMineNext, bufFile', batch)
    <3>1. CASE BufSaved(bufLive, row) /\ bufHeld' = bufHeld \cup {i}
      <4>1. BufMineNext = row /\ bufFile' = row
        BY <1>1, <1>3, <3>1 DEF BufSaved, BufMineNext, BufInv, BufTypeOK
      <4> QED
        BY <1>4, <2>2, <3>1, <4>1 DEF HeldOK
    <3>2. CASE UNCHANGED bufHeld
      BY <1>4, <2>1, <2>2, <3>2 DEF HeldOK
    <3> QED
      BY <1>2, <3>1, <3>2
  <2> QED
    BY <1>1, <2>1, <2>2, <2>4, <2>6, <2>7
<1> QED
  BY <1>6, <1>7, GoodStep DEF BufInv
-----------------------------------------------------------------------------
(* The submissions.                                                         *)

LEMMA OverCalm ==
  ASSUME BufTypeOK, BufGood, ~overtaken, NEW s \in Batches, batch[s].at # "unused", BatchAt(s, "over")
  PROVE  /\ BufCalm(batch, batch', bufLive, bufLive)
         /\ batch'[s].at = "over" /\ batch'[s].wrote = batch[s].wrote
<1>1. BufCalm(batch, batch, bufLive, bufLive)
  BY CalmSame
<1>2. /\ batch'[s].at = "over" /\ batch'[s].by = batch[s].by /\ batch'[s].items = batch[s].items
      /\ batch'[s].scope = batch[s].scope /\ batch'[s].wrote = batch[s].wrote
      /\ batch'[s].under = batch[s].under
      /\ \A t \in Batches \ {s} : batch'[t] = batch[t]
  BY PlaceEffect
<1> QED
  BY <1>1, <1>2 DEF BufCalm, BufTouches, BatchLive, BufUnderWay

LEMMA EnterCalm ==
  ASSUME BufTypeOK, BufGood, ~overtaken, NEW s \in Batches, batch[s].at = "preparing",
         BatchAt(s, "entered")
  PROVE  /\ BufCalm(batch, batch', bufLive, bufLive)
         /\ batch'[s].at = "entered" /\ batch'[s].items = batch[s].items
<1>1. BufCalm(batch, batch, bufLive, bufLive)
  BY CalmSame
<1>2. /\ batch'[s].at = "entered" /\ batch'[s].by = batch[s].by /\ batch'[s].items = batch[s].items
      /\ batch'[s].scope = batch[s].scope /\ batch'[s].wrote = batch[s].wrote
      /\ batch'[s].under = batch[s].under
      /\ \A t \in Batches \ {s} : batch'[t] = batch[t]
  BY PlaceEffect
<1> QED
  BY <1>1, <1>2 DEF BufCalm, BufTouches, BatchLive, BufUnderWay

LEMMA WriteCalm ==
  ASSUME BufTypeOK, BufGood, ~overtaken, NEW s \in Batches, batch[s].at = "entered", BatchCurrent(s),
         NEW place \in {"written", "over"},
         batch' = [batch EXCEPT ![s].at = place, ![s].wrote = TRUE, ![s].under = bufScope]
  PROVE  BufCalm(batch, batch', bufLive, bufLive)
<1>1. BufCalm(batch, batch, bufLive, bufLive)
  BY CalmSame
<1>2. /\ batch'[s].at = place /\ batch'[s].by = batch[s].by /\ batch'[s].items = batch[s].items
      /\ batch'[s].scope = batch[s].scope /\ batch'[s].wrote /\ batch'[s].under = bufScope
      /\ \A t \in Batches \ {s} : batch'[t] = batch[t]
  BY WriteEffect
<1>3. BufTouches(batch, bufLive, s) /\ batch[s].scope = bufScope
  BY DEF BatchCurrent, BufTouches, BatchLive, BufUnderWay
<1>4. ASSUME NEW t \in Batches
      PROVE  /\ batch'[t].items = batch[t].items /\ batch'[t].scope = batch[t].scope
             /\ batch'[t].by = batch[t].by
             /\ BufTouches(batch', bufLive, t) => BufTouches(batch, bufLive, t)
             /\ batch'[t].at = "unused" <=> batch[t].at = "unused"
             /\ batch[t].wrote => batch'[t].wrote
             /\ batch'[t].wrote => batch[t].wrote \/ batch[t].at = "entered"
             /\ batch'[t].wrote => batch'[t].under = batch'[t].scope
             /\ batch'[t].at \in {"preparing", "entered"} => ~batch'[t].wrote
             /\ batch'[t].at = "written" => batch'[t].wrote
  <2>1. CASE t = s
    BY <1>2, <1>3, <2>1
  <2>2. CASE t # s
    <3>1. batch'[t] = batch[t]
      BY <1>2, <2>2
    <3> QED
      BY <1>1, <3>1 DEF BufCalm, BufTouches, BatchLive
  <2> QED
    BY <2>1, <2>2
<1> QED
  BY <1>1, <1>4 DEF BufCalm

\* A copy that stays as it was while a submission ends or is written.
LEMMA RowStays ==
  ASSUME BufTypeOK, BufGood, ~overtaken, NEW s \in Batches, NEW row \in BufRow,
         RowOK(row, batch, bufLive, bufUnder),
         batch' \in [Batches -> Batch], BufCalm(batch, batch', bufLive, bufLive),
         batch'[s].at = "over" \/ batch[s].at = "entered",
         \A t \in Batches \ {s} : batch'[t] = batch[t]
  PROVE  /\ RowOK(row, batch', bufLive, bufUnder)
         /\ MineOK(row, batch) => MineOK(row, batch')
<1>1. row.phase = "preparing" => batch'[row.id].at \in {"unused", "preparing", "over"}
  BY DEF RowOK
<1>2. batch \in [Batches -> Batch]
  BY DEF BufTypeOK
<1>3. RowOK(row, batch', bufLive, bufUnder)
  BY <1>1, <1>2, CalmRow
<1>4. MineOK(row, batch) => MineOK(row, batch')
  BY DEF RowOK, MineOK, BufCalm
<1> QED
  BY <1>3, <1>4

\* A step of a submission that leaves both copies alone.
LEMMA QuietStep ==
  ASSUME BufInv, NEW s \in Batches, BufUnchanged,
         UNCHANGED <<bufLive, bufScope, bufHeld, bufUnder>>,
         batch[s].at # "unused",
         batch' \in [Batches -> Batch], batch'[s].by = batch[s].by,
         ~overtaken => BufCalm(batch, batch', bufLive, bufLive),
         batch'[s].at = "over" \/ batch[s].at = "entered",
         \A t \in Batches \ {s} : batch'[t] = batch[t]
  PROVE  BufInv'
<1>1. BufSavesTyped /\ bufMem' = bufMem /\ bufFile' = bufFile /\ overtaken' = overtaken
  BY DEF BufInv, BufTypeOK, BufSavesTyped, BufUnchanged
<1>2. BufTypeOK'
  BY <1>1, TypedStep DEF BufInv, BufTypeOK
<1>3. BufMineNext = BufMine /\ BufMine \in BufRow /\ bufFile \in BufRow
  BY <1>1 DEF BufMineNext, BufMine, BufInv, BufTypeOK
<1>4. ASSUME ~overtaken'
      PROVE  /\ BatchesOK(batch', bufLive', bufUnder')
             /\ RowOK(BufMineNext, batch', bufLive', bufUnder')
             /\ RowOK(bufFile', batch', bufLive', bufUnder')
             /\ MineOK(BufMineNext, batch')
             /\ HeldOK(bufHeld', BufMineNext, bufFile', batch')
  <2>1. /\ BatchesOK(batch, bufLive, bufUnder)
        /\ RowOK(BufMine, batch, bufLive, bufUnder)
        /\ RowOK(bufFile, batch, bufLive, bufUnder)
        /\ MineOK(BufMine, batch)
        /\ HeldOK(bufHeld, BufMine, bufFile, batch)
    BY <1>1, <1>4 DEF BufInv, BufGood
  <2>2. ~overtaken /\ BufTypeOK /\ BufGood /\ batch \in [Batches -> Batch]
    BY <1>1, <1>4 DEF BufInv, BufTypeOK
  <2>3. BatchesOK(batch', bufLive, bufUnder)
    BY <2>1, <2>2, CalmBatches
  <2>4. RowOK(BufMine, batch', bufLive, bufUnder) /\ MineOK(BufMine, batch')
    BY <1>3, <2>1, <2>2, RowStays
  <2>5. RowOK(bufFile, batch', bufLive, bufUnder)
    BY <1>3, <2>1, <2>2, RowStays
  <2>6. HeldOK(bufHeld, BufMine, bufFile, batch')
    BY <2>1, <2>2, HeldStays
  <2> QED
    BY <1>1, <1>3, <2>3, <2>4, <2>5, <2>6
<1> QED
  BY <1>2, <1>4, GoodStep DEF BufInv
\* The end of a submission with settle(): the buffer goes back when Codex does
\* not have it, and away when it has.
LEMMA SettleStep ==
  ASSUME BufInv, NEW s \in Batches, NEW accepted \in BOOLEAN,
         IF accepted THEN batch[s].at = "written" ELSE batch[s].at \in {"preparing", "entered"},
         BufSettle(batch[s].by, s, accepted), BatchAt(s, "over"),
         UNCHANGED <<bufLive, bufScope, bufHeld, bufUnder>>
  PROVE  BufInv'
<1> DEFINE o == batch[s].by
           row == IF accepted THEN NoBuffer ELSE BufBack(bufMem[o])
<1>1. o \in BufOwners /\ bufMem[o] \in BufRow /\ BufTypeOK
  BY DEF BufInv, BufTypeOK
<1>2. /\ BufSavesTyped
      /\ BufUnchanged \/ (bufMem[o].id = s /\ BufChangeDone(o, row))
  BY <1>1, SettleEffect
<1>3. /\ batch' \in [Batches -> Batch]
      /\ batch'[s].at = "over" /\ batch'[s].by = batch[s].by /\ batch'[s].items = batch[s].items
      /\ batch'[s].wrote = batch[s].wrote
      /\ \A t \in Batches \ {s} : batch'[t] = batch[t]
  BY <1>1, PlaceEffect
<1>4. BufTypeOK'
  BY <1>1, <1>2, <1>3, TypedStep DEF BufTypeOK
<1>5. ~overtaken => BufCalm(batch, batch', bufLive, bufLive)
  BY <1>1, OverCalm DEF BufInv
<1>6. CASE BufUnchanged
  BY <1>3, <1>5, <1>6, QuietStep
<1>7. CASE bufMem[o].id = s /\ BufChangeDone(o, row)
  <2>1. ASSUME ~overtaken'
        PROVE  /\ BatchesOK(batch', bufLive', bufUnder')
               /\ RowOK(BufMineNext, batch', bufLive', bufUnder')
               /\ RowOK(bufFile', batch', bufLive', bufUnder')
               /\ MineOK(BufMineNext, batch')
               /\ HeldOK(bufHeld', BufMineNext, bufFile', batch')
    <3> HIDE DEF row
    <3>1. /\ ~overtaken
          /\ \/ BufMineNext = BufMine /\ bufFile' = bufFile
             \/ o = bufLive /\ bufFile' = row /\ BufMineNext \in {BufMine, row}
      BY <1>7, <2>1 DEF BufChangeDone, BufMineNext, BufMine
    <3>2. /\ BatchesOK(batch, bufLive, bufUnder)
          /\ RowOK(BufMine, batch, bufLive, bufUnder)
          /\ RowOK(bufFile, batch, bufLive, bufUnder)
          /\ MineOK(BufMine, batch)
          /\ HeldOK(bufHeld, BufMine, bufFile, batch)
      BY <3>1 DEF BufInv, BufGood
    <3>3. /\ BufCalm(batch, batch', bufLive, bufLive) /\ BufGood
          /\ batch \in [Batches -> Batch] /\ BufMine \in BufRow /\ bufFile \in BufRow
      BY <1>1, <1>5, <3>1 DEF BufInv, BufTypeOK, BufMine
    <3>4. BatchesOK(batch', bufLive, bufUnder)
      BY <1>3, <3>2, <3>3, CalmBatches
    <3>5. RowOK(BufMine, batch', bufLive, bufUnder) /\ MineOK(BufMine, batch')
      BY <1>1, <1>3, <3>1, <3>2, <3>3, RowStays
    <3>6. RowOK(bufFile, batch', bufLive, bufUnder)
      BY <1>1, <1>3, <3>1, <3>2, <3>3, RowStays
    <3>7. CASE BufMineNext = BufMine /\ bufFile' = bufFile
      <4>1. HeldOK(bufHeld, BufMine, bufFile, batch')
        BY <3>2, <3>3, HeldStays
      <4> QED
        BY <3>4, <3>5, <3>6, <3>7, <4>1
    <3>8. CASE o = bufLive /\ bufFile' = row /\ BufMineNext \in {BufMine, row}
      <4>1. BufMine.id = s /\ bufMem[o] = BufMine
        BY <1>7, <3>8 DEF BufMine
      <4>2. CASE accepted
        <5>1. row = NoBuffer
          BY <4>2 DEF row
        <5>2. RowOK(row, batch', bufLive, bufUnder) /\ MineOK(row, batch')
          BY <5>1, NoRow, EmptyRow
        <5>3. \A i \in BufMine.items : batch'[s].wrote /\ i \in batch'[s].items
          <6>1. batch[s].at = "written" /\ batch[s].wrote
            BY <3>2, <4>2 DEF BatchesOK, BatchOK
          <6>2. BufMine.phase = "submitting" /\ BufMine.items = batch[s].items
            BY <3>2, <3>3, <4>1, <6>1, RowFields DEF RowOK, Batches
          <6> QED
            BY <1>3, <6>1, <6>2
        <5>4. HeldOK(bufHeld, BufMineNext, bufFile', batch')
          BY <3>2, <3>3, <5>3 DEF HeldOK, BufCalm
        <5> QED
          BY <3>4, <3>5, <3>8, <5>2, <5>4
      <4>3. CASE ~accepted
        <5>1. /\ row \in BufRow /\ row.phase = "collecting" /\ row.id = 0
              /\ row.items = BufMine.items /\ row.scope = BufMine.scope
          <6>1. row = BufBack(BufMine)
            BY <4>1, <4>3 DEF row
          <6> QED
            BY <3>3, <6>1, BackFields
        <5>2. ~BufTouches(batch', bufLive, BufMine.id)
          <6>1. batch[s].at \in {"preparing", "entered"} /\ ~batch[s].wrote
            BY <3>2, <4>3 DEF BatchesOK, BatchOK
          <6> QED
            BY <1>3, <4>1, <6>1 DEF BufTouches, BatchLive, BufUnderWay
        <5>3. RowOK(row, batch', bufLive, bufUnder) /\ MineOK(row, batch')
          <6>1. RowOK(row, batch', bufLive, bufUnder)
            BY <1>3, <3>2, <3>3, <5>1, <5>2, BackRow
          <6> QED
            BY <5>1, <6>1 DEF MineOK
        <5>4. HeldOK(bufHeld, BufMineNext, bufFile', batch')
          BY <3>2, <3>3, <3>8, <5>1, HeldStays
        <5> QED
          BY <3>4, <3>5, <3>8, <5>3, <5>4
      <4> QED
        BY <4>2, <4>3
    <3> QED
      BY <3>1, <3>7, <3>8
  <2> QED
    BY <1>4, <2>1, GoodStep DEF BufInv
<1> QED
  BY <1>2, <1>6, <1>7

LEMMA AcceptedStep ==
  ASSUME BufInv, NEW s \in Batches, BufAccepted(s)
  PROVE  BufInv'
<1>1. batch[s].at = "written" /\ TRUE \in BOOLEAN
  BY DEF BufAccepted
<1> QED
  BY <1>1, SettleStep DEF BufAccepted

LEMMA RunStep ==
  ASSUME BufInv, NEW s \in Batches, BufRun(s)
  PROVE  BufInv'
<1>1. batch[s].at = "entered" /\ UNCHANGED <<bufLive, bufScope, bufHeld, bufUnder>>
  BY DEF BufRun
<1>2. CASE BufSettle(batch[s].by, s, FALSE) /\ BatchAt(s, "over")
  BY <1>1, <1>2, SettleStep
<1>3. CASE BufUnchanged /\ BatchAt(s, "over")
  <2>1. /\ batch' \in [Batches -> Batch] /\ batch'[s].by = batch[s].by
        /\ \A t \in Batches \ {s} : batch'[t] = batch[t]
    BY <1>3, PlaceEffect DEF BufInv
  <2>2. ~overtaken => BufCalm(batch, batch', bufLive, bufLive)
    BY <1>1, <1>3, OverCalm DEF BufInv
  <2> QED
    BY <1>1, <1>3, <2>1, <2>2, QuietStep
<1>4. ASSUME NEW place \in {"written", "over"}, BatchCurrent(s), BufUnchanged,
             batch' = [batch EXCEPT ![s].at = place, ![s].wrote = TRUE, ![s].under = bufScope]
      PROVE  BufInv'
  <2>1. /\ batch' \in [Batches -> Batch] /\ batch'[s].by = batch[s].by
        /\ \A t \in Batches \ {s} : batch'[t] = batch[t]
    BY <1>4, WriteEffect DEF BufInv
  <2>2. ~overtaken => BufCalm(batch, batch', bufLive, bufLive)
    BY <1>1, <1>4, WriteCalm DEF BufInv
  <2> QED
    BY <1>1, <1>4, <2>1, <2>2, QuietStep
<1> QED
  BY <1>2, <1>3, <1>4 DEF BufRun
\* The intent is saved: both copies are the submitting buffer.
LEMMA EnterStep ==
  ASSUME BufInv, NEW s \in Batches, batch[s].at = "preparing", BatchCurrent(s),
         BufMine.id = s, BufMine.phase = "preparing",
         BufSaved(bufLive, BufEntered(BufMine)), BatchAt(s, "entered"),
         UNCHANGED <<bufLive, bufScope, bufHeld, bufUnder>>
  PROVE  BufInv'
<1> DEFINE row == BufEntered(BufMine)
<1>1. BufTypeOK /\ BufMine \in BufRow /\ bufLive \in BufOwners
  BY DEF BufInv, BufTypeOK, BufMine
<1>2. /\ row \in BufRow /\ row.phase = "submitting" /\ row.id = s
      /\ row.items = BufMine.items /\ row.scope = BufMine.scope
  BY <1>1, EnterRow DEF BufEntered
<1> HIDE DEF row
<1>3. /\ BufSavesTyped /\ bufMem'[bufLive] = row /\ bufFile' = row
      /\ ~overtaken' => ~overtaken
  BY <1>1, <1>2, SavedEffect DEF BufSavesTyped, row
<1>4. /\ batch' \in [Batches -> Batch]
      /\ batch'[s].by = batch[s].by
      /\ \A t \in Batches \ {s} : batch'[t] = batch[t]
  BY <1>1, PlaceEffect
<1>5. BufTypeOK'
  BY <1>1, <1>3, <1>4, TypedStep DEF BufTypeOK
<1>6. ASSUME ~overtaken'
      PROVE  /\ BatchesOK(batch', bufLive', bufUnder')
             /\ RowOK(BufMineNext, batch', bufLive', bufUnder')
             /\ RowOK(bufFile', batch', bufLive', bufUnder')
             /\ MineOK(BufMineNext, batch')
             /\ HeldOK(bufHeld', BufMineNext, bufFile', batch')
  <2>1. ~overtaken /\ BufMineNext = row
    BY <1>3, <1>6 DEF BufMineNext
  <2>2. /\ BatchesOK(batch, bufLive, bufUnder)
        /\ RowOK(BufMine, batch, bufLive, bufUnder)
        /\ RowOK(bufFile, batch, bufLive, bufUnder)
        /\ MineOK(BufMine, batch)
        /\ HeldOK(bufHeld, BufMine, bufFile, batch)
    BY <2>1 DEF BufInv, BufGood
  <2>3. /\ BufCalm(batch, batch', bufLive, bufLive)
        /\ batch'[s].at = "entered" /\ batch'[s].items = batch[s].items
    BY <1>1, <2>1, EnterCalm DEF BufInv
  <2>4. BatchesOK(batch', bufLive, bufUnder)
    BY <1>1, <1>4, <2>2, <2>3, CalmBatches DEF BufTypeOK
  <2>5. row.items = batch'[s].items
    BY <1>2, <2>2, <2>3 DEF MineOK
  <2>6. ASSUME NEW t \in Batches, t # s, \E i \in row.items : i \in batch'[t].items
        PROVE  ~BatchLive(batch', bufLive, t) /\ ~batch'[t].wrote
    <3>1. batch'[t] = batch[t] /\ \E i \in BufMine.items : i \in batch[t].items
      BY <1>2, <1>4, <2>6
    <3> QED
      BY <2>2, <2>6, <3>1 DEF RowOK, BatchLive
  <2>7. RowOK(row, batch', bufLive, bufUnder) /\ MineOK(row, batch')
    BY <1>2, <2>2, <2>3, <2>5, <2>6 DEF RowOK, MineOK
  <2>8. HeldOK(bufHeld, row, row, batch')
    BY <1>2, <2>2, <2>3 DEF HeldOK, BufCalm
  <2> QED
    BY <1>3, <2>1, <2>4, <2>7, <2>8
<1> QED
  BY <1>5, <1>6, GoodStep DEF BufInv

\* The intent cannot be saved, or is and the buffer is handed back after all.
LEMMA GiveUpStep ==
  ASSUME BufInv, NEW s \in Batches, batch[s].at = "preparing",
         BufMine.id = s, BufMine.phase = "preparing",
         \/ BufUnsaved(bufLive, {BufEntered(BufMine), BufBack(BufMine)})
         \/ /\ BufFault
            /\ bufMem' = [bufMem EXCEPT ![bufLive] = BufBack(BufMine)]
            /\ bufFile' = BufBack(BufMine)
            /\ UNCHANGED overtaken,
         BatchAt(s, "over"),
         UNCHANGED <<bufLive, bufScope, bufHeld, bufUnder>>
  PROVE  BufInv'
<1> DEFINE row == BufEntered(BufMine)
           back == BufBack(BufMine)
<1>1. BufTypeOK /\ BufMine \in BufRow /\ bufLive \in BufOwners
  BY DEF BufInv, BufTypeOK, BufMine
<1>2. /\ row \in BufRow /\ row.phase = "submitting" /\ row.id = s
      /\ row.items = BufMine.items /\ row.scope = BufMine.scope
  BY <1>1, EnterRow DEF BufEntered
<1>3. /\ back \in BufRow /\ back.phase = "collecting" /\ back.id = 0
      /\ back.items = BufMine.items /\ back.scope = BufMine.scope
  BY <1>1, BackFields
<1> HIDE DEF row, back
<1>4. /\ BufSavesTyped
      /\ ~overtaken' => /\ ~overtaken
                        /\ bufMem'[bufLive] \in {BufMine, back}
                        /\ bufFile' \in {bufFile, row, back}
  <2>1. CASE BufUnsaved(bufLive, {row, back})
    <3> DEFINE rows == {row, back}
    <3>1. rows \in SUBSET BufRow /\ BufUnsaved(bufLive, rows)
      BY <1>2, <1>3, <2>1
    <3>2. \A r \in rows : r \in {row, back}
      OBVIOUS
    <3> HIDE DEF rows
    <3> QED
      BY <1>1, <3>1, <3>2, UnsavedEffect DEF BufSavesTyped, BufTypeOK, BufMine
  <2>2. CASE /\ BufFault /\ bufMem' = [bufMem EXCEPT ![bufLive] = back] /\ bufFile' = back
             /\ UNCHANGED overtaken
    <3>1. bufFaults' \in 0..MaxBufFaults
      BY <2>2, BufAssumption DEF BufFault, BufInv, BufTypeOK
    <3>2. bufMem' \in [BufOwners -> BufRow] /\ bufMem'[bufLive] = back
      BY <1>1, <1>3, <2>2 DEF BufTypeOK
    <3> QED
      BY <1>1, <1>3, <2>2, <3>1, <3>2 DEF BufSavesTyped, BufTypeOK
  <2> QED
    BY <2>1, <2>2 DEF row, back
<1>5. /\ batch' \in [Batches -> Batch]
      /\ batch'[s].at = "over" /\ batch'[s].by = batch[s].by /\ batch'[s].items = batch[s].items
      /\ batch'[s].wrote = batch[s].wrote
      /\ \A t \in Batches \ {s} : batch'[t] = batch[t]
  BY <1>1, PlaceEffect
<1>6. BufTypeOK'
  BY <1>1, <1>4, <1>5, TypedStep DEF BufTypeOK
<1>7. ASSUME ~overtaken'
      PROVE  /\ BatchesOK(batch', bufLive', bufUnder')
             /\ RowOK(BufMineNext, batch', bufLive', bufUnder')
             /\ RowOK(bufFile', batch', bufLive', bufUnder')
             /\ MineOK(BufMineNext, batch')
             /\ HeldOK(bufHeld', BufMineNext, bufFile', batch')
  <2>1. ~overtaken /\ BufMineNext \in {BufMine, back} /\ bufFile' \in {bufFile, row, back}
    BY <1>4, <1>7 DEF BufMineNext
  <2>2. /\ BatchesOK(batch, bufLive, bufUnder)
        /\ RowOK(BufMine, batch, bufLive, bufUnder)
        /\ RowOK(bufFile, batch, bufLive, bufUnder)
        /\ MineOK(BufMine, batch)
        /\ HeldOK(bufHeld, BufMine, bufFile, batch)
    BY <2>1 DEF BufInv, BufGood
  <2>3. /\ BufCalm(batch, batch', bufLive, bufLive) /\ BufGood
        /\ batch \in [Batches -> Batch] /\ bufFile \in BufRow
    BY <1>1, <2>1, OverCalm DEF BufInv, BufTypeOK
  <2>4. BatchesOK(batch', bufLive, bufUnder)
    BY <1>5, <2>2, <2>3, CalmBatches
  <2>5. RowOK(BufMine, batch', bufLive, bufUnder) /\ MineOK(BufMine, batch')
    BY <1>1, <1>5, <2>1, <2>2, <2>3, RowStays
  <2>6. RowOK(bufFile, batch', bufLive, bufUnder)
    BY <1>1, <1>5, <2>1, <2>2, <2>3, RowStays
  <2>7. ~BufTouches(batch', bufLive, s)
    BY <1>5, <2>2 DEF BatchesOK, BatchOK, BufTouches, BatchLive, BufUnderWay
  <2>8. RowOK(back, batch', bufLive, bufUnder) /\ MineOK(back, batch')
    <3>1. RowOK(back, batch', bufLive, bufUnder)
      BY <1>1, <1>3, <1>5, <2>2, <2>3, <2>7, BackRow
    <3> QED
      BY <1>3, <3>1 DEF MineOK
  <2>9. RowOK(row, batch', bufLive, bufUnder)
    <3>1. row.items = batch'[s].items
      BY <1>2, <1>5, <2>2 DEF MineOK
    <3>2. ASSUME NEW t \in Batches, t # s, \E i \in row.items : i \in batch'[t].items
          PROVE  ~BatchLive(batch', bufLive, t) /\ ~batch'[t].wrote
      <4>1. batch'[t] = batch[t] /\ \E i \in BufMine.items : i \in batch[t].items
        BY <1>2, <1>5, <3>2
      <4> QED
        BY <2>2, <3>2, <4>1 DEF RowOK, BatchLive
    <3> QED
      BY <1>2, <1>5, <2>2, <3>1, <3>2 DEF RowOK
  <2>10. HeldOK(bufHeld, BufMineNext, bufFile', batch')
    BY <1>2, <1>3, <2>1, <2>2, <2>3 DEF HeldOK, BufCalm
  <2> QED
    BY <2>1, <2>4, <2>5, <2>6, <2>8, <2>9, <2>10
<1> QED
  BY <1>6, <1>7, GoodStep DEF BufInv

LEMMA PreparedStep ==
  ASSUME BufInv, NEW s \in Batches, BufPrepared(s)
  PROVE  BufInv'
<1>1. batch[s].at = "preparing" /\ UNCHANGED <<bufLive, bufScope, bufHeld, bufUnder>>
  BY DEF BufPrepared
<1>2. CASE BufSettle(batch[s].by, s, FALSE) /\ BatchAt(s, "over")
  BY <1>1, <1>2, SettleStep
<1>3. CASE /\ BatchCurrent(s) /\ bufMem[batch[s].by].id = s /\ bufMem[batch[s].by].phase = "preparing"
           /\ BufSaved(batch[s].by, BufEntered(bufMem[batch[s].by])) /\ BatchAt(s, "entered")
  <2>1. batch[s].by = bufLive
    BY <1>3 DEF BatchCurrent
  <2>2. /\ BufMine.id = s /\ BufMine.phase = "preparing"
        /\ BufSaved(bufLive, BufEntered(BufMine))
    BY <1>3, <2>1 DEF BufMine
  <2> QED
    BY <1>1, <1>3, <2>2, EnterStep
<1>4. CASE /\ BatchCurrent(s) /\ bufMem[batch[s].by].id = s /\ bufMem[batch[s].by].phase = "preparing"
           /\ \/ BufUnsaved(batch[s].by, {BufEntered(bufMem[batch[s].by]), BufBack(bufMem[batch[s].by])})
              \/ /\ BufFault
                 /\ bufMem' = [bufMem EXCEPT ![batch[s].by] = BufBack(bufMem[batch[s].by])]
                 /\ bufFile' = BufBack(bufMem[batch[s].by])
                 /\ UNCHANGED overtaken
           /\ BatchAt(s, "over")
  <2>1. batch[s].by = bufLive
    BY <1>4 DEF BatchCurrent
  <2>2. /\ BufMine.id = s /\ BufMine.phase = "preparing"
        /\ \/ BufUnsaved(bufLive, {BufEntered(BufMine), BufBack(BufMine)})
           \/ /\ BufFault
              /\ bufMem' = [bufMem EXCEPT ![bufLive] = BufBack(BufMine)]
              /\ bufFile' = BufBack(BufMine)
              /\ UNCHANGED overtaken
    BY <1>4, <2>1 DEF BufMine
  <2> QED
    BY <1>1, <1>4, <2>2, GiveUpStep
<1> QED
  BY <1>2, <1>3, <1>4 DEF BufPrepared, BufEntered, BufBack, BufPhased
\* begin() of a buffer with messages.
LEMMA BegunStep ==
  ASSUME BufInv, NEW s \in Batches, batch[s].at = "unused",
         BufMine.phase = "collecting", BufMine.scope = bufScope,
         \/ /\ BufSaved(bufLive, BufPhased(BufMine, "preparing", s))
            /\ BufBegun(s, BufMine.items)
         \/ BufFailed(bufLive, BufPhased(BufMine, "preparing", s)) /\ UNCHANGED batch,
         UNCHANGED <<bufLive, bufScope, bufHeld, bufUnder>>
  PROVE  BufInv'
<1> DEFINE row == BufPhased(BufMine, "preparing", s)
<1>1. BufTypeOK /\ BufMine \in BufRow /\ bufLive \in BufOwners /\ batch \in [Batches -> Batch]
  BY DEF BufInv, BufTypeOK, BufMine
<1>2. /\ row \in BufRow /\ row.phase = "preparing" /\ row.id = s
      /\ row.items = BufMine.items /\ row.scope = bufScope
  BY <1>1, BegunFields
<1> HIDE DEF row
<1>3. BufMine.items \in SUBSET BufItems /\ \A t \in Batches : t # 0
  BY <1>1, RowFields DEF Batches
<1>4. CASE BufFailed(bufLive, row) /\ UNCHANGED batch
  <2>1. /\ BufSavesTyped /\ bufMem' = bufMem
        /\ ~overtaken' => ~overtaken /\ bufFile' \in {bufFile, row}
    BY <1>1, <1>2, <1>4, UnsavedOne DEF BufSavesTyped, BufTypeOK
  <2>2. BufTypeOK'
    BY <1>1, <1>4, <2>1, TypedStep DEF BufTypeOK
  <2>3. ASSUME ~overtaken'
        PROVE  /\ BatchesOK(batch', bufLive', bufUnder')
               /\ RowOK(BufMineNext, batch', bufLive', bufUnder')
               /\ RowOK(bufFile', batch', bufLive', bufUnder')
               /\ MineOK(BufMineNext, batch')
               /\ HeldOK(bufHeld', BufMineNext, bufFile', batch')
    <3>1. ~overtaken /\ BufMineNext = BufMine /\ bufFile' \in {bufFile, row}
      BY <2>1, <2>3 DEF BufMineNext, BufMine
    <3>2. /\ BatchesOK(batch, bufLive, bufUnder)
          /\ RowOK(BufMine, batch, bufLive, bufUnder)
          /\ RowOK(bufFile, batch, bufLive, bufUnder)
          /\ MineOK(BufMine, batch)
          /\ HeldOK(bufHeld, BufMine, bufFile, batch)
      BY <3>1 DEF BufInv, BufGood
    <3>3. RowOK(row, batch, bufLive, bufUnder)
      BY <1>2, <1>3, <3>2 DEF RowOK, BatchesOK, BatchOK
    <3>4. HeldOK(bufHeld, BufMine, bufFile', batch)
      BY <1>2, <3>1, <3>2 DEF HeldOK
    <3> QED
      BY <1>4, <3>1, <3>2, <3>3, <3>4
  <2> QED
    BY <2>2, <2>3, GoodStep DEF BufInv
<1>5. CASE BufSaved(bufLive, row) /\ BufBegun(s, BufMine.items)
  <2>1. /\ BufSavesTyped /\ bufMem'[bufLive] = row /\ bufFile' = row
        /\ ~overtaken' => ~overtaken
    BY <1>1, <1>2, <1>5, SavedEffect DEF BufSavesTyped
  <2>2. /\ batch' \in [Batches -> Batch]
        /\ batch'[s].at = "preparing" /\ batch'[s].by = bufLive /\ batch'[s].items = BufMine.items
        /\ batch'[s].scope = bufScope /\ batch'[s].wrote = batch[s].wrote
        /\ batch'[s].under = batch[s].under
        /\ \A t \in Batches \ {s} : batch'[t] = batch[t]
    BY <1>1, <1>3, <1>5, BeginEffect
  <2>3. BufTypeOK'
    BY <1>1, <2>1, <2>2, TypedStep DEF BufTypeOK
  <2>4. ASSUME ~overtaken'
        PROVE  /\ BatchesOK(batch', bufLive', bufUnder')
               /\ RowOK(BufMineNext, batch', bufLive', bufUnder')
               /\ RowOK(bufFile', batch', bufLive', bufUnder')
               /\ MineOK(BufMineNext, batch')
               /\ HeldOK(bufHeld', BufMineNext, bufFile', batch')
    <3>1. ~overtaken /\ BufMineNext = row
      BY <2>1, <2>4 DEF BufMineNext
    <3>2. /\ BatchesOK(batch, bufLive, bufUnder)
          /\ RowOK(BufMine, batch, bufLive, bufUnder)
          /\ RowOK(bufFile, batch, bufLive, bufUnder)
          /\ MineOK(BufMine, batch)
          /\ HeldOK(bufHeld, BufMine, bufFile, batch)
      BY <3>1 DEF BufInv, BufGood
    <3>3. ~batch[s].wrote
      BY <3>2 DEF BatchesOK, BatchOK
    <3>4. \A t \in Batches : (\E i \in BufMine.items : i \in batch[t].items) =>
                               ~BatchLive(batch, bufLive, t) /\ ~batch[t].wrote
      BY <1>3, <3>2 DEF RowOK
    <3>5. ASSUME NEW t \in Batches
          PROVE  BatchOK(batch', bufLive, bufUnder, t)
      <4>1. CASE t = s
        <5>1. bufLive <= bufLive
          BY BufAssumption DEF BufInv, BufTypeOK, BufOwners
        <5> QED
          BY <2>2, <3>2, <3>3, <4>1, <5>1 DEF BatchOK, RowOK
      <4>2. CASE t # s
        <5>1. batch'[t] = batch[t]
          BY <2>2, <4>2
        <5> QED
          BY <3>2, <5>1 DEF BatchesOK, BatchOK
      <4> QED
        BY <4>1, <4>2
    <3>6. ASSUME NEW t \in Batches, NEW u \in Batches
          PROVE  BatchesApart(batch', bufLive, t, u)
      <4>1. ASSUME NEW v \in Batches, v # s
            PROVE  /\ batch'[v] = batch[v]
                   /\ BatchLive(batch', bufLive, v) => BatchLive(batch, bufLive, v)
        BY <2>2, <4>1 DEF BatchLive
      <4>2. CASE t # s /\ u # s
        BY <3>2, <4>1, <4>2 DEF BatchesOK, BatchesApart
      <4>3. CASE t = s
        BY <2>2, <3>4, <4>1, <4>3 DEF BatchesApart
      <4>4. CASE u = s
        BY <2>2, <3>4, <4>1, <4>4 DEF BatchesApart
      <4> QED
        BY <4>2, <4>3, <4>4
    <3>7. BatchesOK(batch', bufLive, bufUnder)
      BY <3>5, <3>6 DEF BatchesOK
    <3>8. RowOK(row, batch', bufLive, bufUnder) /\ MineOK(row, batch')
      <4>1. ASSUME NEW t \in Batches, t # s, \E i \in row.items : i \in batch'[t].items
            PROVE  ~BatchLive(batch', bufLive, t) /\ ~batch'[t].wrote
        <5>1. batch'[t] = batch[t]
          BY <2>2, <4>1
        <5> QED
          BY <1>2, <3>4, <4>1, <5>1 DEF BatchLive
      <4> QED
        BY <1>2, <2>2, <3>2, <3>3, <4>1 DEF RowOK, MineOK
    <3>9. HeldOK(bufHeld, row, row, batch')
      <4>1. ASSUME NEW t \in Batches, batch[t].wrote
            PROVE  batch'[t] = batch[t]
        BY <2>2, <3>3, <4>1
      <4> QED
        BY <1>2, <3>2, <4>1 DEF HeldOK
    <3> QED
      BY <2>1, <3>1, <3>7, <3>8, <3>9
  <2> QED
    BY <2>3, <2>4, GoodStep DEF BufInv
<1> QED
  BY <1>4, <1>5 DEF row

LEMMA BeginStep ==
  ASSUME BufInv, NEW s \in Batches, BufBegin(s)
  PROVE  BufInv'
<1>1. /\ batch[s].at = "unused" /\ BufMine.phase = "collecting" /\ BufMine.scope = bufScope
      /\ UNCHANGED <<bufLive, bufScope, bufHeld, bufUnder>>
  BY DEF BufBegin
<1>2. CASE /\ BufMine.items = {}
           /\ BufSaved(bufLive, NoBuffer) \/ BufUnsaved(bufLive, {NoBuffer})
           /\ UNCHANGED batch
  <2>1. BufSavesTyped /\ BufCopiesIn({NoBuffer})
    BY <1>2, DropEffect DEF BufInv
  <2>2. bufHeld' = bufHeld \ BufMine.items
    BY <1>1, <1>2
  <2>3. BufTypeOK'
    BY <1>1, <1>2, <2>1, TypedStep DEF BufInv, BufTypeOK
  <2>4. BufGood'
    BY <1>1, <1>2, <2>1, <2>2, NoRows, DropGood
  <2> QED
    BY <2>3, <2>4 DEF BufInv
<1>3. CASE \/ /\ BufSaved(bufLive, BufPhased(BufMine, "preparing", s))
              /\ BufBegun(s, BufMine.items)
           \/ BufFailed(bufLive, BufPhased(BufMine, "preparing", s)) /\ UNCHANGED batch
  BY <1>1, <1>3, BegunStep
<1>4. BufMine \in BufRow
  BY DEF BufInv, BufTypeOK, BufMine
<1>5. BufPhased(BufMine, "preparing", s).items = BufMine.items
  BY <1>4, BegunFields
<1> QED
  BY <1>2, <1>3, <1>5 DEF BufBegin, BufBegun, BufPhased, BufFailed
-----------------------------------------------------------------------------
(* A new service.                                                           *)

\* What a start does to the submissions: nothing, or they are over.
BufLeft == \A t \in Batches :
  /\ batch'[t].items = batch[t].items /\ batch'[t].scope = batch[t].scope
  /\ batch'[t].by = batch[t].by /\ batch'[t].wrote = batch[t].wrote
  /\ batch'[t].under = batch[t].under
  /\ batch'[t].at = batch[t].at \/ (batch[t].at # "unused" /\ batch'[t].at = "over")

LEMMA BootCalm ==
  ASSUME BufTypeOK, BufGood, ~overtaken, BufLeft, bufLive' = bufLive + 1
  PROVE  /\ BufCalm(batch, batch', bufLive, bufLive')
         /\ \A t \in Batches : ~BatchLive(batch', bufLive', t)
<1>1. bufLive \in Nat /\ bufLive' \in Nat /\ bufLive <= bufLive'
  BY BufAssumption DEF BufTypeOK, BufOwners
<1>2. ASSUME NEW t \in Batches
      PROVE  ~BatchLive(batch', bufLive', t)
  <2>1. batch[t].at # "unused" => batch[t].by <= bufLive
    BY DEF BufGood, BatchesOK, BatchOK
  <2>2. batch[t].by \in Nat
    BY DEF BufTypeOK, Batch
  <2>3. batch[t].at # "unused" => batch[t].by # bufLive'
    BY <1>1, <2>1, <2>2
  <2> QED
    BY <2>3 DEF BufLeft, BatchLive, BufUnderWay
<1>3. ASSUME NEW t \in Batches
      PROVE  /\ batch'[t].items = batch[t].items /\ batch'[t].scope = batch[t].scope
             /\ batch'[t].by = batch[t].by
             /\ BufTouches(batch', bufLive', t) => BufTouches(batch, bufLive, t)
             /\ batch'[t].at = "unused" <=> batch[t].at = "unused"
             /\ batch[t].wrote => batch'[t].wrote
             /\ batch'[t].wrote => batch[t].wrote \/ batch[t].at = "entered"
             /\ batch'[t].wrote => batch'[t].under = batch'[t].scope
             /\ batch'[t].at \in {"preparing", "entered"} => ~batch'[t].wrote
             /\ batch'[t].at = "written" => batch'[t].wrote
  <2>1. BatchOK(batch, bufLive, bufUnder, t)
    BY DEF BufGood, BatchesOK
  <2> QED
    BY <1>2, <2>1 DEF BufLeft, BatchOK, BufTouches
<1> QED
  BY <1>1, <1>2, <1>3 DEF BufCalm

LEMMA BootStep ==
  ASSUME BufInv, BufBoot, BufLeft, batch' \in [Batches -> Batch], bufFaults' \in 0..MaxBufFaults
  PROVE  BufInv'
<1>1. /\ bufLive' = bufLive + 1 /\ bufMem' = [bufMem EXCEPT ![bufLive'] = BufLoaded]
      /\ bufFile' = BufLoaded /\ UNCHANGED <<bufScope, bufHeld, bufUnder, overtaken>>
  BY DEF BufBoot
<1>2. bufLive' \in BufOwners
  BY BufAssumption, <1>1 DEF BufBoot, BufInv, BufTypeOK, BufOwners
<1>3. /\ BufLoaded \in BufRow
      /\ BufLoaded.items = bufFile.items /\ BufLoaded.scope = bufFile.scope
      /\ bufFile.phase = "preparing" => BufLoaded.phase = "collecting" /\ BufLoaded.id = 0
      /\ bufFile.phase # "preparing" => BufLoaded = bufFile
  BY LoadedRow DEF BufInv
<1>4. bufMem' \in [BufOwners -> BufRow] /\ BufMineNext = BufLoaded
  BY <1>1, <1>2, <1>3 DEF BufInv, BufTypeOK, BufMineNext
<1>5. BufTypeOK'
  <2>1. \A s \in Batches : batch'[s].at # "unused" => batch'[s].by \in BufOwners
    BY DEF BufLeft, BufInv, BufTypeOK
  <2>2. BufSavesTyped
    BY <1>1, <1>3, <1>4 DEF BufSavesTyped, BufInv, BufTypeOK
  <2> QED
    BY <1>1, <1>2, <2>1, <2>2, TypedStep DEF BufInv, BufTypeOK
<1>6. ASSUME ~overtaken'
      PROVE  /\ BatchesOK(batch', bufLive', bufUnder')
             /\ RowOK(BufMineNext, batch', bufLive', bufUnder')
             /\ RowOK(bufFile', batch', bufLive', bufUnder')
             /\ MineOK(BufMineNext, batch')
             /\ HeldOK(bufHeld', BufMineNext, bufFile', batch')
  <2>1. ~overtaken
    BY <1>1, <1>6
  <2>2. /\ BatchesOK(batch, bufLive, bufUnder)
        /\ RowOK(BufMine, batch, bufLive, bufUnder)
        /\ RowOK(bufFile, batch, bufLive, bufUnder)
        /\ MineOK(BufMine, batch)
        /\ HeldOK(bufHeld, BufMine, bufFile, batch)
    BY <2>1 DEF BufInv, BufGood
  <2>3. /\ BufCalm(batch, batch', bufLive, bufLive')
        /\ \A t \in Batches : ~BatchLive(batch', bufLive', t)
    BY <1>1, <2>1, BootCalm DEF BufInv
  <2>4. batch \in [Batches -> Batch] /\ bufFile \in BufRow
    BY DEF BufInv, BufTypeOK
  <2>5. BatchesOK(batch', bufLive', bufUnder)
    BY <2>2, <2>3, <2>4, CalmBatches
  <2>6. RowOK(BufLoaded, batch', bufLive', bufUnder)
    <3>1. CASE bufFile.phase = "preparing"
      <4>1. bufFile.id \in Batches => ~BufTouches(batch', bufLive', bufFile.id)
        BY <2>2, <2>3, <3>1 DEF RowOK, BufTouches, BufLeft
      <4> QED
        BY <1>3, <2>2, <2>3, <2>4, <3>1, <4>1, BackRow
    <3>2. CASE bufFile.phase # "preparing"
      BY <1>3, <2>2, <2>3, <2>4, <3>2, CalmRow
    <3> QED
      BY <3>1, <3>2
  <2>7. MineOK(BufLoaded, batch')
    BY <1>3 DEF MineOK
  <2>8. HeldOK(bufHeld, BufLoaded, BufLoaded, batch')
    BY <1>3, <2>2, <2>3 DEF HeldOK, BufCalm
  <2> QED
    BY <1>1, <1>4, <2>5, <2>6, <2>7, <2>8
<1> QED
  BY <1>5, <1>6, GoodStep DEF BufInv

LEMMA NewServiceStep ==
  ASSUME BufInv, BufNewService
  PROVE  BufInv'
<1>1. BufBoot /\ UNCHANGED <<batch, bufFaults>>
  BY DEF BufNewService
<1>2. BufLeft /\ batch' \in [Batches -> Batch] /\ bufFaults' \in 0..MaxBufFaults
  BY <1>1 DEF BufLeft, BufInv, BufTypeOK
<1> QED
  BY <1>1, <1>2, BootStep

LEMMA CrashStep ==
  ASSUME BufInv, BufCrash
  PROVE  BufInv'
<1>1. /\ BufBoot /\ BufFault
      /\ batch' = [s \in Batches |-> IF batch[s].at = "unused" THEN batch[s]
                                     ELSE [batch[s] EXCEPT !.at = "over"]]
  BY DEF BufCrash
<1>2. ASSUME NEW t \in Batches
      PROVE  /\ batch'[t] \in Batch
             /\ batch'[t].items = batch[t].items /\ batch'[t].scope = batch[t].scope
             /\ batch'[t].by = batch[t].by /\ batch'[t].wrote = batch[t].wrote
             /\ batch'[t].under = batch[t].under
             /\ batch'[t].at = batch[t].at \/ (batch[t].at # "unused" /\ batch'[t].at = "over")
  <2>1. batch[t] \in Batch
    BY DEF BufInv, BufTypeOK
  <2>2. CASE batch[t].at = "unused"
    BY <1>1, <2>1, <2>2
  <2>3. CASE batch[t].at # "unused"
    <3>1. batch'[t] = [batch[t] EXCEPT !.at = "over"]
      BY <1>1, <2>3
    <3> QED
      BY <2>1, <2>3, <3>1 DEF Batch
  <2> QED
    BY <2>2, <2>3
<1>3. batch' \in [Batches -> Batch]
  BY <1>1, <1>2
<1>4. bufFaults' \in 0..MaxBufFaults
  BY <1>1, BufAssumption DEF BufFault, BufInv, BufTypeOK
<1>5. BufLeft
  BY <1>2 DEF BufLeft
<1> QED
  BY <1>1, <1>3, <1>4, <1>5, BootStep

-----------------------------------------------------------------------------
(* The theorems.                                                            *)

\* The buffer in memory, the one on disk and the submissions agree on which
\* submission a message belongs to.
THEOREM BufInvariant == BufSpec => []BufInv
<1>1. ASSUME BufInit
      PROVE  BufInv
  <2>1. BufTypeOK
    <3>1. bufLive \in BufOwners /\ bufScope \in Nat \ {0} /\ bufFaults \in 0..MaxBufFaults
      BY <1>1, BufAssumption DEF BufInit, BufOwners
    <3>2. /\ batch \in [Batches -> Batch]
          /\ \A s \in Batches : batch[s].at = "unused"
      BY <1>1 DEF BufInit, Batch
    <3>3. bufFile \in BufRow /\ bufMem \in [BufOwners -> BufRow]
      BY <1>1, NoRow DEF BufInit
    <3>4. bufHeld \subseteq BufItems /\ bufUnder \in [BufItems -> Nat] /\ overtaken \in BOOLEAN
      BY <1>1 DEF BufInit
    <3> QED
      BY <3>1, <3>2, <3>3, <3>4 DEF BufTypeOK
  <2>2. BufMine = NoBuffer /\ bufFile = NoBuffer /\ NoBuffer \in BufRow
    BY <1>1, <2>1, NoRow DEF BufInit, BufMine, BufTypeOK
  <2>3. /\ RowOK(NoBuffer, batch, bufLive, bufUnder)
        /\ MineOK(NoBuffer, batch)
    BY NoRow, EmptyRow
  <2>4. BatchesOK(batch, bufLive, bufUnder)
    BY <1>1 DEF BufInit, BatchesOK, BatchOK, BatchesApart
  <2>5. HeldOK(bufHeld, BufMine, bufFile, batch)
    BY <1>1 DEF BufInit, HeldOK
  <2> QED
    BY <2>1, <2>2, <2>3, <2>4, <2>5 DEF BufInv, BufGood
<1>2. ASSUME BufInv, [BufNext]_bufVars
      PROVE  BufInv'
  <2>1. CASE BufExpire
    BY <1>2, <2>1, ExpireStep
  <2>2. CASE BufStart
    BY <1>2, <2>2, StartStep
  <2>3. CASE BufCancel
    BY <1>2, <2>3, CancelStep
  <2>4. CASE BufRebind
    BY <1>2, <2>4, RebindStep
  <2>5. CASE BufNewService
    BY <1>2, <2>5, NewServiceStep
  <2>6. CASE BufCrash
    BY <1>2, <2>6, CrashStep
  <2>7. ASSUME NEW i \in BufItems, BufAppend(i)
        PROVE  BufInv'
    BY <1>2, <2>7, AppendStep
  <2>8. ASSUME NEW o \in BufOwners, BufElsewhere(o)
        PROVE  BufInv'
    BY <1>2, <2>8, ElsewhereStep
  <2>9. ASSUME NEW s \in Batches, BufBegin(s)
        PROVE  BufInv'
    BY <1>2, <2>9, BeginStep
  <2>10. ASSUME NEW s \in Batches, BufPrepared(s)
         PROVE  BufInv'
    BY <1>2, <2>10, PreparedStep
  <2>11. ASSUME NEW s \in Batches, BufRun(s)
         PROVE  BufInv'
    BY <1>2, <2>11, RunStep
  <2>12. ASSUME NEW s \in Batches, BufAccepted(s)
         PROVE  BufInv'
    BY <1>2, <2>12, AcceptedStep
  <2>13. CASE UNCHANGED bufVars
    BY <1>2, <2>13 DEF bufVars, BufInv, BufTypeOK, BufGood, BufMine
  <2> QED
    BY <1>2, <2>1, <2>2, <2>3, <2>4, <2>5, <2>6, <2>7, <2>8, <2>9, <2>10, <2>11, <2>12, <2>13
    DEF BufNext
<1> QED
  BY <1>1, <1>2, PTL DEF BufSpec

\* No two submissions hold a message and wrote: a set of at most one.
LEMMA WroteOnce ==
  ASSUME BufInv, ~overtaken, NEW i \in BufItems
  PROVE  Cardinality(BufWrote(i)) <= 1
<1>1. ASSUME NEW s \in BufWrote(i), NEW t \in BufWrote(i)
      PROVE  s = t
  BY DEF BufWrote, BufInv, BufGood, BatchesOK, BatchesApart
<1>2. CASE BufWrote(i) = {}
  BY <1>2, FS_EmptySet
<1>3. CASE BufWrote(i) # {}
  <2>1. PICK s \in BufWrote(i) : TRUE
    BY <1>3
  <2>2. BufWrote(i) = {s}
    BY <1>1, <2>1
  <2>3. Cardinality({s}) = 1
    BY FS_Singleton
  <2> QED
    BY <2>2, <2>3
<1> QED
  BY <1>2, <1>3

\* However submissions, failed saves, rebinds, restarts and crashes interleave: no
\* collected message is submitted twice or under a later binding, and none the
\* user was told of is lost, as long as no suspended service writes its copy.
THEOREM BufferIsKept == BufSpec => []BufKept
<1>1. ASSUME BufInv
      PROVE  BufKept
  <2> SUFFICES ASSUME ~overtaken
               PROVE  BufSubmittedOnce /\ BufNothingLost
    BY DEF BufKept
  <2>1. ASSUME NEW i \in BufItems
        PROVE  /\ Cardinality(BufWrote(i)) <= 1
               /\ \A s \in BufWrote(i) : batch[s].under = bufUnder[i]
    <3>1. Cardinality(BufWrote(i)) <= 1
      BY <1>1, WroteOnce
    <3>2. \A s \in BufWrote(i) : batch[s].under = bufUnder[i]
      BY <1>1 DEF BufInv, BufGood, BatchesOK, BatchOK, BufWrote
    <3> QED
      BY <3>1, <3>2
  <2>2. \A i \in bufHeld : i \in bufFile.items \/ BufWrote(i) # {}
    BY <1>1 DEF BufInv, BufGood, HeldOK, BufWrote
  <2> QED
    BY <2>1, <2>2 DEF BufSubmittedOnce, BufNothingLost
<1> QED
  BY <1>1, BufInvariant, PTL

-----------------------------------------------------------------------------
(* Peer execution: the inductive invariant.                                *)

LEMMA CountOfOne ==
  ASSUME NEW s, \A c, d \in s : c = d
  PROVE  Cardinality(s) = IF s = {} THEN 0 ELSE 1
<1>1. ASSUME NEW c \in s PROVE Cardinality(s) = 1
  <2>1. s = {c}
    OBVIOUS
  <2> QED  BY <2>1, FS_Singleton
<1> QED  BY <1>1, FS_EmptySet

\* The handler of the call is past the intent and not over.
PeerWorking(c) ==
  peerCall[c].at \in {"begun", "created", "checked", "written", "noted", "failing"}

PeerUnsent(row) == row.phase \in {"none", "not-submitted"}
PeerSure(row) == row.phase = "completed" \/ (row.phase = "accepted" /\ row.turn)

PeerTypeOK ==
  /\ peerKind \in PeerKinds
  /\ peerMem \in PeerRow /\ peerFile \in PeerRow
  /\ peerCall \in [PeerCalls -> PeerCall]
  /\ peerLine \in [id : Nat, open : BOOLEAN]
  /\ peerThread \in BOOLEAN
  /\ peerWritten \subseteq PeerCalls
  /\ peerFaults \in Nat

\* What a row, in memory or in the file, proves of the native write.
PeerRowOK(row) ==
  /\ row.turn => row.phase \in {"accepted", "completed"}
  /\ PeerUnsent(row) => peerWritten = {} /\ \A c \in PeerCalls : ~PeerWorking(c)
  /\ PeerSure(row) => peerWritten # {}

\* A restart forgets no result, and no intent.
PeerRows ==
  /\ PeerRowOK(peerMem)
  /\ PeerRowOK(peerFile)
  /\ PeerSure(peerMem) => PeerSure(peerFile)
  /\ peerFile.phase = "none" => peerMem.phase = "none"

\* What a call is, by where it is, and what its caller was told.
PeerCallOK(c) ==
  /\ peerCall[c].at \in {"idle", "asked", "begun", "created", "checked"} => c \notin peerWritten
  /\ peerCall[c].at \in {"written", "noted"} => c \in peerWritten
  /\ peerCall[c].at = "idle" => peerCall[c].told = "none"
  /\ PeerWorking(c) => peerMem.phase \in {"submitting", "accepted"}
  /\ peerCall[c].at = "begun" => peerMem.phase = "submitting"
  /\ peerCall[c].at \in {"created", "noted"} => peerMem.phase = "accepted"
  /\ peerCall[c].told = "unsent" => peerCall[c].at = "ended" /\ c \notin peerWritten
  /\ peerCall[c].told \in {"accepted", "done"} \/ peerCall[c].started => peerWritten # {}
  /\ peerCall[c].kind = "fresh" /\ (peerCall[c].at \in {"created", "checked"} \/ c \in peerWritten)
       => peerThread

\* At most one call ever gets past the intent.
PeerOne == \A c, d \in PeerCalls :
  (PeerWorking(c) \/ c \in peerWritten) /\ (PeerWorking(d) \/ d \in peerWritten) => c = d

PeerInv ==
  /\ PeerTypeOK
  /\ PeerRows
  /\ \A c \in PeerCalls : PeerCallOK(c)
  /\ PeerOne

\* What a step does to the journal of the input.
PeerMoves ==
  \/ /\ peerWritten' = peerWritten
     /\ PeerSure(peerMem) => PeerSure(peerMem')
     /\ peerMem'.phase = "none" => peerMem.phase = "none"
  \/ /\ peerWritten = {} /\ peerWritten' # {}
     /\ ~PeerUnsent(peerMem) /\ ~PeerSure(peerMem)
     /\ ~PeerUnsent(peerMem') /\ ~PeerSure(peerMem')

PeerStep == PeerInv' /\ PeerMoves

-----------------------------------------------------------------------------

\* Only call c moves; another may hear that the turn has started.
PeerOthers(c) ==
  /\ peerCall' \in [PeerCalls -> PeerCall]
  /\ \A d \in PeerCalls : d # c =>
       /\ peerCall'[d].at = peerCall[d].at /\ peerCall'[d].told = peerCall[d].told
       /\ peerCall'[d].kind = peerCall[d].kind
       /\ peerCall'[d].started => peerCall[d].started \/ peerWritten' # {}
       /\ peerCall[d].started => peerCall'[d].started

\* Call c is at another place and may have been told the answer.
PeerMoved(c, place, answer) ==
  /\ PeerOthers(c)
  /\ peerCall'[c].at = place
  /\ peerCall'[c].told = peerCall[c].told \/ peerCall'[c].told = answer
  /\ peerCall'[c].kind = peerCall[c].kind
  /\ peerCall'[c].started = peerCall[c].started

LEMMA PeerGoesEffect ==
  ASSUME PeerTypeOK, NEW c \in PeerCalls, NEW place \in PeerPlaces, PeerGoes(c, place)
  PROVE  /\ PeerMoved(c, place, "none") /\ peerCall'[c].told = peerCall[c].told
  BY DEF PeerTypeOK, PeerGoes, PeerMoved, PeerOthers, PeerCall

LEMMA PeerEndsEffect ==
  ASSUME PeerTypeOK, NEW c \in PeerCalls, NEW answer \in PeerTold, PeerEnds(c, answer)
  PROVE  PeerMoved(c, "ended", answer)
<1> DEFINE mid == [peerCall[c] EXCEPT !.at = "ended"]
           told == IF mid.told = "none" /\ PeerOpen(c) THEN answer ELSE mid.told
           new == [mid EXCEPT !.told = told]
<1>1. peerCall' = [peerCall EXCEPT ![c] = new]
  BY DEF PeerTypeOK, PeerEnds, PeerCall
<1>2. /\ mid \in PeerCall /\ mid.at = "ended" /\ mid.kind = peerCall[c].kind
      /\ mid.started = peerCall[c].started /\ mid.told = peerCall[c].told
  BY DEF PeerTypeOK, PeerCall, PeerPlaces
<1>3. told \in PeerTold /\ (told = mid.told \/ told = answer)
  BY <1>2 DEF PeerCall
<1> HIDE DEF mid, told
<1>4. /\ new \in PeerCall /\ new.at = "ended" /\ new.kind = mid.kind
      /\ new.started = mid.started /\ new.told = told
  BY <1>2, <1>3 DEF PeerCall
<1> HIDE DEF new
<1> QED  BY <1>1, <1>2, <1>3, <1>4 DEF PeerTypeOK, PeerMoved, PeerOthers

LEMMA PeerSavedEffect ==
  ASSUME PeerTypeOK, NEW row \in PeerRow, PeerSaved(row)
  PROVE  peerMem' = row /\ peerFile' = row /\ peerFaults' \in Nat
  BY DEF PeerTypeOK, PeerSaved

LEMMA PeerUnsavedEffect ==
  ASSUME PeerTypeOK, NEW row \in PeerRow, PeerUnsaved(row)
  PROVE  peerMem' = peerMem /\ peerFile' \in {peerFile, row} /\ peerFaults' \in Nat
  BY DEF PeerTypeOK, PeerUnsaved, PeerFault

LEMMA PeerAnswer ==
  ASSUME PeerTypeOK, NEW c \in PeerCalls, NEW answer \in PeerTold
  PROVE  /\ PeerBroken(c, answer) \in PeerTold
         /\ ~peerCall[c].started => PeerBroken(c, answer) = answer
         /\ peerCall[c].started => PeerBroken(c, answer) = "accepted"
  BY DEF PeerBroken, PeerTold

\* Only call c moves, and it is the only one past the intent if it gets there.
LEMMA PeerCallMoves ==
  ASSUME PeerInv, NEW c \in PeerCalls, PeerOthers(c),
         peerMem' \in PeerRow, peerFile' \in PeerRow, peerFaults' \in Nat,
         peerThread' \in BOOLEAN, peerThread => peerThread',
         UNCHANGED <<peerKind, peerLine>>, PeerRows',
         peerWritten' \subseteq peerWritten \cup {c}, peerWritten \subseteq peerWritten',
         PeerCallOK(c)',
         PeerWorking(c) \/ PeerUnsent(peerMem) \/ peerMem' = peerMem,
         PeerWorking(c)' \/ c \in peerWritten' =>
           PeerWorking(c) \/ c \in peerWritten \/ PeerUnsent(peerMem)
  PROVE  PeerInv'
<1>1. PeerTypeOK'
  <2>1. peerCall' \in [PeerCalls -> PeerCall]
    BY DEF PeerOthers
  <2>2. peerWritten' \subseteq PeerCalls
    BY DEF PeerInv, PeerTypeOK
  <2> QED  BY <2>1, <2>2 DEF PeerTypeOK, PeerInv
<1>2. ASSUME NEW d \in PeerCalls, d # c
      PROVE  PeerCallOK(d)' /\ (PeerWorking(d)' <=> PeerWorking(d)) /\ (d \in peerWritten' <=> d \in peerWritten)
  <2>1. /\ peerCall'[d].at = peerCall[d].at /\ peerCall'[d].told = peerCall[d].told
        /\ peerCall'[d].kind = peerCall[d].kind
        /\ peerCall'[d].started => peerCall[d].started \/ peerWritten' # {}
    BY <1>2 DEF PeerOthers
  <2>2. (PeerWorking(d)' <=> PeerWorking(d)) /\ (d \in peerWritten' <=> d \in peerWritten)
    BY <2>1, <1>2 DEF PeerWorking
  <2>3. PeerWorking(d) => peerMem' = peerMem
    BY <1>2 DEF PeerInv, PeerOne, PeerRows, PeerRowOK
  <2>4. PeerCallOK(d)
    BY DEF PeerInv
  <2>5. peerCall[d].at \in {"begun", "created", "noted"} => PeerWorking(d)
    BY DEF PeerWorking
  <2> QED  BY <2>1, <2>2, <2>3, <2>4, <2>5 DEF PeerCallOK
<1>3. \A d \in PeerCalls : PeerCallOK(d)'
  BY <1>2
<1>4. PeerOne'
  <2>1. PeerUnsent(peerMem) => \A d \in PeerCalls : ~PeerWorking(d) /\ d \notin peerWritten
    BY DEF PeerInv, PeerRows, PeerRowOK
  <2> QED  BY <1>2, <2>1 DEF PeerInv, PeerOne
<1> QED  BY <1>1, <1>3, <1>4 DEF PeerInv

\* What the row under a working call is, before the call moves.
LEMMA PeerUnderWay ==
  ASSUME PeerInv, NEW c \in PeerCalls, PeerWorking(c)
  PROVE  /\ peerMem \in PeerRow /\ peerFile \in PeerRow
         /\ peerMem.phase \in {"submitting", "accepted"} /\ ~PeerUnsent(peerMem) /\ ~PeerUnsent(peerFile)
         /\ c \notin peerWritten => peerWritten = {}
         /\ \A d \in PeerCalls : d # c => ~PeerWorking(d) /\ d \notin peerWritten
         /\ PeerSure(peerMem) \/ PeerSure(peerFile) => c \in peerWritten
         /\ PeerSure(peerMem) => PeerSure(peerFile)
         /\ peerCall[c] \in PeerCall /\ PeerCallOK(c)
<1>1. \A d \in PeerCalls : d # c => ~PeerWorking(d) /\ d \notin peerWritten
  BY DEF PeerInv, PeerOne
<1>2. c \notin peerWritten => peerWritten = {}
  BY <1>1 DEF PeerInv, PeerTypeOK
<1>3. ~PeerUnsent(peerMem) /\ ~PeerUnsent(peerFile)
  BY DEF PeerInv, PeerRows, PeerRowOK
<1>4. PeerSure(peerMem) \/ PeerSure(peerFile) => c \in peerWritten
  BY <1>2 DEF PeerInv, PeerRows, PeerRowOK
<1> QED  BY <1>1, <1>2, <1>3, <1>4 DEF PeerInv, PeerTypeOK, PeerRows, PeerCallOK

\* The rows after a save that succeeds or throws while c is the call past the intent.
LEMMA PeerRowsKept ==
  ASSUME PeerInv, NEW c \in PeerCalls, PeerWorking(c), NEW row \in PeerRow,
         \/ peerMem' = peerMem /\ peerFile' = peerFile
         \/ peerMem' = row /\ peerFile' = row
         \/ peerMem' = peerMem /\ peerFile' \in {peerFile, row},
         PeerSure(peerMem) => PeerSure(row),
         row.phase # "none", row.turn => row.phase \in {"accepted", "completed"},
         PeerUnsent(row) => peerWritten' = {} /\ ~PeerWorking(c)',
         PeerSure(row) => peerWritten' # {},
         peerWritten \subseteq peerWritten', PeerOthers(c)
  PROVE  PeerRows'
<1>1. \A d \in PeerCalls : d # c => ~PeerWorking(d)'
  BY PeerUnderWay DEF PeerOthers, PeerWorking
<1>2. PeerUnsent(row) => \A d \in PeerCalls : ~PeerWorking(d)'
  BY <1>1
<1>3. PeerRowOK(row)'
  BY <1>2 DEF PeerRowOK, PeerUnsent, PeerSure
<1>4. /\ PeerRows /\ ~PeerUnsent(peerMem) /\ ~PeerUnsent(peerFile)
  BY PeerUnderWay DEF PeerInv
<1>5. \A r \in {peerMem, peerFile} : (PeerRowOK(r))'
  BY <1>4 DEF PeerRows, PeerRowOK, PeerUnsent, PeerSure
<1> QED  BY <1>3, <1>4, <1>5 DEF PeerRows, PeerUnsent, PeerSure

LEMMA PeerFailsStep ==
  ASSUME PeerInv, NEW c \in PeerCalls, PeerWorking(c), NEW unsent \in BOOLEAN, NEW answer \in PeerTold,
         PeerFails(c, unsent, answer), UNCHANGED <<peerKind, peerLine, peerThread>>,
         \/ peerWritten' = peerWritten
         \/ peerCall[c].at = "checked" /\ peerWritten' = peerWritten \cup {c},
         unsent => c \notin peerWritten',
         answer = "unsent" => c \notin peerWritten',
         answer \in {"accepted", "done"} => peerWritten # {}
  PROVE  PeerStep
<1> DEFINE row == [peerMem EXCEPT !.phase = IF unsent THEN "not-submitted" ELSE "failed"]
<1>1. PICK told \in {answer, "error"} :
        /\ PeerEnds(c, told)
        /\ \/ /\ peerMem.phase = "accepted"
              /\ peerMem' = peerMem /\ peerFile' = peerFile /\ peerFaults' = peerFaults
           \/ peerMem.phase # "accepted" /\ (PeerSaved(row) \/ PeerUnsaved(row))
  BY DEF PeerFails
<1>2. PeerTypeOK /\ told \in PeerTold
  BY DEF PeerInv, PeerTold
<1>3. PeerMoved(c, "ended", told) /\ PeerOthers(c)
  BY <1>1, <1>2, PeerEndsEffect DEF PeerMoved
<1>4. ~PeerWorking(c)'
  BY <1>3 DEF PeerMoved, PeerWorking
<1>5. /\ row \in PeerRow /\ row.turn = peerMem.turn
      /\ row.phase = IF unsent THEN "not-submitted" ELSE "failed"
  BY PeerUnderWay DEF PeerRow
<1> HIDE DEF row
<1>6. peerMem.phase # "accepted" => ~row.turn /\ ~PeerSure(row) /\ ~PeerSure(peerMem)
  BY <1>5, PeerUnderWay DEF PeerInv, PeerRows, PeerRowOK, PeerSure
<1>7. PeerUnsent(row) => peerWritten' = {} /\ ~PeerWorking(c)'
  BY <1>4, <1>5, PeerUnderWay DEF PeerUnsent
<1>8. /\ peerMem' \in PeerRow /\ peerFile' \in PeerRow /\ peerFaults' \in Nat
      /\ peerMem' \in {peerMem, row}
      /\ peerMem.phase = "accepted" => peerMem' = peerMem
  BY <1>1, <1>2, <1>5, PeerSavedEffect, PeerUnsavedEffect DEF PeerTypeOK
<1>9. PeerRows'
  <2>1. CASE peerMem.phase = "accepted"
    <3>1. peerMem' = peerMem /\ peerFile' = peerFile
      BY <1>1, <2>1
    <3>2. /\ peerMem \in PeerRow /\ peerMem.phase # "none" /\ ~PeerUnsent(peerMem)
          /\ PeerSure(peerMem) => peerWritten' # {}
      BY <2>1, PeerUnderWay DEF PeerUnsent
    <3> QED  BY <1>3, <2>1, <3>1, <3>2, PeerRowsKept
  <2>2. CASE peerMem.phase # "accepted"
    <3>1. \/ peerMem' = row /\ peerFile' = row
          \/ peerMem' = peerMem /\ peerFile' \in {peerFile, row}
      BY <1>1, <1>2, <1>5, <2>2, PeerSavedEffect, PeerUnsavedEffect
    <3>2. row.phase # "none" /\ peerWritten \subseteq peerWritten'
      BY <1>5
    <3> QED  BY <1>3, <1>5, <1>6, <1>7, <2>2, <3>1, <3>2, PeerRowsKept
  <2> QED  BY <2>1, <2>2
<1>10. PeerCallOK(c)'
  <2>1. PeerCallOK(c) /\ peerWritten \subseteq peerWritten'
    BY PeerUnderWay
  <2>2. /\ peerCall'[c].at = "ended" /\ (peerCall'[c].told = peerCall[c].told \/ peerCall'[c].told = told)
        /\ peerCall'[c].kind = peerCall[c].kind /\ peerCall'[c].started = peerCall[c].started
    BY <1>3 DEF PeerMoved
  <2>3. peerCall[c].told # "unsent"
    BY <2>1 DEF PeerCallOK, PeerWorking
  <2>4. peerCall[c].kind = "fresh" /\ c \in peerWritten' => peerThread
    BY <2>1 DEF PeerCallOK
  <2> QED  BY <1>4, <2>1, <2>2, <2>3, <2>4 DEF PeerCallOK
<1>11. PeerInv'
  BY <1>2, <1>3, <1>4, <1>8, <1>9, <1>10, PeerCallMoves DEF PeerTypeOK
<1>12. PeerMoves
  <2>1. CASE peerWritten' = peerWritten
    <3>1. peerMem'.phase # "none"
      BY <1>5, <1>8, PeerUnderWay
    <3>2. PeerSure(peerMem) => peerMem' = peerMem
      BY <1>6, <1>8
    <3> QED  BY <2>1, <3>1, <3>2 DEF PeerMoves
  <2>2. CASE peerWritten' # peerWritten
    <3>1. peerWritten = {} /\ peerWritten' # {} /\ ~unsent
      BY <2>2, PeerUnderWay
    <3>2. ~PeerSure(peerMem) /\ ~PeerUnsent(peerMem)
      BY <3>1, PeerUnderWay
    <3>3. ~PeerSure(peerMem') /\ ~PeerUnsent(peerMem')
      BY <1>5, <1>6, <1>8, <3>1, <3>2 DEF PeerUnsent
    <3> QED  BY <3>1, <3>2, <3>3 DEF PeerMoves
  <2> QED  BY <2>1, <2>2
<1> QED  BY <1>11, <1>12 DEF PeerStep

-----------------------------------------------------------------------------
\* The step, action by action.

LEMMA PeerForwardStep ==
  ASSUME PeerInv, NEW c \in PeerCalls, PeerForward(c)
  PROVE  PeerStep
<1> DEFINE kind == IF peerKind = "fresh" /\ peerThread THEN "turn" ELSE peerKind
           base == [peerCall[c] EXCEPT !.line = peerLine.id, !.kind = kind]
<1>1. PICK place \in {"ended", "asked"}, told \in {"unsent", "error", "none"} :
        /\ place = "asked" => told = "none"
        /\ peerCall' = [peerCall EXCEPT ![c] =
             IF place = "asked" THEN [base EXCEPT !.at = "asked"]
             ELSE [base EXCEPT !.at = "ended", !.told = told]]
  BY DEF PeerForward
<1>2. PeerTypeOK /\ PeerCallOK(c) /\ peerCall[c].at = "idle"
  BY DEF PeerInv, PeerForward
<1>3. kind \in PeerKinds
  BY <1>2 DEF PeerTypeOK, PeerKinds
<1>4. base \in PeerCall /\ base.told = "none" /\ base.started = peerCall[c].started
  <2> DEFINE mid == [peerCall[c] EXCEPT !.line = peerLine.id]
  <2>1. mid \in PeerCall /\ mid.told = "none" /\ mid.started = peerCall[c].started
    BY <1>2 DEF PeerTypeOK, PeerCall, PeerCallOK
  <2>2. base = [mid EXCEPT !.kind = kind]
    BY <1>2 DEF PeerTypeOK, PeerCall
  <2> HIDE DEF mid, base, kind
  <2> QED  BY <1>3, <2>1, <2>2 DEF PeerCall
<1> HIDE DEF base, kind
<1> DEFINE mid == [base EXCEPT !.at = "ended"]
           new == IF place = "asked" THEN [base EXCEPT !.at = "asked"] ELSE [mid EXCEPT !.told = told]
<1>5. mid \in PeerCall /\ mid.at = "ended" /\ mid.told = "none" /\ mid.started = peerCall[c].started
  BY <1>4 DEF PeerCall, PeerPlaces
<1>6. peerCall' = [peerCall EXCEPT ![c] = new]
  BY <1>1, <1>4 DEF PeerCall
<1> HIDE DEF mid
<1>7. /\ new \in PeerCall /\ new.at = place /\ new.told = told
      /\ new.started = peerCall[c].started
  BY <1>1, <1>4, <1>5 DEF PeerCall, PeerPlaces, PeerTold
<1> HIDE DEF new
<1>8. PeerOthers(c) /\ peerCall'[c] = new
  BY <1>2, <1>6, <1>7 DEF PeerTypeOK, PeerOthers
<1>9. /\ peerMem' = peerMem /\ peerFile' = peerFile /\ peerWritten' = peerWritten
      /\ peerThread' = peerThread /\ peerFaults' = peerFaults
      /\ peerKind' = peerKind /\ peerLine' = peerLine
  BY DEF PeerForward
<1>10. ~PeerWorking(c) /\ ~PeerWorking(c)' /\ c \notin peerWritten
  BY <1>2, <1>7, <1>8 DEF PeerWorking, PeerCallOK
<1>11. \A d \in PeerCalls : PeerWorking(d)' => PeerWorking(d)
  BY <1>8, <1>10 DEF PeerOthers, PeerWorking
<1>12. PeerRows'
  BY <1>9, <1>11 DEF PeerInv, PeerRows, PeerRowOK, PeerUnsent, PeerSure
<1>13. PeerCallOK(c)'
  BY <1>1, <1>2, <1>7, <1>8, <1>9, <1>10 DEF PeerCallOK
<1>14. PeerInv'
  BY <1>2, <1>8, <1>9, <1>10, <1>12, <1>13, PeerCallMoves DEF PeerTypeOK
<1>15. PeerMoves
  BY <1>9 DEF PeerMoves
<1> QED  BY <1>14, <1>15 DEF PeerStep

LEMMA PeerLetGoStep ==
  ASSUME PeerInv, NEW c \in PeerCalls, PeerLetGo(c)
  PROVE  PeerStep
<1> DEFINE told == PeerBroken(c, "unknown")
<1>1. PeerTypeOK /\ PeerCallOK(c) /\ peerCall[c].at # "idle" /\ peerCall[c].told = "none"
  BY DEF PeerInv, PeerLetGo, PeerUnanswered
<1>2. told \in {"unknown", "accepted"} /\ (told = "accepted" => peerWritten # {})
  BY <1>1 DEF PeerBroken, PeerCallOK
<1>3. peerCall' = [peerCall EXCEPT ![c].told = told]
  BY DEF PeerLetGo
<1> HIDE DEF told
<1>4. /\ PeerOthers(c) /\ peerCall'[c].told = told /\ peerCall'[c].at = peerCall[c].at
      /\ peerCall'[c].kind = peerCall[c].kind /\ peerCall'[c].started = peerCall[c].started
  BY <1>1, <1>2, <1>3 DEF PeerTypeOK, PeerOthers, PeerCall, PeerTold
<1>9. /\ peerMem' = peerMem /\ peerFile' = peerFile /\ peerWritten' = peerWritten
      /\ peerThread' = peerThread /\ peerFaults' \in Nat
      /\ peerKind' = peerKind /\ peerLine' = peerLine
  BY <1>1 DEF PeerLetGo, PeerFault, PeerTypeOK
<1>10. PeerWorking(c)' <=> PeerWorking(c)
  BY <1>4 DEF PeerWorking
<1>11. \A d \in PeerCalls : PeerWorking(d)' => PeerWorking(d)
  BY <1>4, <1>10 DEF PeerOthers, PeerWorking
<1>12. PeerRows'
  BY <1>9, <1>11 DEF PeerInv, PeerRows, PeerRowOK, PeerUnsent, PeerSure
<1>13. PeerCallOK(c)'
  BY <1>1, <1>2, <1>4, <1>9, <1>10 DEF PeerCallOK
<1>14. PeerInv'
  BY <1>1, <1>4, <1>9, <1>10, <1>12, <1>13, PeerCallMoves DEF PeerTypeOK
<1>15. PeerMoves
  BY <1>9 DEF PeerMoves
<1> QED  BY <1>14, <1>15 DEF PeerStep

LEMMA PeerExecuteStep ==
  ASSUME PeerInv, NEW c \in PeerCalls, PeerExecute(c)
  PROVE  PeerStep
<1> DEFINE answer == PeerBegin(peerMem, peerCall[c].kind)
           row == [phase |-> "submitting", turn |-> FALSE, made |-> peerCall[c].kind]
<1>1. PeerTypeOK /\ PeerCallOK(c) /\ peerCall[c].at = "asked" /\ c \notin peerWritten /\ ~PeerWorking(c)
  BY DEF PeerInv, PeerExecute, PeerCallOK, PeerWorking
<1>2. /\ row \in PeerRow /\ row.phase = "submitting" /\ ~row.turn
      /\ ~PeerUnsent(row) /\ ~PeerSure(row)
  BY <1>1 DEF PeerTypeOK, PeerRow, PeerCall, PeerUnsent, PeerSure
<1>3. /\ answer \in {"error", "begin", "done", "accepted", "unknown"}
      /\ answer = "begin" => PeerUnsent(peerMem)
      /\ answer \in {"done", "accepted"} => peerWritten # {}
  BY <1>1 DEF PeerBegin, PeerUnsent, PeerSure, PeerInv, PeerRows, PeerRowOK, PeerTypeOK, PeerRow
<1>4. /\ peerWritten' = peerWritten /\ peerThread' = peerThread
      /\ peerKind' = peerKind /\ peerLine' = peerLine
  BY DEF PeerExecute
<1> DEFINE quiet == peerMem' = peerMem /\ peerFile' = peerFile /\ peerFaults' = peerFaults
<1>5. \/ PeerEnds(c, PeerBroken(c, "unsent")) /\ quiet
      \/ answer # "begin" /\ PeerEnds(c, answer) /\ quiet
      \/ answer = "begin" /\ PeerSaved(row) /\ PeerGoes(c, "begun")
      \/ answer = "begin" /\ PeerUnsaved(row) /\ PeerEnds(c, "error")
  BY DEF PeerExecute
<1> HIDE DEF answer, row
<1>6. PICK place \in {"ended", "begun"}, told \in PeerTold :
        /\ PeerMoved(c, place, told)
        /\ told \in {"accepted", "done"} => peerWritten # {}
        /\ told = "unsent" => place = "ended"
        /\ \/ place = "ended" /\ quiet
           \/ place = "begun" /\ answer = "begin" /\ PeerSaved(row) /\ peerCall'[c].told = peerCall[c].told
           \/ place = "ended" /\ answer = "begin" /\ PeerUnsaved(row)
  <2>1. CASE PeerEnds(c, PeerBroken(c, "unsent")) /\ quiet
    <3>1. PeerBroken(c, "unsent") \in PeerTold /\ (PeerBroken(c, "unsent") = "accepted" => peerWritten # {})
      BY <1>1, PeerAnswer DEF PeerTold, PeerCallOK
    <3>2. PeerBroken(c, "unsent") # "done"
      BY <1>1, PeerAnswer DEF PeerTold
    <3> QED  BY <1>1, <2>1, <3>1, <3>2, PeerEndsEffect
  <2>2. CASE answer # "begin" /\ PeerEnds(c, answer) /\ quiet
    <3>1. answer \in PeerTold /\ answer # "unsent"
      BY <1>3, <2>2 DEF PeerTold
    <3> QED  BY <1>1, <1>3, <2>2, <3>1, PeerEndsEffect
  <2>3. CASE answer = "begin" /\ PeerSaved(row) /\ PeerGoes(c, "begun")
    BY <1>1, <2>3, PeerGoesEffect DEF PeerTold, PeerPlaces
  <2>4. CASE answer = "begin" /\ PeerUnsaved(row) /\ PeerEnds(c, "error")
    BY <1>1, <2>4, PeerEndsEffect DEF PeerTold
  <2> QED  BY <1>5, <2>1, <2>2, <2>3, <2>4
<1>7. PeerOthers(c) /\ (PeerWorking(c)' <=> place = "begun")
  BY <1>6 DEF PeerMoved, PeerWorking
<1>8. /\ peerMem' \in PeerRow /\ peerFile' \in PeerRow /\ peerFaults' \in Nat
      /\ peerMem' = peerMem \/ (PeerUnsent(peerMem) /\ peerMem' = row)
      /\ peerFile' = peerFile \/ (PeerUnsent(peerMem) /\ peerFile' = row)
      /\ place = "begun" => peerMem' = row /\ peerFile' = row /\ PeerUnsent(peerMem)
      /\ peerMem' = peerMem \/ peerFile' = row
  <2>1. CASE place = "ended" /\ quiet
    BY <1>1, <2>1 DEF PeerTypeOK
  <2>2. CASE answer = "begin" /\ PeerSaved(row)
    BY <1>1, <1>2, <1>3, <2>2, PeerSavedEffect
  <2>3. CASE place = "ended" /\ answer = "begin" /\ PeerUnsaved(row)
    BY <1>1, <1>2, <1>3, <2>3, PeerUnsavedEffect DEF PeerTypeOK
  <2> QED  BY <1>6, <2>1, <2>2, <2>3
<1>9. \A d \in PeerCalls : PeerWorking(d)' => PeerWorking(d) \/ place = "begun"
  BY <1>7 DEF PeerOthers, PeerWorking
<1>10. PeerRows'
  <2>1. PeerRows
    BY DEF PeerInv
  <2>2. CASE place = "begun"
    <3>1. peerMem' = row /\ peerFile' = row
      BY <1>8, <2>2
    <3>2. row.phase \notin {"none", "not-submitted", "completed", "accepted"} /\ ~row.turn
      BY <1>2
    <3> QED  BY <3>1, <3>2 DEF PeerRows, PeerRowOK, PeerUnsent, PeerSure
  <2>3. CASE place # "begun"
    <3>1. \A d \in PeerCalls : PeerWorking(d)' => PeerWorking(d)
      BY <1>9, <2>3
    <3>2. /\ row.phase \notin {"none", "not-submitted", "completed", "accepted"} /\ ~row.turn
      BY <1>2
    <3>3. PeerRowOK(peerMem)'
      BY <1>4, <1>8, <2>1, <3>1, <3>2 DEF PeerRows, PeerRowOK, PeerUnsent, PeerSure
    <3>4. PeerRowOK(peerFile)'
      BY <1>4, <1>8, <2>1, <3>1, <3>2 DEF PeerRows, PeerRowOK, PeerUnsent, PeerSure
    <3> QED  BY <1>2, <1>8, <2>1, <3>3, <3>4 DEF PeerRows, PeerUnsent, PeerSure
  <2> QED  BY <2>2, <2>3
<1>11. PeerCallOK(c)'
  BY <1>1, <1>2, <1>4, <1>6, <1>7, <1>8 DEF PeerCallOK, PeerMoved
<1>12. PeerInv'
  BY <1>1, <1>4, <1>7, <1>8, <1>10, <1>11, PeerCallMoves DEF PeerTypeOK
<1>13. PeerMoves
  BY <1>2, <1>4, <1>8 DEF PeerMoves, PeerUnsent, PeerSure
<1> QED  BY <1>12, <1>13 DEF PeerStep

LEMMA PeerRefusedStep ==
  ASSUME PeerInv, NEW c \in PeerCalls, PeerRefused(c)
  PROVE  PeerStep
<1>1. /\ PeerTypeOK /\ PeerCallOK(c) /\ PeerWorking(c) /\ c \notin peerWritten
  BY DEF PeerInv, PeerRefused, PeerCallOK, PeerWorking
<1>2. /\ PeerBroken(c, "unsent") \in PeerTold
      /\ PeerBroken(c, "unsent") \in {"accepted", "done"} => peerWritten # {}
  BY <1>1, PeerAnswer DEF PeerTold, PeerCallOK
<1>3. /\ PeerFails(c, TRUE, PeerBroken(c, "unsent")) /\ UNCHANGED <<peerKind, peerLine, peerThread>>
      /\ peerWritten' = peerWritten
  BY DEF PeerRefused
<1> QED  BY <1>1, <1>2, <1>3, PeerFailsStep

LEMMA PeerSaveFailedStep ==
  ASSUME PeerInv, NEW c \in PeerCalls, PeerSaveFailed(c)
  PROVE  PeerStep
<1>1. PeerWorking(c)
  BY DEF PeerSaveFailed, PeerWorking
<1>2. /\ PeerFails(c, FALSE, "error") /\ UNCHANGED <<peerKind, peerLine, peerThread>>
      /\ peerWritten' = peerWritten
  BY DEF PeerSaveFailed
<1> QED  BY <1>1, <1>2, PeerFailsStep DEF PeerTold

LEMMA PeerObservationLostStep ==
  ASSUME PeerInv, NEW c \in PeerCalls, PeerObservationLost(c)
  PROVE  PeerStep
<1>1. PeerWorking(c) /\ peerWritten # {}
  BY DEF PeerObservationLost, PeerWorking, PeerInv, PeerCallOK
<1>2. /\ PeerFails(c, FALSE, "accepted") /\ UNCHANGED <<peerKind, peerLine, peerThread>>
      /\ peerWritten' = peerWritten
  BY DEF PeerObservationLost
<1> QED  BY <1>1, <1>2, PeerFailsStep DEF PeerTold

\* A working call goes on without a save.
LEMMA PeerGoesOn ==
  ASSUME PeerInv, NEW c \in PeerCalls, PeerWorking(c), NEW place \in PeerPlaces, PeerGoes(c, place),
         UNCHANGED <<peerKind, peerMem, peerFile, peerLine, peerThread, peerFaults>>,
         peerWritten' \subseteq peerWritten \cup {c}, peerWritten \subseteq peerWritten',
         peerWritten' # peerWritten => peerMem.phase # "completed",
         PeerCallOK(c)'
  PROVE  PeerStep
<1>1. PeerTypeOK /\ PeerMoved(c, place, "none") /\ PeerOthers(c)
  BY PeerGoesEffect DEF PeerInv, PeerMoved
<1>2. /\ peerMem' = peerMem /\ peerFile' = peerFile /\ peerFaults' = peerFaults
      /\ peerThread' = peerThread /\ peerKind' = peerKind /\ peerLine' = peerLine
  OBVIOUS
<1>3. PeerRows'
  BY <1>2, PeerUnderWay DEF PeerInv, PeerRows, PeerRowOK, PeerUnsent, PeerSure
<1>4. PeerInv'
  BY <1>1, <1>2, <1>3, PeerCallMoves DEF PeerTypeOK
<1>5. PeerMoves
  <2>1. CASE peerWritten' = peerWritten
    BY <1>2, <2>1 DEF PeerMoves
  <2>2. CASE peerWritten' # peerWritten
    <3>1. peerWritten = {} /\ peerWritten' # {} /\ ~PeerUnsent(peerMem) /\ ~PeerSure(peerMem)
      BY <2>2, PeerUnderWay
    <3> QED  BY <1>2, <3>1 DEF PeerMoves, PeerUnsent, PeerSure
  <2> QED  BY <2>1, <2>2
<1> QED  BY <1>4, <1>5 DEF PeerStep

LEMMA PeerGuardStep ==
  ASSUME PeerInv, NEW c \in PeerCalls, PeerGuard(c)
  PROVE  PeerStep
<1>1. /\ PeerTypeOK /\ PeerCallOK(c) /\ PeerWorking(c) /\ c \notin peerWritten
      /\ peerCall[c].kind = "fresh" => peerThread
  BY DEF PeerInv, PeerGuard, PeerCallOK, PeerWorking
<1>2. /\ UNCHANGED <<peerKind, peerLine, peerThread>> /\ peerWritten' = peerWritten
  BY DEF PeerGuard
<1>3. CASE PeerGoes(c, "checked") /\ UNCHANGED <<peerMem, peerFile, peerFaults>>
  <2>1. PeerMoved(c, "checked", "none") /\ peerCall'[c].told = peerCall[c].told
    BY <1>1, <1>3, PeerGoesEffect DEF PeerPlaces
  <2>2. PeerCallOK(c)'
    BY <1>1, <1>2, <1>3, <2>1, PeerUnderWay DEF PeerCallOK, PeerMoved, PeerWorking
  <2> QED  BY <1>1, <1>2, <1>3, <2>2, PeerGoesOn DEF PeerPlaces
<1>4. CASE PeerFails(c, TRUE, PeerBroken(c, "unsent"))
  <2>1. /\ PeerBroken(c, "unsent") \in PeerTold
        /\ PeerBroken(c, "unsent") \in {"accepted", "done"} => peerWritten # {}
    BY <1>1, PeerAnswer DEF PeerTold, PeerCallOK
  <2> QED  BY <1>1, <1>2, <1>4, <2>1, PeerFailsStep
<1>5. CASE PeerFails(c, FALSE, "error")
  BY <1>1, <1>2, <1>5, PeerFailsStep DEF PeerTold
<1> QED  BY <1>3, <1>4, <1>5 DEF PeerGuard

LEMMA PeerWriteStep ==
  ASSUME PeerInv, NEW c \in PeerCalls, PeerWrite(c)
  PROVE  PeerStep
<1>1. /\ PeerTypeOK /\ PeerCallOK(c) /\ PeerWorking(c) /\ c \notin peerWritten
      /\ peerCall[c].at = "checked" /\ (peerCall[c].kind = "fresh" => peerThread)
  BY DEF PeerInv, PeerWrite, PeerCallOK, PeerWorking
<1>2. UNCHANGED <<peerKind, peerLine, peerThread>>
  BY DEF PeerWrite
<1>3. CASE /\ peerWritten' = peerWritten \cup {c} /\ PeerGoes(c, "written")
           /\ UNCHANGED <<peerMem, peerFile, peerFaults>>
  <2>1. PeerMoved(c, "written", "none") /\ peerCall'[c].told = peerCall[c].told
    BY <1>1, <1>3, PeerGoesEffect DEF PeerPlaces
  <2>2. PeerCallOK(c)'
    BY <1>1, <1>2, <1>3, <2>1, PeerUnderWay DEF PeerCallOK, PeerMoved, PeerWorking
  <2> QED  BY <1>1, <1>2, <1>3, <2>2, PeerGoesOn, PeerUnderWay DEF PeerPlaces
<1>4. CASE /\ peerWritten' \in {peerWritten, peerWritten \cup {c}}
           /\ PeerFails(c, FALSE, PeerBroken(c, "unknown"))
  <2>1. /\ PeerBroken(c, "unknown") \in PeerTold \ {"unsent"}
        /\ PeerBroken(c, "unknown") \in {"accepted", "done"} => peerWritten # {}
    BY <1>1, PeerAnswer DEF PeerTold, PeerCallOK
  <2> QED  BY <1>1, <1>2, <1>4, <2>1, PeerFailsStep
<1> QED  BY <1>3, <1>4 DEF PeerWrite

\* A working call tries to save that more is known.
LEMMA PeerSavesStep ==
  ASSUME PeerInv, NEW c \in PeerCalls, PeerWorking(c), NEW row \in PeerRow, PeerOthers(c),
         PeerSaved(row) \/ PeerUnsaved(row), row.phase \in {"accepted", "completed"},
         PeerSure(peerMem) => PeerSure(row), PeerSure(row) => c \in peerWritten,
         row.turn => c \in peerWritten,
         UNCHANGED <<peerKind, peerLine, peerWritten>>,
         peerThread' \in BOOLEAN, peerThread => peerThread', PeerCallOK(c)'
  PROVE  PeerStep
<1>1. /\ peerMem' \in PeerRow /\ peerFile' \in PeerRow /\ peerFaults' \in Nat
      /\ \/ peerMem' = row /\ peerFile' = row
         \/ peerMem' = peerMem /\ peerFile' \in {peerFile, row}
  BY PeerSavedEffect, PeerUnsavedEffect DEF PeerInv, PeerTypeOK
<1>2. row.phase # "none" /\ ~PeerUnsent(row)
  BY DEF PeerUnsent
<1>3. PeerRows'
  BY <1>1, <1>2, PeerRowsKept
<1>4. PeerInv'
  BY <1>1, <1>3, PeerCallMoves
<1>5. PeerMoves
  BY <1>1, PeerUnderWay DEF PeerMoves
<1> QED  BY <1>4, <1>5 DEF PeerStep

LEMMA PeerRowAccepted ==
  ASSUME PeerInv, NEW c \in PeerCalls, PeerWorking(c)
  PROVE  /\ \A row \in PeerRow : row = [peerMem EXCEPT !.phase = "accepted"] =>
              row.phase = "accepted" /\ row.turn = peerMem.turn
         /\ [peerMem EXCEPT !.phase = "accepted"] \in PeerRow
         /\ \A row \in PeerRow : row = [peerMem EXCEPT !.phase = "completed"] =>
              row.phase = "completed" /\ row.turn = peerMem.turn
         /\ [peerMem EXCEPT !.phase = "completed"] \in PeerRow
         /\ \A row \in PeerRow : row = [peerMem EXCEPT !.phase = "accepted", !.turn = TRUE] =>
              row.phase = "accepted" /\ row.turn
         /\ [peerMem EXCEPT !.phase = "accepted", !.turn = TRUE] \in PeerRow
<1>1. peerMem \in PeerRow
  BY DEF PeerInv, PeerTypeOK
<1> DEFINE mid == [peerMem EXCEPT !.phase = "accepted"]
<1>2. mid \in PeerRow /\ mid.phase = "accepted" /\ mid.turn = peerMem.turn
  BY <1>1 DEF PeerRow
<1>3. [peerMem EXCEPT !.phase = "accepted", !.turn = TRUE] = [mid EXCEPT !.turn = TRUE]
  OBVIOUS
<1>4. [mid EXCEPT !.turn = TRUE] \in PeerRow /\ [mid EXCEPT !.turn = TRUE].phase = "accepted"
      /\ [mid EXCEPT !.turn = TRUE].turn
  <2> HIDE DEF mid
  <2> QED  BY <1>2 DEF PeerRow
<1>5. [peerMem EXCEPT !.phase = "completed"] \in PeerRow
      /\ [peerMem EXCEPT !.phase = "completed"].phase = "completed"
      /\ [peerMem EXCEPT !.phase = "completed"].turn = peerMem.turn
  BY <1>1 DEF PeerRow
<1> QED  BY <1>2, <1>3, <1>4, <1>5

LEMMA PeerThreadMadeStep ==
  ASSUME PeerInv, NEW c \in PeerCalls, PeerThreadMade(c)
  PROVE  PeerStep
<1> DEFINE row == [peerMem EXCEPT !.phase = "accepted"]
<1>1. /\ PeerTypeOK /\ PeerCallOK(c) /\ PeerWorking(c) /\ c \notin peerWritten
      /\ peerCall[c].at = "begun" /\ peerWritten = {}
  BY PeerUnderWay DEF PeerInv, PeerThreadMade, PeerCallOK, PeerWorking
<1>2. row \in PeerRow /\ row.phase = "accepted" /\ row.turn = peerMem.turn /\ ~PeerSure(row) /\ ~row.turn
  BY <1>1, PeerRowAccepted, PeerUnderWay DEF PeerInv, PeerRows, PeerRowOK, PeerSure, PeerCallOK
<1>3. /\ UNCHANGED <<peerKind, peerLine, peerWritten>>
      /\ PeerSaved(row) \/ PeerUnsaved(row)
      /\ peerThread' \in {peerThread, TRUE}
  BY DEF PeerThreadMade
<1>4. PICK place \in {"failing", "created", "ended"}, told \in {"none", "error"} :
        /\ PeerMoved(c, place, told)
        /\ place = "created" => peerThread' /\ peerMem' = row
        /\ place = "failing" => peerMem' = peerMem
        /\ told = "none" => peerCall'[c].told = peerCall[c].told
  <2>1. CASE PeerUnsaved(row) /\ PeerGoes(c, "failing")
    BY <1>1, <1>2, <2>1, PeerGoesEffect, PeerUnsavedEffect DEF PeerPlaces
  <2>2. CASE PeerSaved(row) /\ peerThread' = TRUE /\ PeerGoes(c, "created")
    BY <1>1, <1>2, <2>2, PeerGoesEffect, PeerSavedEffect DEF PeerPlaces
  <2>3. CASE PeerEnds(c, "error")
    BY <1>1, <2>3, PeerEndsEffect DEF PeerTold
  <2> QED  BY <2>1, <2>2, <2>3 DEF PeerThreadMade
<1> HIDE DEF row
<1>5. peerThread' \in BOOLEAN /\ (peerThread => peerThread')
  <2>1. peerThread \in BOOLEAN /\ (peerThread' = peerThread \/ peerThread' = TRUE)
    BY <1>1, <1>3 DEF PeerTypeOK
  <2> QED  BY <2>1
<1>6. PeerOthers(c)
  BY <1>4 DEF PeerMoved
<1>7. peerMem' \in {peerMem, row}
  BY <1>1, <1>2, <1>3, PeerSavedEffect, PeerUnsavedEffect
<1>8. PeerCallOK(c)'
  <2>1. peerWritten' = {} /\ peerMem.phase \in {"submitting", "accepted"}
    BY <1>1, <1>3, PeerUnderWay
  <2>2. /\ peerCall'[c].at = place /\ peerCall'[c].told \in {peerCall[c].told, "error"}
        /\ peerCall'[c].started = peerCall[c].started
    BY <1>4 DEF PeerMoved
  <2> QED  BY <1>1, <1>2, <1>4, <1>7, <2>1, <2>2 DEF PeerCallOK, PeerWorking
<1> QED  BY <1>1, <1>2, <1>3, <1>5, <1>6, <1>8, PeerUnderWay, PeerSavesStep

LEMMA PeerNoteStep ==
  ASSUME PeerInv, NEW c \in PeerCalls, PeerNote(c)
  PROVE  PeerStep
<1> DEFINE row == [peerMem EXCEPT !.phase = "accepted", !.turn = TRUE]
<1>1. /\ PeerTypeOK /\ PeerCallOK(c) /\ PeerWorking(c) /\ c \in peerWritten
      /\ peerCall[c].at = "written"
  BY DEF PeerInv, PeerNote, PeerCallOK, PeerWorking
<1>2. row \in PeerRow /\ row.phase = "accepted" /\ PeerSure(row)
  BY <1>1, PeerRowAccepted DEF PeerSure
<1>3. UNCHANGED <<peerKind, peerLine, peerThread, peerWritten>>
  BY DEF PeerNote
<1>4. /\ PeerOthers(c)
      /\ peerCall'[c].told = peerCall[c].told /\ peerCall'[c].kind = peerCall[c].kind
      /\ \/ PeerSaved(row) /\ peerCall'[c].at = "noted"
         \/ PeerUnsaved(row) /\ peerCall'[c].at = "failing"
  <2>1. CASE PeerUnsaved(row) /\ PeerGoes(c, "failing")
    BY <1>1, <2>1, PeerGoesEffect DEF PeerPlaces, PeerMoved
  <2>2. ASSUME NEW heard,
               peerCall' = [d \in PeerCalls |->
                  [peerCall[d] EXCEPT !.at = IF d = c THEN "noted" ELSE @,
                                      !.started = @ \/ d \in heard]]
        PROVE  PeerOthers(c) /\ peerCall'[c].told = peerCall[c].told
               /\ peerCall'[c].kind = peerCall[c].kind /\ peerCall'[c].at = "noted"
    <3>1. ASSUME NEW d \in PeerCalls
          PROVE  /\ peerCall'[d] \in PeerCall
                 /\ peerCall'[d].told = peerCall[d].told /\ peerCall'[d].kind = peerCall[d].kind
                 /\ peerCall'[d].at = IF d = c THEN "noted" ELSE peerCall[d].at
                 /\ peerCall[d].started => peerCall'[d].started
      <4> DEFINE at == IF d = c THEN "noted" ELSE peerCall[d].at
                 mid == [peerCall[d] EXCEPT !.at = at]
                 started == peerCall[d].started \/ d \in heard
      <4>1. peerCall[d] \in PeerCall /\ at \in PeerPlaces /\ started \in BOOLEAN
        BY <1>1 DEF PeerTypeOK, PeerCall, PeerPlaces
      <4>2. peerCall'[d] = [mid EXCEPT !.started = started]
        BY <2>2, <4>1 DEF PeerCall
      <4> HIDE DEF at, started
      <4>3. /\ mid \in PeerCall /\ mid.at = at /\ mid.told = peerCall[d].told /\ mid.kind = peerCall[d].kind
        BY <4>1 DEF PeerCall
      <4> HIDE DEF mid
      <4>4. /\ peerCall'[d] \in PeerCall /\ peerCall'[d].at = at /\ peerCall'[d].told = mid.told
            /\ peerCall'[d].kind = mid.kind /\ peerCall'[d].started = started
        BY <4>1, <4>2, <4>3 DEF PeerCall
      <4> QED  BY <4>3, <4>4 DEF at, started
    <3>2. peerCall' \in [PeerCalls -> PeerCall]
      BY <2>2, <3>1
    <3>3. peerWritten' # {}
      BY <1>1, <1>3
    <3> QED  BY <3>1, <3>2, <3>3 DEF PeerOthers
  <2> QED  BY <2>1, <2>2 DEF PeerNote
<1> HIDE DEF row
<1>5. PeerCallOK(c)'
  <2>1. peerWritten' = peerWritten /\ peerThread' = peerThread /\ peerMem.phase \in {"submitting", "accepted"}
    BY <1>3, <1>1, PeerUnderWay
  <2>2. peerMem' \in {peerMem, row} /\ (peerCall'[c].at = "noted" => peerMem' = row)
    BY <1>1, <1>2, <1>4, PeerSavedEffect, PeerUnsavedEffect
  <2> QED  BY <1>1, <1>2, <1>4, <2>1, <2>2 DEF PeerCallOK, PeerWorking
<1> QED  BY <1>1, <1>2, <1>3, <1>4, <1>5, PeerSavesStep DEF PeerTypeOK

LEMMA PeerCompleteStep ==
  ASSUME PeerInv, NEW c \in PeerCalls, PeerComplete(c)
  PROVE  PeerStep
<1> DEFINE row == [peerMem EXCEPT !.phase = "completed"]
<1>1. /\ PeerTypeOK /\ PeerCallOK(c) /\ PeerWorking(c) /\ c \in peerWritten
  BY DEF PeerInv, PeerComplete, PeerCallOK, PeerWorking
<1>2. row \in PeerRow /\ row.phase = "completed" /\ PeerSure(row)
  BY <1>1, PeerRowAccepted DEF PeerSure
<1>3. UNCHANGED <<peerKind, peerLine, peerThread, peerWritten>>
  BY DEF PeerComplete
<1>4. /\ PeerOthers(c)
      /\ peerCall'[c].kind = peerCall[c].kind
      /\ \/ /\ PeerSaved(row) /\ peerCall'[c].at = "ended"
            /\ peerCall'[c].told \in {peerCall[c].told, "done"}
         \/ PeerUnsaved(row) /\ peerCall'[c].at = "failing" /\ peerCall'[c].told = peerCall[c].told
  <2>1. CASE PeerUnsaved(row) /\ PeerGoes(c, "failing")
    BY <1>1, <2>1, PeerGoesEffect DEF PeerPlaces, PeerMoved
  <2>2. CASE PeerSaved(row) /\ PeerEnds(c, "done")
    BY <1>1, <2>2, PeerEndsEffect DEF PeerTold, PeerMoved
  <2> QED  BY <2>1, <2>2 DEF PeerComplete
<1> HIDE DEF row
<1>5. PeerCallOK(c)'
  <2>1. peerWritten' = peerWritten /\ peerThread' = peerThread /\ peerMem.phase \in {"submitting", "accepted"}
    BY <1>3, <1>1, PeerUnderWay
  <2>2. peerCall'[c].at = "failing" => peerMem' = peerMem
    BY <1>1, <1>2, <1>4, PeerUnsavedEffect
  <2>3. peerCall[c].told # "unsent"
    BY <1>1 DEF PeerCallOK, PeerWorking
  <2> QED  BY <1>1, <1>4, <2>1, <2>2, <2>3 DEF PeerCallOK, PeerWorking
<1> QED  BY <1>1, <1>2, <1>3, <1>4, <1>5, PeerSavesStep DEF PeerTypeOK

-----------------------------------------------------------------------------
\* Steps of the line and of the process, which concern every call.

LEMMA PeerQuietStep ==
  ASSUME PeerInv, PeerTypeOK',
         UNCHANGED <<peerMem, peerWritten, peerThread>>, peerFile' \in {peerFile, peerMem},
         \A c \in PeerCalls :
           /\ peerCall'[c].at = peerCall[c].at /\ peerCall'[c].kind = peerCall[c].kind
           /\ peerCall'[c].started = peerCall[c].started
           /\ peerCall'[c].told # peerCall[c].told =>
                /\ peerCall[c].at # "idle" /\ peerCall'[c].told \in {"unknown", "accepted"}
                /\ peerCall'[c].told = "accepted" => peerCall[c].started
  PROVE  PeerStep
<1>1. \A c \in PeerCalls : PeerWorking(c)' <=> PeerWorking(c)
  BY DEF PeerWorking
<1>2. PeerRows'
  BY <1>1 DEF PeerInv, PeerRows, PeerRowOK, PeerUnsent, PeerSure
<1>3. \A c \in PeerCalls : PeerCallOK(c)'
  BY <1>1 DEF PeerInv, PeerCallOK
<1>4. PeerOne'
  BY <1>1 DEF PeerInv, PeerOne
<1>5. PeerMoves
  BY DEF PeerMoves
<1> QED  BY <1>2, <1>3, <1>4, <1>5 DEF PeerInv, PeerStep

LEMMA PeerLineDropsStep ==
  ASSUME PeerInv, PeerLineDrops
  PROVE  PeerStep
<1>1. PeerTypeOK
  BY DEF PeerInv
<1>2. /\ UNCHANGED <<peerKind, peerMem, peerFile, peerThread, peerWritten>>
      /\ peerFaults' \in Nat /\ peerLine' \in [id : Nat, open : BOOLEAN]
  <2>1. peerFaults' \in Nat
    BY <1>1 DEF PeerLineDrops, PeerFault, PeerTypeOK
  <2>2. peerLine' \in [id : Nat, open : BOOLEAN]
    BY <1>1 DEF PeerLineDrops, PeerTypeOK
  <2> QED  BY <2>1, <2>2 DEF PeerLineDrops
<1>3. ASSUME NEW c \in PeerCalls
      PROVE  /\ peerCall'[c] \in PeerCall
             /\ peerCall'[c].at = peerCall[c].at /\ peerCall'[c].kind = peerCall[c].kind
             /\ peerCall'[c].started = peerCall[c].started
             /\ peerCall'[c].told # peerCall[c].told =>
                  /\ peerCall[c].at # "idle" /\ peerCall'[c].told \in {"unknown", "accepted"}
                  /\ peerCall'[c].told = "accepted" => peerCall[c].started
  <2>1. peerCall[c] \in PeerCall
    BY <1>1 DEF PeerTypeOK
  <2>2. CASE PeerUnanswered(c)
    <3> DEFINE told == PeerBroken(c, "unknown")
    <3>1. told \in {"unknown", "accepted"} /\ (told = "accepted" => peerCall[c].started)
      BY DEF PeerBroken
    <3>2. peerCall'[c] = [peerCall[c] EXCEPT !.told = told]
      BY <2>2 DEF PeerLineDrops
    <3> HIDE DEF told
    <3> QED  BY <2>1, <2>2, <3>1, <3>2 DEF PeerCall, PeerTold, PeerUnanswered
  <2>3. CASE ~PeerUnanswered(c)
    BY <2>1, <2>3 DEF PeerLineDrops
  <2> QED  BY <2>2, <2>3
<1>4. peerCall' \in [PeerCalls -> PeerCall]
  BY <1>3 DEF PeerLineDrops
<1>5. PeerTypeOK'
  BY <1>1, <1>2, <1>4 DEF PeerTypeOK
<1> QED  BY <1>2, <1>3, <1>5, PeerQuietStep

LEMMA PeerRestartStep ==
  ASSUME PeerInv, PeerRestart
  PROVE  PeerStep
<1>1. PeerTypeOK /\ PeerRows
  BY DEF PeerInv
<1>2. /\ peerMem' = peerFile /\ UNCHANGED <<peerKind, peerFile, peerThread, peerWritten>>
      /\ peerFaults' \in Nat /\ peerLine' \in [id : Nat, open : BOOLEAN]
  <2>1. peerFaults' \in Nat
    <3>1. PeerFault /\ peerFaults \in Nat
      BY <1>1 DEF PeerRestart, PeerTypeOK
    <3> QED  BY <3>1 DEF PeerFault
  <2>2. peerLine' \in [id : Nat, open : BOOLEAN]
    BY <1>1 DEF PeerRestart, PeerTypeOK
  <2> QED  BY <2>1, <2>2 DEF PeerRestart
<1>3. ASSUME NEW c \in PeerCalls
      PROVE  /\ peerCall'[c] \in PeerCall
             /\ peerCall'[c].at \in {"idle", "ended"} /\ peerCall'[c].kind = peerCall[c].kind
             /\ peerCall'[c].at = "idle" => peerCall[c].at = "idle"
             /\ peerCall'[c].started = peerCall[c].started
             /\ peerCall'[c].told # peerCall[c].told =>
                  /\ peerCall[c].at # "idle" /\ peerCall'[c].told \in {"unknown", "accepted"}
                  /\ peerCall'[c].told = "accepted" => peerCall[c].started
  <2>1. peerCall[c] \in PeerCall
    BY <1>1 DEF PeerTypeOK
  <2>2. CASE peerCall[c].at # "idle"
    <3> DEFINE told == IF peerCall[c].told = "none" THEN PeerBroken(c, "unknown") ELSE peerCall[c].told
               mid == [peerCall[c] EXCEPT !.at = "ended"]
    <3>1. /\ told \in PeerTold
          /\ told # peerCall[c].told => told \in {"unknown", "accepted"}
                                        /\ (told = "accepted" => peerCall[c].started)
      BY <2>1 DEF PeerBroken, PeerCall, PeerTold
    <3>2. peerCall'[c] = [mid EXCEPT !.told = told]
      BY <2>1, <2>2 DEF PeerRestart, PeerCall
    <3> HIDE DEF told
    <3>3. /\ mid \in PeerCall /\ mid.at = "ended" /\ mid.kind = peerCall[c].kind
          /\ mid.started = peerCall[c].started
      BY <2>1 DEF PeerCall, PeerPlaces
    <3> HIDE DEF mid
    <3> QED  BY <2>2, <3>1, <3>2, <3>3 DEF PeerCall
  <2>3. CASE peerCall[c].at = "idle"
    BY <2>1, <2>3 DEF PeerRestart
  <2> QED  BY <2>2, <2>3
<1>4. peerCall' \in [PeerCalls -> PeerCall]
  BY <1>3 DEF PeerRestart
<1>5. PeerTypeOK'
  BY <1>1, <1>2, <1>4 DEF PeerTypeOK
<1>6. \A c \in PeerCalls : ~PeerWorking(c)'
  BY <1>3 DEF PeerWorking
<1>7. PeerRows'
  BY <1>1, <1>2, <1>6 DEF PeerRows, PeerRowOK, PeerUnsent, PeerSure
<1>8. \A c \in PeerCalls : PeerCallOK(c)'
  <2> SUFFICES ASSUME NEW c \in PeerCalls PROVE PeerCallOK(c)'
    OBVIOUS
  <2>1. PeerCallOK(c)
    BY DEF PeerInv
  <2> QED  BY <1>2, <1>3, <1>6, <2>1 DEF PeerCallOK
<1>9. PeerOne'
  BY <1>2, <1>6 DEF PeerInv, PeerOne
<1>10. PeerMoves
  BY <1>1, <1>2 DEF PeerMoves, PeerRows
<1> QED  BY <1>5, <1>7, <1>8, <1>9, <1>10 DEF PeerInv, PeerStep

-----------------------------------------------------------------------------
LEMMA PeerNextStep ==
  ASSUME PeerInv, [PeerNext]_peerVars
  PROVE  PeerStep
<1>1. CASE PeerRegisters
  <2>1. PeerTypeOK'
    BY <1>1 DEF PeerInv, PeerTypeOK, PeerRegisters
  <2> QED  BY <1>1, <2>1, PeerQuietStep DEF PeerRegisters
<1>2. CASE PeerOtherSave
  <2>1. PeerTypeOK'
    BY <1>2 DEF PeerInv, PeerTypeOK, PeerOtherSave
  <2> QED  BY <1>2, <2>1, PeerQuietStep DEF PeerOtherSave
<1>3. CASE UNCHANGED peerVars
  <2>1. PeerTypeOK'
    BY <1>3 DEF PeerInv, PeerTypeOK, peerVars
  <2> QED  BY <1>3, <2>1, PeerQuietStep DEF peerVars
<1> QED
  BY <1>1, <1>2, <1>3, PeerForwardStep, PeerLetGoStep, PeerExecuteStep, PeerRefusedStep,
     PeerThreadMadeStep, PeerGuardStep, PeerWriteStep, PeerNoteStep, PeerSaveFailedStep,
     PeerObservationLostStep, PeerCompleteStep, PeerLineDropsStep, PeerRestartStep DEF PeerNext

LEMMA PeerInitHolds == PeerInit => PeerInv
<1> SUFFICES ASSUME PeerInit PROVE PeerInv
  OBVIOUS
<1>1. /\ peerMem \in PeerRow /\ peerMem.phase = "none" /\ ~peerMem.turn
      /\ peerFile = peerMem
  BY DEF PeerInit, PeerNoRow, PeerRow, PeerKinds
<1>2. \A c \in PeerCalls : /\ peerCall[c] \in PeerCall /\ peerCall[c].at = "idle" /\ ~peerCall[c].started
                           /\ peerCall[c].told = "none"
  BY DEF PeerInit, PeerCall, PeerPlaces, PeerTold
<1>3. PeerTypeOK
  BY <1>1, <1>2 DEF PeerInit, PeerTypeOK
<1>4. \A c \in PeerCalls : ~PeerWorking(c) /\ c \notin peerWritten
  BY <1>2 DEF PeerWorking, PeerInit
<1>5. PeerRows
  BY <1>1, <1>4 DEF PeerRows, PeerRowOK, PeerUnsent, PeerSure, PeerInit
<1>6. \A c \in PeerCalls : PeerCallOK(c)
  BY <1>2, <1>4 DEF PeerCallOK
<1>7. PeerOne
  BY <1>4 DEF PeerOne
<1> QED  BY <1>3, <1>5, <1>6, <1>7 DEF PeerInv

\* For any number of forwardings, lines, failed saves and restarts: at most one of them gets
\* past the intent, and the rows in memory and in the file prove what they say.
THEOREM PeerInvariant == PeerSpec => []PeerInv
<1>1. PeerInv /\ [PeerNext]_peerVars => PeerInv'
  BY PeerNextStep DEF PeerStep
<1> QED  BY <1>1, PeerInitHolds, PTL DEF PeerSpec

LEMMA PeerImplements ==
  ASSUME PeerInv, [PeerNext]_peerVars
  PROVE  PeerJournal!ANext
<1>1. PeerInv' /\ PeerMoves
  BY PeerNextStep DEF PeerStep
<1> DEFINE from == PeerReport
           to == PeerReport'
           was == Cardinality(peerWritten)
           is == Cardinality(peerWritten)'
<1>2. /\ was = IF peerWritten = {} THEN 0 ELSE 1
      /\ is = IF peerWritten' = {} THEN 0 ELSE 1
  <2>1. (\A c, d \in peerWritten : c = d) /\ (\A c, d \in peerWritten' : c = d)
    BY <1>1 DEF PeerInv, PeerOne, PeerTypeOK
  <2> QED  BY <2>1, CountOfOne
<1>3. /\ peerMem \in PeerRow /\ PeerRowOK(peerMem)
      /\ peerMem' \in PeerRow /\ PeerRowOK(peerMem)'
  BY <1>1 DEF PeerInv, PeerTypeOK, PeerRows
<1>4. /\ from \in {"none", "unknown", "not-sent", "confirmed"}
      /\ from = "none" <=> peerMem.phase = "none"
      /\ from = "not-sent" <=> peerMem.phase = "not-submitted"
      /\ from = "confirmed" <=> PeerSure(peerMem)
      /\ from \in {"none", "not-sent"} => was = 0
      /\ from = "confirmed" => was = 1
  BY <1>2, <1>3 DEF PeerReport, PeerSure, PeerUnsent, PeerRowOK, PeerRow
<1>5. /\ to \in {"none", "unknown", "not-sent", "confirmed"}
      /\ to = "none" <=> peerMem'.phase = "none"
      /\ to = "not-sent" <=> peerMem'.phase = "not-submitted"
      /\ to = "confirmed" <=> PeerSure(peerMem')
      /\ to \in {"none", "not-sent"} => is = 0
      /\ to = "confirmed" => is = 1
  BY <1>2, <1>3 DEF PeerReport, PeerSure, PeerUnsent, PeerRowOK, PeerRow
<1>6. \/ /\ is = was
         /\ from = "confirmed" => to = "confirmed"
         /\ to = "none" => from = "none"
      \/ was = 0 /\ is = 1 /\ from = "unknown" /\ to = "unknown"
  BY <1>1, <1>2, <1>4, <1>5 DEF PeerMoves, PeerUnsent
<1> DEFINE w == [i \in {peerIdentity} |-> was]
           r == [i \in {peerIdentity} |-> from]
           v == [i \in {peerIdentity} |-> is]
           q == [i \in {peerIdentity} |-> to]
<1> HIDE DEF from, to, was, is
<1>7. /\ v \in [{peerIdentity} -> Nat] /\ q \in [{peerIdentity} -> PeerJournal!Reports]
      /\ w[peerIdentity] = was /\ v[peerIdentity] = is
      /\ r[peerIdentity] = from /\ q[peerIdentity] = to
  BY <1>2, <1>5 DEF PeerJournal!Reports
<1> QED  BY <1>2, <1>4, <1>5, <1>6, <1>7 DEF PeerJournal!ANext, PeerJournal!Move, PeerJournal!Reported, from, to, was, is

\* Execution of forwarded writes: the device's row is an at-most-once journal of the native
\* write, and what the origin is told agrees with what happened.
THEOREM ForwardedWritesOnce == PeerSpec => PeerHandoff
<1>1. PeerInit => PeerJournal!AInit
  <2> SUFFICES ASSUME PeerInit PROVE PeerJournal!AInit
    OBVIOUS
  <2>1. Cardinality(peerWritten) = 0 /\ PeerReport = "none"
    BY FS_EmptySet DEF PeerInit, PeerReport, PeerNoRow
  <2> QED  BY <2>1 DEF PeerJournal!AInit
<1>2. PeerInv => PeerToldTrue
  BY DEF PeerInv, PeerCallOK, PeerToldTrue
<1>3. PeerInv /\ [PeerNext]_peerVars => PeerJournal!ANext
  BY PeerImplements
<1> QED  BY <1>1, <1>2, <1>3, PeerInvariant, PTL DEF PeerSpec, PeerHandoff, PeerJournal!ASpec

-----------------------------------------------------------------------------
(* Session control: the inductive invariant.                               *)

\* What Codex did with the message, by a steer, or may still do.
SteerActive(c) == steerCall[c].at \in {"sending", "answered", "unsent", "doubt"}
SteerEngaged(c) == SteerActive(c) \/ c \in steerFlying \/ c \in SteersDone

\* A call that has taken up the choice made on the card.
SteerClaimed(c) ==
  \/ steerCall[c].at \in {"claimed", "waiting"} \/ SteerActive(c)
  \/ c \in steerFlying \cup steerTaken

SteerCall == [at : SteerPlaces, way : SteerWays, told : SteerTold]

SteerTypeOK ==
  /\ steerPolicy \in {"steer", "ask"}
  /\ steerMem \in SteerRows /\ steerFile \in SteerRows
  /\ steerUsable \in BOOLEAN
  /\ steerCall \in [SteerCalls -> SteerCall]
  /\ steerTail \in Seq(SteerCalls)
  /\ steerFlying \subseteq SteerCalls /\ steerTaken \subseteq SteerCalls
  /\ steerFaults \in Nat

\* The rows in the file, and in memory as long as it may be used.
SteerRowsOK ==
  /\ steerUsable => steerMem = steerFile
  /\ steerFile.receipt = "none" => \A c \in SteerCalls : ~SteerEngaged(c)
  /\ steerFile.receipt = "accepted" => SteersDone # {}
  /\ steerPolicy = "steer" => steerMem.choice = "none" /\ steerFile.choice = "none"

SteerCallOK(c) ==
  /\ steerPolicy = "steer" => steerCall[c].way = "steer" /\ steerCall[c].at # "claimed"
  /\ steerCall[c].at = "claimed" => steerCall[c].way # "cancel"
  /\ steerCall[c].at = "waiting" \/ SteerActive(c) \/ c \in steerFlying => steerCall[c].way = "steer"
  /\ steerCall[c].told # "none" => steerCall[c].at = "ended"
  /\ steerCall[c].at \in {"idle", "claimed", "waiting", "sending", "unsent"}
       => c \notin steerFlying \cup steerTaken
  /\ steerCall[c].at = "answered" => c \in steerTaken
  /\ c \in steerFlying => c \notin steerTaken
  /\ steerCall[c].told = "accepted" => steerFile.receipt = "accepted"
  /\ steerCall[c].told \in {"unsent", "cancelled", "used"} => c \notin steerFlying \cup steerTaken
  /\ steerCall[c].told = "cancelled" => steerFile.choice = "cancelled"
  /\ steerPolicy = "ask" /\ SteerClaimed(c) =>
       steerMem.choice = "submitted" /\ steerFile.choice = "submitted"

\* At most one steer is on its way or done, at most one call has the choice.
SteerOne == \A c, d \in SteerCalls :
  /\ SteerEngaged(c) /\ SteerEngaged(d) => c = d
  /\ steerPolicy = "ask" /\ SteerClaimed(c) /\ SteerClaimed(d) => c = d

\* A steer that is being submitted is at the head of the queue of the thread.
SteerLine == \A c \in SteerCalls : SteerActive(c) => SteerAtWork(c)

SteerInv ==
  /\ SteerTypeOK
  /\ SteerRowsOK
  /\ \A c \in SteerCalls : SteerCallOK(c)
  /\ SteerOne
  /\ SteerLine

\* What a step does to the journal of the message.
SteerMoves ==
  \/ /\ SteersDone' = SteersDone
     /\ steerFile.receipt = "accepted" => steerFile'.receipt = "accepted"
  \/ /\ SteersDone = {} /\ SteersDone' # {}
     /\ steerFile' = steerFile /\ steerFile.receipt \in {"sending", "uncertain"}

SteerStep == SteerInv' /\ SteerMoves

-----------------------------------------------------------------------------

SteerOthers(c) ==
  /\ steerCall' \in [SteerCalls -> SteerCall]
  /\ steerCall'[c].way = steerCall[c].way
  /\ \A d \in SteerCalls : d # c =>
       /\ steerCall'[d] = steerCall[d]
       /\ d \in steerFlying' <=> d \in steerFlying
       /\ d \in steerTaken' <=> d \in steerTaken

LEMMA SteerPutEffect ==
  ASSUME SteerTypeOK, NEW c \in SteerCalls, NEW place \in SteerPlaces, NEW answer \in SteerTold,
         SteerPut(c, place, answer)
  PROVE  /\ steerCall' \in [SteerCalls -> SteerCall]
         /\ steerCall'[c].way = steerCall[c].way
         /\ steerCall'[c].at = place /\ steerCall'[c].told = answer
         /\ \A d \in SteerCalls : d # c => steerCall'[d] = steerCall[d]
<1> DEFINE mid == [steerCall[c] EXCEPT !.at = place]
           new == [mid EXCEPT !.told = answer]
<1>1. steerCall' = [steerCall EXCEPT ![c] = new]
  BY DEF SteerTypeOK, SteerPut, SteerCall
<1>2. mid \in SteerCall /\ mid.at = place /\ mid.way = steerCall[c].way
  BY DEF SteerTypeOK, SteerCall
<1> HIDE DEF mid
<1>3. new \in SteerCall /\ new.at = place /\ new.told = answer /\ new.way = mid.way
  BY <1>2 DEF SteerCall
<1> HIDE DEF new
<1> QED  BY <1>1, <1>2, <1>3 DEF SteerTypeOK

LEMMA SteerSaves ==
  ASSUME SteerTypeOK, NEW rows \in SteerRows, SteerSaved(rows) \/ SteerUnsaved(rows)
  PROVE  /\ steerMem' \in SteerRows /\ steerFile' \in SteerRows
         /\ steerUsable' \in BOOLEAN /\ steerFaults' \in Nat
         /\ steerFile' \in {steerFile, rows} /\ steerMem' \in {steerFile', rows}
         /\ SteerSaved(rows) => steerMem' = rows /\ steerFile' = rows
         /\ steerUsable' => steerMem' = steerFile'
<1>1. CASE SteerSaved(rows)
  BY <1>1 DEF SteerTypeOK, SteerSaved
<1>2. CASE SteerUnsaved(rows)
  <2>1. steerFaults' \in Nat
    BY <1>2 DEF SteerTypeOK, SteerUnsaved, SteerFault
  <2>2. SteerSaved(rows) => steerMem' = rows /\ steerFile' = rows
    BY DEF SteerSaved
  <2>3. steerFile' \in {steerFile, rows} /\ steerFile' \in SteerRows
    BY <1>2 DEF SteerTypeOK, SteerUnsaved
  <2>4. CASE steerMem' = steerFile' /\ steerUsable' = steerUsable
    BY <2>1, <2>2, <2>3, <2>4 DEF SteerTypeOK
  <2>5. CASE steerMem' = rows /\ steerUsable' = FALSE
    BY <2>1, <2>2, <2>3, <2>5
  <2> QED  BY <1>2, <2>4, <2>5 DEF SteerUnsaved
<1> QED  BY <1>1, <1>2

\* A step of call c, alone in the choice and in the steer if it takes them up.
LEMMA SteerCallMoves ==
  ASSUME SteerInv, NEW c \in SteerCalls, SteerOthers(c),
         steerMem' \in SteerRows, steerFile' \in SteerRows, steerUsable' \in BOOLEAN,
         steerFaults' \in Nat, steerPolicy' = steerPolicy, steerTail' \in Seq(SteerCalls),
         steerFlying' \subseteq SteerCalls, steerTaken' \subseteq SteerCalls,
         SteerRowsOK', SteerCallOK(c)', SteerLine',
         SteerEngaged(c)' => SteerEngaged(c) \/ steerFile.receipt = "none",
         steerPolicy = "ask" /\ SteerClaimed(c)' => SteerClaimed(c) \/ steerFile.choice # "submitted",
         steerFile.receipt = "accepted" => steerFile'.receipt = "accepted",
         steerFile.choice = "cancelled" => steerFile'.choice = "cancelled",
         steerMem.choice = "submitted" /\ steerFile.choice = "submitted" =>
           steerMem'.choice = "submitted" /\ steerFile'.choice = "submitted"
  PROVE  SteerInv'
<1>1. SteerTypeOK'
  BY DEF SteerInv, SteerTypeOK, SteerOthers
<1>2. ASSUME NEW d \in SteerCalls, d # c
      PROVE  /\ SteerCallOK(d)' /\ (SteerEngaged(d)' <=> SteerEngaged(d))
             /\ (SteerClaimed(d)' <=> SteerClaimed(d))
  <2>1. /\ steerCall'[d] = steerCall[d] /\ (d \in steerFlying' <=> d \in steerFlying)
        /\ (d \in steerTaken' <=> d \in steerTaken)
    BY <1>2 DEF SteerOthers
  <2>2. /\ SteerActive(d)' <=> SteerActive(d)
        /\ d \in SteersDone' <=> d \in SteersDone
    BY <2>1 DEF SteerActive, SteersDone
  <2>3. (SteerEngaged(d)' <=> SteerEngaged(d)) /\ (SteerClaimed(d)' <=> SteerClaimed(d))
    BY <2>1, <2>2 DEF SteerEngaged, SteerClaimed
  <2>4. SteerCallOK(d)
    BY DEF SteerInv
  <2> QED  BY <2>1, <2>2, <2>3, <2>4 DEF SteerCallOK
<1>3. \A d \in SteerCalls : SteerCallOK(d)'
  BY <1>2
<1>4. SteerOne'
  <2>1. steerFile.receipt = "none" => \A d \in SteerCalls : ~SteerEngaged(d)
    BY DEF SteerInv, SteerRowsOK
  <2>2. steerPolicy = "ask" /\ steerFile.choice # "submitted" => \A d \in SteerCalls : ~SteerClaimed(d)
    BY DEF SteerInv, SteerCallOK
  <2> QED  BY <1>2, <2>1, <2>2 DEF SteerInv, SteerOne
<1> QED  BY <1>1, <1>3, <1>4 DEF SteerInv

\* A call moves and nothing is saved.
LEMMA SteerUnrecorded ==
  ASSUME SteerInv, NEW c \in SteerCalls, SteerOthers(c), SteerUnchanged, steerPolicy' = steerPolicy,
         steerTail' \in Seq(SteerCalls), steerFlying' \subseteq SteerCalls,
         steerTaken' \subseteq SteerCalls, steerTaken \subseteq steerTaken',
         SteerCallOK(c)', SteerLine', SteerEngaged(c)' => SteerEngaged(c),
         steerPolicy = "ask" /\ SteerClaimed(c)' => SteerClaimed(c)
  PROVE  SteerStep
<1>1. /\ steerMem' = steerMem /\ steerFile' = steerFile /\ steerUsable' = steerUsable
      /\ steerFaults' = steerFaults
  BY DEF SteerUnchanged
<1>2. ASSUME NEW d \in SteerCalls PROVE SteerEngaged(d)' => SteerEngaged(d)
  <2>1. CASE d # c
    BY <2>1 DEF SteerOthers, SteerEngaged, SteerActive, SteersDone
  <2> QED  BY <2>1
<1>3. SteersDone \subseteq SteersDone' /\ (\A d \in SteersDone' : d \in SteersDone \/ d = c)
  BY DEF SteersDone, SteerOthers
<1>4. SteerRowsOK'
  BY <1>1, <1>2, <1>3 DEF SteerInv, SteerRowsOK
<1>5. SteerInv'
  <2>1. SteerTypeOK
    BY DEF SteerInv
  <2> QED  BY <1>1, <1>4, <2>1, SteerCallMoves DEF SteerTypeOK
<1>6. SteerMoves
  <2>1. CASE c \in SteersDone' /\ c \notin SteersDone
    <3>1. SteerEngaged(c)
      BY <1>2, <2>1 DEF SteerEngaged
    <3>2. SteersDone = {}
      BY <2>1, <3>1 DEF SteerInv, SteerOne, SteerEngaged, SteersDone, SteerTypeOK
    <3>3. steerFile.receipt \in {"sending", "uncertain"}
      BY <3>1, <3>2 DEF SteerInv, SteerTypeOK, SteerRowsOK, SteerRows
    <3> QED  BY <1>1, <2>1, <3>2, <3>3 DEF SteerMoves
  <2>2. CASE ~(c \in SteersDone' /\ c \notin SteersDone)
    <3>1. SteersDone' = SteersDone
      BY <1>3, <2>2
    <3> QED  BY <1>1, <3>1 DEF SteerMoves
  <2> QED  BY <2>1, <2>2
<1> QED  BY <1>5, <1>6 DEF SteerStep

\* A call moves and the rows are saved, or not: what was certain stays certain.
LEMMA SteerRecorded ==
  ASSUME SteerInv, NEW c \in SteerCalls, SteerOthers(c), NEW rows \in SteerRows,
         SteerSaved(rows) \/ SteerUnsaved(rows),
         UNCHANGED <<steerPolicy, steerFlying, steerTaken>>, steerTail' \in Seq(SteerCalls),
         SteerCallOK(c)', SteerLine',
         rows.receipt = "none" \/ steerFile'.receipt = "none" => ~SteerEngaged(c)',
         rows.receipt = "none" => \A d \in SteerCalls : d # c => ~SteerEngaged(d),
         rows.receipt = "accepted" => SteersDone # {},
         SteerEngaged(c)' => SteerEngaged(c) \/ steerFile.receipt = "none",
         steerPolicy = "ask" /\ SteerClaimed(c)' => SteerClaimed(c) \/ steerFile.choice # "submitted",
         steerFile.receipt = "accepted" => rows.receipt = "accepted",
         steerFile.choice = "cancelled" => rows.choice = "cancelled",
         steerMem.choice = "submitted" /\ steerFile.choice = "submitted" => rows.choice = "submitted",
         steerPolicy = "steer" => rows.choice = "none"
  PROVE  SteerStep
<1>1. /\ steerMem' \in SteerRows /\ steerFile' \in SteerRows
      /\ steerUsable' \in BOOLEAN /\ steerFaults' \in Nat
      /\ steerFile' \in {steerFile, rows} /\ steerMem' \in {steerFile', rows}
  BY SteerSaves DEF SteerInv
<1>2. steerUsable' => steerMem' = steerFile'
  BY SteerSaves DEF SteerInv
<1>3. SteersDone' = SteersDone
  <2>1. \A d \in SteerCalls : steerCall'[d].way = steerCall[d].way
    BY DEF SteerOthers
  <2>2. steerTaken' = steerTaken /\ steerTaken \subseteq SteerCalls
    BY DEF SteerInv, SteerTypeOK
  <2> QED  BY <2>1, <2>2 DEF SteersDone
<1>4. ASSUME NEW d \in SteerCalls, d # c PROVE SteerEngaged(d)' <=> SteerEngaged(d)
  BY <1>3, <1>4 DEF SteerOthers, SteerEngaged, SteerActive
<1>5. SteerRowsOK'
  <2>1. steerFile'.receipt = "none" => \A d \in SteerCalls : ~SteerEngaged(d)'
    BY <1>1, <1>4 DEF SteerInv, SteerRowsOK
  <2>2. steerFile'.receipt = "accepted" => SteersDone' # {}
    BY <1>1, <1>3 DEF SteerInv, SteerRowsOK
  <2> QED  BY <1>1, <1>2, <2>1, <2>2 DEF SteerInv, SteerRowsOK
<1>6. SteerInv'
  <2>1. /\ steerFile.receipt = "accepted" => steerFile'.receipt = "accepted"
        /\ steerFile.choice = "cancelled" => steerFile'.choice = "cancelled"
        /\ steerMem.choice = "submitted" /\ steerFile.choice = "submitted" =>
             steerMem'.choice = "submitted" /\ steerFile'.choice = "submitted"
    BY <1>1
  <2>2. steerFlying' \subseteq SteerCalls /\ steerTaken' \subseteq SteerCalls
    BY DEF SteerInv, SteerTypeOK
  <2> QED  BY <1>1, <1>5, <2>1, <2>2, SteerCallMoves
<1>7. SteerMoves
  BY <1>1, <1>3 DEF SteerMoves
<1> QED  BY <1>6, <1>7 DEF SteerStep

-----------------------------------------------------------------------------
\* Call c moves alone; its request and its message are where they were.
LEMMA SteerAlone ==
  ASSUME SteerInv, NEW c \in SteerCalls, NEW place \in SteerPlaces, NEW answer \in SteerTold,
         SteerPut(c, place, answer), UNCHANGED <<steerFlying, steerTaken>>
  PROVE  /\ SteerOthers(c)
         /\ steerCall'[c].at = place /\ steerCall'[c].told = answer
         /\ steerCall'[c].way = steerCall[c].way
         /\ (c \in steerFlying' <=> c \in steerFlying) /\ (c \in steerTaken' <=> c \in steerTaken)
         /\ (c \in SteersDone' <=> c \in SteersDone)
         /\ SteerActive(c)' <=> place \in {"sending", "answered", "unsent", "doubt"}
<1>1. /\ steerCall' \in [SteerCalls -> SteerCall]
      /\ steerCall'[c].way = steerCall[c].way
      /\ steerCall'[c].at = place /\ steerCall'[c].told = answer
      /\ \A d \in SteerCalls : d # c => steerCall'[d] = steerCall[d]
  BY SteerPutEffect DEF SteerInv
<1>2. SteerOthers(c)
  BY <1>1 DEF SteerOthers
<1> QED  BY <1>1, <1>2 DEF SteerActive, SteersDone

\* The queue of the thread is as it was, and c is submitting only at its head.
LEMMA SteerLineKept ==
  ASSUME SteerInv, NEW c \in SteerCalls, SteerOthers(c), steerTail' = steerTail,
         SteerActive(c)' => SteerAtWork(c)
  PROVE  SteerLine' /\ steerTail' \in Seq(SteerCalls)
<1>1. \A d \in SteerCalls : SteerActive(d)' => SteerAtWork(d)
  BY DEF SteerInv, SteerLine, SteerOthers, SteerActive
<1> QED  BY <1>1 DEF SteerInv, SteerTypeOK, SteerLine, SteerAtWork

\* The call at the head leaves: none is submitting any more.
LEMMA SteerLineLeft ==
  ASSUME SteerInv, NEW c \in SteerCalls, SteerAtWork(c), NEW answer \in SteerTold,
         SteerLeaves(c, answer), UNCHANGED <<steerFlying, steerTaken>>
  PROVE  /\ SteerLine' /\ steerTail' \in Seq(SteerCalls)
         /\ SteerPut(c, "ended", answer)
<1>1. SteerPut(c, "ended", answer) /\ steerTail' = Tail(steerTail) /\ steerTail # <<>>
  BY DEF SteerLeaves, SteerAtWork
<1>2. steerTail' \in Seq(SteerCalls)
  BY <1>1 DEF SteerInv, SteerTypeOK
<1>3. SteerOthers(c) /\ ~SteerActive(c)'
  BY <1>1, SteerAlone DEF SteerPlaces
<1>4. \A d \in SteerCalls : ~SteerActive(d)'
  <2>1. ASSUME NEW d \in SteerCalls, d # c, SteerActive(d)' PROVE FALSE
    <3>1. SteerActive(d)
      BY <1>3, <2>1 DEF SteerOthers, SteerActive
    <3> QED  BY <2>1, <3>1 DEF SteerInv, SteerLine, SteerAtWork
  <2> QED  BY <1>3, <2>1
<1> QED  BY <1>1, <1>2, <1>4 DEF SteerLine

LEMMA SteerQuiet ==
  ASSUME SteerInv, NEW c \in SteerCalls, NEW answer \in SteerTold,
         SteerPut(c, "ended", answer), SteerUnchanged,
         UNCHANGED <<steerPolicy, steerFlying, steerTaken>>,
         SteerLine', steerTail' \in Seq(SteerCalls),
         answer = "accepted" => steerFile.receipt = "accepted",
         answer \in {"unsent", "cancelled", "used"} => c \notin steerFlying \cup steerTaken,
         answer # "cancelled"
  PROVE  SteerStep
<1>1. /\ SteerOthers(c)
      /\ steerCall'[c].at = "ended" /\ steerCall'[c].told = answer
      /\ steerCall'[c].way = steerCall[c].way
      /\ (c \in steerFlying' <=> c \in steerFlying) /\ (c \in steerTaken' <=> c \in steerTaken)
      /\ (c \in SteersDone' <=> c \in SteersDone)
      /\ ~SteerActive(c)'
  BY SteerAlone DEF SteerPlaces
<1>2. (SteerEngaged(c)' => SteerEngaged(c)) /\ (SteerClaimed(c)' => SteerClaimed(c))
  BY <1>1 DEF SteerEngaged, SteerClaimed
<1>3. SteerCallOK(c)'
  BY <1>1, <1>2 DEF SteerInv, SteerCallOK, SteerUnchanged
<1>4. steerFlying' \subseteq SteerCalls /\ steerTaken' \subseteq SteerCalls
  BY DEF SteerInv, SteerTypeOK
<1> QED  BY <1>1, <1>2, <1>3, <1>4, SteerUnrecorded

LEMMA SteerDeclinesStep ==
  ASSUME SteerInv, NEW c \in SteerCalls, SteerDeclines(c)
  PROVE  SteerStep
<1>1. /\ SteerPut(c, "ended", "unsent") /\ SteerUnchanged /\ steerCall[c].at = "claimed"
      /\ UNCHANGED <<steerPolicy, steerFlying, steerTaken, steerTail>>
  BY DEF SteerDeclines
<1>2. SteerOthers(c) /\ ~SteerActive(c)'
  BY <1>1, SteerAlone DEF SteerPlaces, SteerTold
<1>3. SteerLine' /\ steerTail' \in Seq(SteerCalls)
  BY <1>1, <1>2, SteerLineKept
<1>4. c \notin steerFlying \cup steerTaken
  BY <1>1 DEF SteerInv, SteerCallOK
<1> QED  BY <1>1, <1>3, <1>4, SteerQuiet DEF SteerTold

LEMMA SteerQueuesStep ==
  ASSUME SteerInv, NEW c \in SteerCalls, SteerQueues(c)
  PROVE  SteerStep
<1>1. /\ SteerUnchanged /\ steerCall[c].at = "claimed" /\ steerCall[c].way = "queue"
      /\ UNCHANGED <<steerPolicy, steerFlying, steerTail>>
      /\ steerTaken' \in {steerTaken, steerTaken \cup {c}}
  BY DEF SteerQueues
<1>2. PICK answer \in {"queued", "unknown"} : SteerPut(c, "ended", answer)
  BY DEF SteerQueues
<1>3. /\ steerCall' \in [SteerCalls -> SteerCall]
      /\ steerCall'[c].way = steerCall[c].way
      /\ steerCall'[c].at = "ended" /\ steerCall'[c].told = answer
      /\ \A d \in SteerCalls : d # c => steerCall'[d] = steerCall[d]
  BY <1>2, SteerPutEffect DEF SteerInv, SteerPlaces, SteerTold
<1>4. SteerOthers(c)
  BY <1>1, <1>3 DEF SteerOthers
<1>5. SteerLine' /\ steerTail' \in Seq(SteerCalls)
  BY <1>1, <1>3, <1>4, SteerLineKept DEF SteerActive
<1>6. c \notin steerFlying' /\ SteerClaimed(c) /\ ~SteerActive(c)'
  BY <1>1, <1>3 DEF SteerInv, SteerCallOK, SteerClaimed, SteerActive
<1>7. ~SteerEngaged(c)'
  BY <1>1, <1>3, <1>6 DEF SteerEngaged, SteersDone
<1>8. SteerCallOK(c)'
  BY <1>1, <1>3, <1>6 DEF SteerInv, SteerCallOK, SteerUnchanged
<1>9. steerFlying' \subseteq SteerCalls /\ steerTaken' \subseteq SteerCalls /\ steerTaken \subseteq steerTaken'
  BY <1>1 DEF SteerInv, SteerTypeOK
<1> QED  BY <1>1, <1>4, <1>5, <1>6, <1>7, <1>8, <1>9, SteerUnrecorded

LEMMA SteerSubmitsStep ==
  ASSUME SteerInv, NEW c \in SteerCalls, SteerSubmits(c)
  PROVE  SteerStep
<1>1. /\ SteerUnchanged /\ steerCall[c].way = "steer" /\ SteerPut(c, "waiting", "none")
      /\ steerCall[c].at = IF steerPolicy = "ask" THEN "claimed" ELSE "idle"
      /\ steerTail' = Append(steerTail, c)
      /\ UNCHANGED <<steerPolicy, steerFlying, steerTaken>>
  BY DEF SteerSubmits
<1>2. /\ SteerOthers(c)
      /\ steerCall'[c].at = "waiting" /\ steerCall'[c].told = "none"
      /\ steerCall'[c].way = "steer" /\ ~SteerActive(c)'
  BY <1>1, SteerAlone DEF SteerPlaces, SteerTold
<1>3. c \notin steerFlying' \cup steerTaken'
  BY <1>1 DEF SteerInv, SteerCallOK
<1>4. steerTail' \in Seq(SteerCalls)
  BY <1>1 DEF SteerInv, SteerTypeOK
<1>5. SteerLine'
  <2>1. ASSUME NEW d \in SteerCalls, SteerActive(d)' PROVE SteerAtWork(d)'
    <3>1. SteerActive(d)
      BY <1>2, <2>1 DEF SteerOthers, SteerActive
    <3>2. steerTail # <<>> /\ Head(steerTail) = d
      BY <3>1 DEF SteerInv, SteerLine, SteerAtWork
    <3>3. steerTail' # <<>> /\ Head(steerTail') = d
      BY <1>1, <3>2 DEF SteerInv, SteerTypeOK
    <3> QED  BY <3>3 DEF SteerAtWork
  <2> QED  BY <2>1 DEF SteerLine
<1>6. steerPolicy = "ask" => SteerClaimed(c)
  BY <1>1 DEF SteerClaimed
<1>7. SteerCallOK(c)'
  BY <1>1, <1>2, <1>3, <1>6 DEF SteerInv, SteerCallOK, SteerUnchanged
<1>8. ~SteerEngaged(c)'
  BY <1>2, <1>3 DEF SteerEngaged, SteersDone
<1>9. steerFlying' \subseteq SteerCalls /\ steerTaken' \subseteq SteerCalls /\ steerTaken \subseteq steerTaken'
  BY <1>1 DEF SteerInv, SteerTypeOK
<1> QED  BY <1>1, <1>2, <1>4, <1>5, <1>6, <1>7, <1>8, <1>9, SteerUnrecorded

LEMMA SteerActsStep ==
  ASSUME SteerInv, NEW c \in SteerCalls, SteerActs(c)
  PROVE  SteerStep
<1>1. /\ SteerUnchanged /\ steerCall[c].at = "sending"
      /\ UNCHANGED <<steerPolicy, steerTail>>
      /\ steerTaken' \in {steerTaken, steerTaken \cup {c}}
      /\ steerFlying' \in {steerFlying, steerFlying \cup {c}}
  BY DEF SteerActs
<1>2. PICK place \in {"answered", "unsent", "doubt"} :
        /\ SteerPut(c, place, "none")
        /\ place = "answered" <=> c \in steerTaken'
        /\ c \in steerFlying' => place = "doubt"
  <2>1. c \notin steerFlying /\ c \notin steerTaken
    BY <1>1 DEF SteerInv, SteerCallOK
  <2> QED  BY <2>1 DEF SteerActs
<1>3. /\ steerCall' \in [SteerCalls -> SteerCall]
      /\ steerCall'[c].way = steerCall[c].way
      /\ steerCall'[c].at = place /\ steerCall'[c].told = "none"
      /\ \A d \in SteerCalls : d # c => steerCall'[d] = steerCall[d]
  BY <1>2, SteerPutEffect DEF SteerInv, SteerPlaces, SteerTold
<1>4. SteerOthers(c)
  BY <1>1, <1>3 DEF SteerOthers
<1>5. SteerActive(c) /\ SteerEngaged(c) /\ SteerClaimed(c)
  BY <1>1 DEF SteerActive, SteerEngaged, SteerClaimed
<1>6. SteerLine' /\ steerTail' \in Seq(SteerCalls)
  BY <1>1, <1>4, <1>5, SteerLineKept DEF SteerInv, SteerLine
<1>7. SteerCallOK(c)'
  BY <1>1, <1>2, <1>3, <1>5 DEF SteerInv, SteerCallOK, SteerUnchanged
<1>8. steerFlying' \subseteq SteerCalls /\ steerTaken' \subseteq SteerCalls /\ steerTaken \subseteq steerTaken'
  BY <1>1 DEF SteerInv, SteerTypeOK
<1> QED  BY <1>1, <1>4, <1>5, <1>6, <1>7, <1>8, SteerUnrecorded

LEMMA SteerLandsStep ==
  ASSUME SteerInv, NEW c \in SteerCalls, SteerLands(c)
  PROVE  SteerStep
<1>1. /\ SteerUnchanged /\ c \in steerFlying
      /\ UNCHANGED <<steerPolicy, steerTail, steerCall>>
      /\ steerTaken' = steerTaken \cup {c} /\ steerFlying' = steerFlying \ {c}
  BY DEF SteerLands
<1>2. SteerOthers(c)
  BY <1>1 DEF SteerInv, SteerTypeOK, SteerOthers
<1>3. SteerEngaged(c) /\ SteerClaimed(c) /\ (SteerActive(c)' => SteerActive(c))
  BY <1>1 DEF SteerActive, SteerEngaged, SteerClaimed
<1>4. SteerLine' /\ steerTail' \in Seq(SteerCalls)
  BY <1>1, <1>2, <1>3, SteerLineKept DEF SteerInv, SteerLine
<1>5. SteerCallOK(c)'
  BY <1>1, <1>3 DEF SteerInv, SteerCallOK, SteerUnchanged, SteerActive
<1>6. steerFlying' \subseteq SteerCalls /\ steerTaken' \subseteq SteerCalls /\ steerTaken \subseteq steerTaken'
  BY <1>1 DEF SteerInv, SteerTypeOK
<1> QED  BY <1>1, <1>2, <1>3, <1>4, <1>5, <1>6, SteerUnrecorded

LEMMA SteerAcceptsStep ==
  ASSUME SteerInv, NEW c \in SteerCalls, SteerAccepts(c)
  PROVE  SteerStep
<1> DEFINE rows == [steerMem EXCEPT !.receipt = "accepted"]
<1>1. /\ steerCall[c].at = "answered"
      /\ UNCHANGED <<steerPolicy, steerFlying, steerTaken>>
      /\ \/ SteerSaved(rows) /\ SteerLeaves(c, "accepted")
         \/ SteerUnsaved(rows) /\ SteerPut(c, "doubt", "none") /\ UNCHANGED steerTail
  BY DEF SteerAccepts
<1>2. rows \in SteerRows /\ rows.receipt = "accepted" /\ rows.choice = steerMem.choice
  BY DEF SteerInv, SteerTypeOK, SteerRows
<1> HIDE DEF rows
<1>3. /\ SteerActive(c) /\ SteerEngaged(c) /\ SteerClaimed(c) /\ SteerAtWork(c) /\ c \in SteersDone
      /\ c \in steerTaken
  BY <1>1
     DEF SteerInv, SteerCallOK, SteerLine, SteerActive, SteerEngaged, SteerClaimed, SteersDone
<1>4. steerPolicy = "ask" => steerMem.choice = "submitted" /\ steerFile.choice = "submitted"
  BY <1>3 DEF SteerInv, SteerCallOK
<1>5. steerPolicy = "steer" => steerMem.choice = "none" /\ steerFile.choice = "none"
  BY DEF SteerInv, SteerRowsOK
<1>6. steerPolicy \in {"ask", "steer"} /\ \A d \in SteerCalls : d # c => ~SteerEngaged(d)
  BY <1>3 DEF SteerInv, SteerOne, SteerTypeOK
<1>7. ASSUME SteerOthers(c), SteerLine', steerTail' \in Seq(SteerCalls), SteerCallOK(c)',
             SteerSaved(rows) \/ SteerUnsaved(rows)
      PROVE  SteerStep
  <2>1. steerFile' \in {steerFile, rows}
    BY <1>2, <1>7, SteerSaves DEF SteerInv
  <2>2. steerFile'.receipt # "none"
    BY <1>2, <1>3, <2>1 DEF SteerInv, SteerRowsOK
  <2>3. /\ rows.receipt = "none" \/ steerFile'.receipt = "none" => ~SteerEngaged(c)'
        /\ rows.receipt = "none" => \A d \in SteerCalls : d # c => ~SteerEngaged(d)
        /\ rows.receipt = "accepted" => SteersDone # {}
        /\ SteerEngaged(c)' => SteerEngaged(c) \/ steerFile.receipt = "none"
        /\ steerPolicy = "ask" /\ SteerClaimed(c)' => SteerClaimed(c) \/ steerFile.choice # "submitted"
        /\ steerFile.receipt = "accepted" => rows.receipt = "accepted"
    BY <1>2, <1>3, <1>6, <2>2
  <2>4. /\ steerFile.choice = "cancelled" => rows.choice = "cancelled"
        /\ steerMem.choice = "submitted" /\ steerFile.choice = "submitted" => rows.choice = "submitted"
        /\ steerPolicy = "steer" => rows.choice = "none"
    BY <1>2, <1>4, <1>5, <1>6
  <2> QED  BY <1>1, <1>2, <1>7, <2>3, <2>4, SteerRecorded
<1>8. CASE SteerSaved(rows) /\ SteerLeaves(c, "accepted")
  <2>1. SteerLine' /\ steerTail' \in Seq(SteerCalls) /\ SteerPut(c, "ended", "accepted")
    BY <1>1, <1>3, <1>8, SteerLineLeft DEF SteerTold
  <2>2. /\ SteerOthers(c)
        /\ steerCall'[c].at = "ended" /\ steerCall'[c].told = "accepted"
        /\ steerCall'[c].way = steerCall[c].way /\ ~SteerActive(c)'
    BY <1>1, <2>1, SteerAlone DEF SteerPlaces, SteerTold
  <2>3. steerMem' = rows /\ steerFile' = rows
    BY <1>8 DEF SteerSaved
  <2>4. SteerCallOK(c)'
    BY <1>1, <1>2, <1>3, <1>4, <2>2, <2>3 DEF SteerInv, SteerCallOK
  <2> QED  BY <1>7, <1>8, <2>1, <2>2, <2>4
<1>9. CASE SteerUnsaved(rows) /\ SteerPut(c, "doubt", "none") /\ UNCHANGED steerTail
  <2>1. /\ SteerOthers(c)
        /\ steerCall'[c].at = "doubt" /\ steerCall'[c].told = "none"
        /\ steerCall'[c].way = steerCall[c].way
    BY <1>1, <1>9, SteerAlone DEF SteerPlaces, SteerTold
  <2>2. SteerLine' /\ steerTail' \in Seq(SteerCalls)
    BY <1>3, <1>9, <2>1, SteerLineKept
  <2>3. steerFile' \in {steerFile, rows} /\ steerMem' \in {steerFile', rows}
    BY <1>2, <1>9, SteerSaves DEF SteerInv
  <2>4. SteerCallOK(c)'
    BY <1>1, <1>2, <1>3, <1>4, <2>1, <2>3 DEF SteerInv, SteerCallOK
  <2> QED  BY <1>7, <1>9, <2>1, <2>2, <2>4
<1> QED  BY <1>1, <1>8, <1>9

LEMMA SteerBeginsStep ==
  ASSUME SteerInv, NEW c \in SteerCalls, SteerBegins(c)
  PROVE  SteerStep
<1> DEFINE rows == [steerMem EXCEPT !.receipt = "sending"]
<1>1. /\ steerCall[c].at = "waiting" /\ SteerAtWork(c)
      /\ UNCHANGED <<steerPolicy, steerFlying, steerTaken>>
      /\ \/ SteerLeaves(c, "error") /\ SteerUnchanged
         \/ steerUsable /\ steerMem.receipt = "accepted" /\ SteerLeaves(c, "accepted") /\ SteerUnchanged
         \/ SteerLeaves(c, "unknown") /\ SteerUnchanged
         \/ /\ steerUsable /\ steerMem.receipt = "none"
            /\ \/ SteerSaved(rows) /\ SteerPut(c, "sending", "none") /\ UNCHANGED steerTail
               \/ SteerUnsaved(rows) /\ SteerLeaves(c, "error")
  BY DEF SteerBegins
<1>2. rows \in SteerRows /\ rows.receipt = "sending" /\ rows.choice = steerMem.choice
  BY DEF SteerInv, SteerTypeOK, SteerRows
<1> HIDE DEF rows
<1>3. SteerClaimed(c) /\ c \notin steerFlying \cup steerTaken /\ steerCall[c].way = "steer"
  BY <1>1 DEF SteerInv, SteerCallOK, SteerClaimed
<1>4. ASSUME NEW answer \in {"error", "accepted", "unknown"}, SteerLeaves(c, answer), SteerUnchanged,
             answer = "accepted" => steerFile.receipt = "accepted"
      PROVE  SteerStep
  <2>1. SteerLine' /\ steerTail' \in Seq(SteerCalls) /\ SteerPut(c, "ended", answer)
    BY <1>1, <1>4, SteerLineLeft DEF SteerTold
  <2> QED  BY <1>1, <1>4, <2>1, SteerQuiet DEF SteerTold
<1>5. CASE steerUsable /\ steerMem.receipt = "accepted" /\ SteerLeaves(c, "accepted") /\ SteerUnchanged
  <2>1. steerFile.receipt = "accepted"
    BY <1>5 DEF SteerInv, SteerRowsOK
  <2> QED  BY <1>4, <1>5, <2>1
<1>6. CASE steerUsable /\ steerMem.receipt = "none" /\ (SteerSaved(rows) \/ SteerUnsaved(rows))
  <2>1. steerMem = steerFile /\ steerFile.receipt = "none" /\ rows.choice = steerFile.choice
    BY <1>2, <1>6 DEF SteerInv, SteerRowsOK
  <2>2. steerPolicy = "ask" => steerMem.choice = "submitted" /\ steerFile.choice = "submitted"
    BY <1>3 DEF SteerInv, SteerCallOK
  <2>3. steerPolicy = "steer" => steerFile.choice = "none"
    BY DEF SteerInv, SteerRowsOK
  <2>4. steerFile' \in {steerFile, rows} /\ steerMem' \in {steerFile', rows}
    BY <1>2, <1>6, SteerSaves DEF SteerInv
  <2>5. ASSUME SteerOthers(c), SteerLine', steerTail' \in Seq(SteerCalls), SteerCallOK(c)',
               SteerEngaged(c)' => steerFile'.receipt # "none"
        PROVE  SteerStep
    <3>1. /\ rows.receipt = "none" \/ steerFile'.receipt = "none" => ~SteerEngaged(c)'
          /\ rows.receipt = "none" => \A d \in SteerCalls : d # c => ~SteerEngaged(d)
          /\ rows.receipt = "accepted" => SteersDone # {}
          /\ SteerEngaged(c)' => SteerEngaged(c) \/ steerFile.receipt = "none"
          /\ steerPolicy = "ask" /\ SteerClaimed(c)' => SteerClaimed(c) \/ steerFile.choice # "submitted"
          /\ steerFile.receipt = "accepted" => rows.receipt = "accepted"
          /\ steerFile.choice = "cancelled" => rows.choice = "cancelled"
          /\ steerMem.choice = "submitted" /\ steerFile.choice = "submitted" => rows.choice = "submitted"
          /\ steerPolicy = "steer" => rows.choice = "none"
      BY <1>2, <1>3, <2>1, <2>3, <2>5
    <3> QED  BY <1>1, <1>2, <1>6, <2>5, <3>1, SteerRecorded
  <2>6. CASE SteerSaved(rows) /\ SteerPut(c, "sending", "none") /\ UNCHANGED steerTail
    <3>1. /\ SteerOthers(c)
          /\ steerCall'[c].at = "sending" /\ steerCall'[c].told = "none"
          /\ steerCall'[c].way = steerCall[c].way
      BY <1>1, <2>6, SteerAlone DEF SteerPlaces, SteerTold
    <3>2. SteerLine' /\ steerTail' \in Seq(SteerCalls)
      BY <1>1, <2>6, <3>1, SteerLineKept
    <3>3. SteerCallOK(c)'
      BY <1>1, <1>2, <1>3, <2>1, <2>2, <2>4, <3>1 DEF SteerInv, SteerCallOK
    <3>4. steerFile'.receipt # "none"
      BY <1>2, <2>6 DEF SteerSaved
    <3> QED  BY <2>5, <3>1, <3>2, <3>3, <3>4
  <2>7. CASE SteerUnsaved(rows) /\ SteerLeaves(c, "error")
    <3>1. SteerLine' /\ steerTail' \in Seq(SteerCalls) /\ SteerPut(c, "ended", "error")
      BY <1>1, <2>7, SteerLineLeft DEF SteerTold
    <3>2. /\ SteerOthers(c)
          /\ steerCall'[c].at = "ended" /\ steerCall'[c].told = "error"
          /\ steerCall'[c].way = steerCall[c].way /\ ~SteerActive(c)'
          /\ (c \in steerFlying' <=> c \in steerFlying) /\ (c \in steerTaken' <=> c \in steerTaken)
          /\ (c \in SteersDone' <=> c \in SteersDone)
      BY <1>1, <3>1, SteerAlone DEF SteerPlaces, SteerTold
    <3>3. ~SteerEngaged(c)'
      BY <1>3, <3>2 DEF SteerEngaged, SteersDone
    <3>4. SteerCallOK(c)'
      BY <1>1, <1>2, <1>3, <2>1, <2>2, <2>4, <3>2 DEF SteerInv, SteerCallOK
    <3> QED  BY <2>5, <3>1, <3>2, <3>3, <3>4
  <2> QED  BY <1>1, <1>4, <1>5, <2>6, <2>7
<1> QED  BY <1>1, <1>4, <1>5, <1>6

LEMMA SteerCatchesStep ==
  ASSUME SteerInv, NEW c \in SteerCalls, SteerCatches(c)
  PROVE  SteerStep
<1> DEFINE unsent == steerCall[c].at = "unsent"
           rows == [steerMem EXCEPT !.receipt = IF unsent THEN "none" ELSE "uncertain"]
           answer == IF unsent THEN "unsent" ELSE "unknown"
<1>1. /\ steerCall[c].at \in {"unsent", "doubt"}
      /\ UNCHANGED <<steerPolicy, steerFlying, steerTaken>>
      /\ \/ SteerLeaves(c, "error") /\ SteerUnchanged
         \/ /\ steerUsable /\ steerMem.receipt # "accepted"
            /\ \/ SteerSaved(rows) /\ SteerLeaves(c, answer)
               \/ SteerUnsaved(rows) /\ SteerLeaves(c, "error")
  BY DEF SteerCatches
<1>2. /\ rows \in SteerRows /\ rows.choice = steerMem.choice
      /\ rows.receipt = IF unsent THEN "none" ELSE "uncertain"
  BY DEF SteerInv, SteerTypeOK, SteerRows
<1>3. answer = (IF unsent THEN "unsent" ELSE "unknown") /\ answer \in {"unsent", "unknown"}
  OBVIOUS
<1>4. /\ SteerActive(c) /\ SteerEngaged(c) /\ SteerClaimed(c) /\ SteerAtWork(c)
      /\ unsent => c \notin steerFlying \cup steerTaken
      /\ steerCall[c].way = "steer"
  BY <1>1 DEF SteerInv, SteerCallOK, SteerLine, SteerActive, SteerEngaged, SteerClaimed
<1> HIDE DEF rows, answer
<1>5. \A d \in SteerCalls : d # c => ~SteerEngaged(d)
  BY <1>4 DEF SteerInv, SteerOne
<1>6. CASE SteerLeaves(c, "error") /\ SteerUnchanged
  <2>1. SteerLine' /\ steerTail' \in Seq(SteerCalls) /\ SteerPut(c, "ended", "error")
    BY <1>1, <1>4, <1>6, SteerLineLeft DEF SteerTold
  <2> QED  BY <1>1, <1>6, <2>1, SteerQuiet DEF SteerTold
<1>7. CASE /\ steerUsable /\ steerMem.receipt # "accepted"
           /\ \/ SteerSaved(rows) /\ SteerLeaves(c, answer)
              \/ SteerUnsaved(rows) /\ SteerLeaves(c, "error")
  <2>1. steerMem = steerFile /\ rows.choice = steerFile.choice
    BY <1>2, <1>7 DEF SteerInv, SteerRowsOK
  <2>2. PICK word \in {answer, "error"} : SteerLeaves(c, word)
    BY <1>7
  <2>3. SteerLine' /\ steerTail' \in Seq(SteerCalls) /\ SteerPut(c, "ended", word)
    BY <1>1, <1>3, <1>4, <2>2, SteerLineLeft DEF SteerTold
  <2>4. /\ SteerOthers(c)
        /\ steerCall'[c].at = "ended" /\ steerCall'[c].told = word
        /\ steerCall'[c].way = steerCall[c].way /\ ~SteerActive(c)'
        /\ (c \in steerFlying' <=> c \in steerFlying) /\ (c \in steerTaken' <=> c \in steerTaken)
        /\ (c \in SteersDone' <=> c \in SteersDone)
    BY <1>1, <1>3, <2>3, SteerAlone DEF SteerPlaces, SteerTold
  <2>5. steerFile' \in {steerFile, rows} /\ steerMem' \in {steerFile', rows}
    BY <1>2, <1>7, SteerSaves DEF SteerInv
  <2>6. /\ steerPolicy = "ask" => steerMem.choice = "submitted" /\ steerFile.choice = "submitted"
        /\ steerPolicy = "steer" => steerFile.choice = "none"
        /\ steerFile.receipt # "none"
    BY <1>4 DEF SteerInv, SteerCallOK, SteerRowsOK
  <2>7. unsent => ~SteerEngaged(c)'
    BY <1>4, <2>4 DEF SteerEngaged, SteersDone
  <2>8. SteerCallOK(c)'
    BY <1>1, <1>2, <1>3, <1>4, <2>1, <2>4, <2>5, <2>6 DEF SteerInv, SteerCallOK
  <2>9. /\ rows.receipt = "none" \/ steerFile'.receipt = "none" => ~SteerEngaged(c)'
        /\ rows.receipt = "none" => \A d \in SteerCalls : d # c => ~SteerEngaged(d)
        /\ rows.receipt = "accepted" => SteersDone # {}
        /\ SteerEngaged(c)' => SteerEngaged(c) \/ steerFile.receipt = "none"
        /\ steerPolicy = "ask" /\ SteerClaimed(c)' => SteerClaimed(c) \/ steerFile.choice # "submitted"
    BY <1>2, <1>4, <1>5, <2>5, <2>6, <2>7
  <2>10. /\ steerFile.receipt = "accepted" => rows.receipt = "accepted"
         /\ steerFile.choice = "cancelled" => rows.choice = "cancelled"
         /\ steerMem.choice = "submitted" /\ steerFile.choice = "submitted" => rows.choice = "submitted"
         /\ steerPolicy = "steer" => rows.choice = "none"
    BY <1>2, <1>7, <2>1, <2>6
  <2>11. SteerSaved(rows) \/ SteerUnsaved(rows)
    BY <1>7
  <2> QED  BY <1>1, <1>2, <2>3, <2>4, <2>8, <2>9, <2>10, <2>11, SteerRecorded
<1> QED  BY <1>1, <1>6, <1>7

LEMMA SteerClaimStep ==
  ASSUME SteerInv, NEW c \in SteerCalls, SteerClaim(c)
  PROVE  SteerStep
<1> DEFINE way == steerCall[c].way
           rows == [steerMem EXCEPT !.choice = IF way = "cancel" THEN "cancelled" ELSE "submitted"]
<1>1. /\ steerPolicy = "ask" /\ steerCall[c].at = "idle"
      /\ UNCHANGED <<steerPolicy, steerTail, steerFlying, steerTaken>>
      /\ \/ SteerPut(c, "ended", "error") /\ SteerUnchanged
         \/ SteerPut(c, "ended", "used") /\ SteerUnchanged
         \/ /\ steerUsable /\ steerMem.choice = "pending"
            /\ \/ SteerSaved(rows) /\ way = "cancel" /\ SteerPut(c, "ended", "cancelled")
               \/ SteerSaved(rows) /\ way # "cancel" /\ SteerPut(c, "claimed", "none")
               \/ SteerUnsaved(rows) /\ SteerPut(c, "ended", "error")
  BY DEF SteerClaim
<1>2. /\ rows \in SteerRows /\ rows.receipt = steerMem.receipt
      /\ rows.choice = IF way = "cancel" THEN "cancelled" ELSE "submitted"
  BY DEF SteerInv, SteerTypeOK, SteerRows
<1> HIDE DEF rows
<1>3. c \notin steerFlying \cup steerTaken
  BY <1>1 DEF SteerInv, SteerCallOK
<1>4. ASSUME NEW answer \in {"error", "used"}, SteerPut(c, "ended", answer), SteerUnchanged
      PROVE  SteerStep
  <2>1. SteerOthers(c) /\ ~SteerActive(c)'
    BY <1>1, <1>4, SteerAlone DEF SteerPlaces, SteerTold
  <2>2. SteerLine' /\ steerTail' \in Seq(SteerCalls)
    BY <1>1, <2>1, SteerLineKept
  <2> QED  BY <1>1, <1>3, <1>4, <2>2, SteerQuiet DEF SteerTold
<1>5. CASE /\ steerUsable /\ steerMem.choice = "pending"
           /\ \/ SteerSaved(rows) /\ way = "cancel" /\ SteerPut(c, "ended", "cancelled")
              \/ SteerSaved(rows) /\ way # "cancel" /\ SteerPut(c, "claimed", "none")
              \/ SteerUnsaved(rows) /\ SteerPut(c, "ended", "error")
  <2>1. steerMem = steerFile /\ rows.receipt = steerFile.receipt /\ steerFile.choice = "pending"
    BY <1>2, <1>5 DEF SteerInv, SteerRowsOK
  <2>2. PICK place \in {"ended", "claimed"}, word \in {"cancelled", "none", "error"} :
          /\ SteerPut(c, place, word)
          /\ word # "none" <=> place = "ended"
          /\ word = "cancelled" => SteerSaved(rows) /\ way = "cancel"
          /\ place = "claimed" => SteerSaved(rows) /\ way # "cancel"
    BY <1>5
  <2>3. /\ SteerOthers(c)
        /\ steerCall'[c].at = place /\ steerCall'[c].told = word
        /\ steerCall'[c].way = way /\ ~SteerActive(c)'
        /\ (c \in steerFlying' <=> c \in steerFlying) /\ (c \in steerTaken' <=> c \in steerTaken)
        /\ (c \in SteersDone' <=> c \in SteersDone)
    BY <1>1, <2>2, SteerAlone DEF SteerPlaces, SteerTold
  <2>4. SteerLine' /\ steerTail' \in Seq(SteerCalls)
    BY <1>1, <2>3, SteerLineKept
  <2>5. steerFile' \in {steerFile, rows} /\ steerMem' \in {steerFile', rows}
    BY <1>2, <1>5, SteerSaves DEF SteerInv
  <2>6. SteerSaved(rows) => steerMem' = rows /\ steerFile' = rows
    BY DEF SteerSaved
  <2>7. ~SteerEngaged(c)'
    BY <1>3, <2>3 DEF SteerEngaged, SteersDone
  <2>8. SteerCallOK(c)'
    BY <1>1, <1>2, <1>3, <2>2, <2>3, <2>6 DEF SteerCallOK, SteerClaimed
  <2>9. /\ rows.receipt = "none" => \A d \in SteerCalls : d # c => ~SteerEngaged(d)
        /\ rows.receipt = "accepted" => SteersDone # {}
    BY <2>1 DEF SteerInv, SteerRowsOK
  <2>10. /\ steerPolicy = "ask" /\ SteerClaimed(c)' => SteerClaimed(c) \/ steerFile.choice # "submitted"
         /\ steerFile.receipt = "accepted" => rows.receipt = "accepted"
         /\ steerFile.choice = "cancelled" => rows.choice = "cancelled"
         /\ steerMem.choice = "submitted" /\ steerFile.choice = "submitted" => rows.choice = "submitted"
         /\ steerPolicy = "steer" => rows.choice = "none"
    BY <1>1, <2>1
  <2>11. SteerSaved(rows) \/ SteerUnsaved(rows)
    BY <1>5
  <2> QED  BY <1>1, <1>2, <2>3, <2>4, <2>7, <2>8, <2>9, <2>10, <2>11, SteerRecorded
<1> QED  BY <1>1, <1>4, <1>5

\* No call moves: a card is made, or a row of another message is not saved.
LEMMA SteerStill ==
  ASSUME SteerInv, steerMem' \in SteerRows, steerFile' \in SteerRows, steerUsable' \in BOOLEAN,
         steerFaults' \in Nat,
         UNCHANGED <<steerPolicy, steerCall, steerTail, steerFlying, steerTaken>>,
         steerUsable' => steerMem' = steerFile',
         steerFile'.receipt = steerFile.receipt,
         steerPolicy = "steer" => steerMem'.choice = "none" /\ steerFile'.choice = "none",
         steerFile.choice = "cancelled" => steerFile'.choice = "cancelled",
         steerMem.choice = "submitted" /\ steerFile.choice = "submitted" =>
           steerMem'.choice = "submitted" /\ steerFile'.choice = "submitted"
  PROVE  SteerStep
<1>1. /\ \A c \in SteerCalls : /\ SteerActive(c)' <=> SteerActive(c)
                               /\ SteerEngaged(c)' <=> SteerEngaged(c)
                               /\ SteerClaimed(c)' <=> SteerClaimed(c)
      /\ SteersDone' = SteersDone
  BY DEF SteerActive, SteerEngaged, SteerClaimed, SteersDone
<1>2. SteerTypeOK'
  BY DEF SteerInv, SteerTypeOK
<1>3. SteerRowsOK'
  BY <1>1 DEF SteerInv, SteerRowsOK
<1>4. ASSUME NEW c \in SteerCalls PROVE SteerCallOK(c)'
  <2>1. SteerCallOK(c)
    BY DEF SteerInv
  <2> QED  BY <1>1, <2>1 DEF SteerCallOK
<1>5. SteerOne'
  BY <1>1 DEF SteerInv, SteerOne
<1>6. SteerLine'
  BY <1>1 DEF SteerInv, SteerLine, SteerAtWork
<1>7. SteerMoves
  BY <1>1 DEF SteerMoves
<1> QED  BY <1>2, <1>3, <1>4, <1>5, <1>6, <1>7 DEF SteerInv, SteerStep

LEMMA SteerOfferStep ==
  ASSUME SteerInv, SteerOffer
  PROVE  SteerStep
<1> DEFINE rows == [steerMem EXCEPT !.choice = "pending"]
<1>1. /\ steerPolicy = "ask" /\ steerUsable /\ steerMem.choice = "none"
      /\ SteerSaved(rows) \/ SteerUnsaved(rows)
      /\ UNCHANGED <<steerPolicy, steerCall, steerTail, steerFlying, steerTaken>>
  BY DEF SteerOffer
<1>2. rows \in SteerRows /\ rows.receipt = steerMem.receipt
  BY DEF SteerInv, SteerTypeOK, SteerRows
<1> HIDE DEF rows
<1>3. steerMem = steerFile
  BY <1>1 DEF SteerInv, SteerRowsOK
<1>4. /\ steerMem' \in SteerRows /\ steerFile' \in SteerRows
      /\ steerUsable' \in BOOLEAN /\ steerFaults' \in Nat
      /\ steerFile' \in {steerFile, rows}
      /\ steerUsable' => steerMem' = steerFile'
  BY <1>1, <1>2, SteerSaves DEF SteerInv
<1> QED  BY <1>1, <1>2, <1>3, <1>4, SteerStill

LEMMA SteerElsewhereStep ==
  ASSUME SteerInv, SteerElsewhere
  PROVE  SteerStep
<1>1. /\ steerMem' = steerFile /\ steerFile' = steerFile /\ steerUsable' \in BOOLEAN
      /\ steerUsable /\ steerFaults' = steerFaults + 1
      /\ UNCHANGED <<steerPolicy, steerCall, steerTail, steerFlying, steerTaken>>
  BY DEF SteerElsewhere, SteerFault
<1>2. steerFile \in SteerRows /\ steerFaults' \in Nat
  BY <1>1 DEF SteerInv, SteerTypeOK
<1>3. steerPolicy = "steer" => steerFile.choice = "none"
  BY DEF SteerInv, SteerRowsOK
<1> QED  BY <1>1, <1>2, <1>3, SteerStill

LEMMA SteerRestartStep ==
  ASSUME SteerInv, SteerRestart
  PROVE  SteerStep
<1>1. /\ steerMem' = steerFile /\ steerFile' = steerFile /\ steerUsable' = TRUE
      /\ steerFaults' = steerFaults + 1 /\ steerTail' = <<>>
      /\ steerPolicy' = steerPolicy /\ steerTaken' = steerTaken
      /\ steerFlying' \in {steerFlying, steerFlying \cup {c \in SteerCalls : steerCall[c].at = "sending"}}
  BY DEF SteerRestart, SteerFault
<1>2. ASSUME NEW c \in SteerCalls
      PROVE  /\ steerCall'[c] \in SteerCall
             /\ steerCall'[c].way = steerCall[c].way /\ steerCall'[c].told = steerCall[c].told
             /\ steerCall[c].at = "idle" => steerCall'[c].at = "idle"
             /\ steerCall[c].at # "idle" => steerCall'[c].at = "ended"
  <2>1. steerCall[c] \in SteerCall
    BY DEF SteerInv, SteerTypeOK
  <2>2. steerCall'[c] = IF steerCall[c].at = "idle" THEN steerCall[c] ELSE [steerCall[c] EXCEPT !.at = "ended"]
    BY DEF SteerRestart
  <2> QED  BY <2>1, <2>2 DEF SteerCall, SteerPlaces
<1>3. steerCall' \in [SteerCalls -> SteerCall]
  <2>1. steerCall' = [c \in SteerCalls |-> steerCall'[c]]
    BY DEF SteerRestart
  <2> QED  BY <1>2, <2>1
<1>4. SteerTypeOK'
  BY <1>1, <1>3 DEF SteerInv, SteerTypeOK
<1>5. SteersDone' = SteersDone
  BY <1>1, <1>2 DEF SteersDone, SteerInv, SteerTypeOK
<1>6. ASSUME NEW c \in SteerCalls
      PROVE  /\ ~SteerActive(c)'
             /\ c \in steerFlying' => c \in steerFlying \/ steerCall[c].at = "sending"
             /\ SteerEngaged(c)' => SteerEngaged(c)
             /\ SteerClaimed(c)' => SteerClaimed(c)
  <2>1. ~SteerActive(c)' /\ steerCall'[c].at \in {"idle", "ended"}
    BY <1>2 DEF SteerActive
  <2>2. c \in steerFlying' => c \in steerFlying \/ steerCall[c].at = "sending"
    BY <1>1
  <2> QED  BY <1>1, <1>5, <2>1, <2>2 DEF SteerActive, SteerEngaged, SteerClaimed
<1>7. SteerRowsOK'
  BY <1>1, <1>5, <1>6 DEF SteerInv, SteerRowsOK
<1>8. ASSUME NEW c \in SteerCalls PROVE SteerCallOK(c)'
  <2>1. SteerCallOK(c)
    BY DEF SteerInv
  <2>2. /\ SteerClaimed(c) <=> SteerClaimed(c)
        /\ ~SteerActive(c)'
        /\ c \in steerFlying' => c \in steerFlying \/ steerCall[c].at = "sending"
        /\ SteerClaimed(c)' => SteerClaimed(c)
    BY <1>6
  <2>3. steerCall'[c].at \in {"idle", "ended"}
    BY <1>2
  <2>4. steerCall[c].at = "sending" => steerCall[c].told = "none" /\ steerCall[c].way = "steer" /\ c \notin steerTaken
    BY <2>1 DEF SteerCallOK, SteerActive
  <2> QED  BY <1>1, <1>2, <2>1, <2>2, <2>3, <2>4 DEF SteerCallOK
<1>9. SteerOne'
  BY <1>1, <1>6 DEF SteerInv, SteerOne
<1>10. SteerLine'
  BY <1>6 DEF SteerLine
<1>11. SteerMoves
  BY <1>1, <1>5 DEF SteerMoves
<1> QED  BY <1>4, <1>7, <1>8, <1>9, <1>10, <1>11 DEF SteerInv, SteerStep

LEMMA SteerNextStep ==
  ASSUME SteerInv, [SteerNext]_steerVars
  PROVE  SteerStep
<1>1. CASE UNCHANGED steerVars
  <2>1. /\ steerMem' = steerMem /\ steerFile' = steerFile /\ steerUsable' = steerUsable
        /\ steerFaults' = steerFaults
        /\ UNCHANGED <<steerPolicy, steerCall, steerTail, steerFlying, steerTaken>>
    BY <1>1 DEF steerVars
  <2>2. /\ steerMem \in SteerRows /\ steerFile \in SteerRows /\ steerUsable \in BOOLEAN
        /\ steerFaults \in Nat /\ (steerUsable => steerMem = steerFile)
        /\ steerPolicy = "steer" => steerMem.choice = "none" /\ steerFile.choice = "none"
    BY DEF SteerInv, SteerTypeOK, SteerRowsOK
  <2> QED  BY <2>1, <2>2, SteerStill
<1>2. CASE SteerOffer
  BY <1>2, SteerOfferStep
<1>3. CASE SteerElsewhere
  BY <1>3, SteerElsewhereStep
<1>4. CASE SteerRestart
  BY <1>4, SteerRestartStep
<1>5. ASSUME NEW c \in SteerCalls,
             \/ SteerClaim(c) \/ SteerQueues(c) \/ SteerDeclines(c) \/ SteerSubmits(c)
             \/ SteerBegins(c) \/ SteerActs(c) \/ SteerLands(c) \/ SteerAccepts(c) \/ SteerCatches(c)
      PROVE  SteerStep
  BY <1>5, SteerClaimStep, SteerQueuesStep, SteerDeclinesStep, SteerSubmitsStep,
     SteerBeginsStep,
     SteerActsStep, SteerLandsStep, SteerAcceptsStep, SteerCatchesStep
<1> QED  BY <1>1, <1>2, <1>3, <1>4, <1>5 DEF SteerNext

LEMMA SteerStarts ==
  ASSUME SteerInit
  PROVE  SteerInv
<1>1. /\ steerPolicy \in {"steer", "ask"} /\ steerUsable = TRUE
      /\ steerMem = [receipt |-> "none", choice |-> "none"] /\ steerFile = steerMem
      /\ steerCall \in [SteerCalls -> [at : {"idle"}, way : SteerWays, told : {"none"}]]
      /\ steerPolicy = "steer" => \A c \in SteerCalls : steerCall[c].way = "steer"
      /\ steerTail = <<>> /\ steerFlying = {} /\ steerTaken = {} /\ steerFaults = 0
  BY DEF SteerInit
<1>2. \A c \in SteerCalls : steerCall[c] \in SteerCall /\ steerCall[c].at = "idle" /\ steerCall[c].told = "none"
  BY <1>1 DEF SteerCall, SteerPlaces, SteerTold
<1>3. SteerTypeOK
  BY <1>1, <1>2 DEF SteerTypeOK, SteerRows
<1>4. SteersDone = {} /\ \A c \in SteerCalls : ~SteerActive(c) /\ ~SteerEngaged(c) /\ ~SteerClaimed(c)
  BY <1>1, <1>2 DEF SteerActive, SteerEngaged, SteerClaimed, SteersDone
<1>5. SteerRowsOK
  BY <1>1, <1>4 DEF SteerRowsOK
<1>6. \A c \in SteerCalls : SteerCallOK(c)
  BY <1>1, <1>2, <1>4 DEF SteerCallOK
<1> QED  BY <1>3, <1>4, <1>5, <1>6 DEF SteerInv, SteerOne, SteerLine

\* Steering and choices: the invariant behind the promises of the journal of session
\* controls holds in every state, through failed saves, lost answers and restarts.
THEOREM SteerInvariant == SteerSpec => []SteerInv
<1>1. SteerInv /\ [SteerNext]_steerVars => SteerInv'
  BY SteerNextStep DEF SteerStep
<1> QED  BY <1>1, SteerStarts, PTL DEF SteerSpec

LEMMA SteerImplements ==
  ASSUME SteerInv, [SteerNext]_steerVars
  PROVE  SteerJournal!ANext
<1>1. SteerInv' /\ SteerMoves
  BY SteerNextStep DEF SteerStep
<1> DEFINE from == SteerReport
           to == SteerReport'
           was == Cardinality(SteersDone)
           is == Cardinality(SteersDone)'
<1>2. /\ was = IF SteersDone = {} THEN 0 ELSE 1
      /\ is = IF SteersDone' = {} THEN 0 ELSE 1
  <2>1. \A c, d \in SteersDone : c = d
    BY DEF SteerInv, SteerOne, SteerTypeOK, SteerEngaged, SteersDone
  <2>2. \A c, d \in SteersDone' : c = d
    BY <1>1 DEF SteerInv, SteerOne, SteerTypeOK, SteerEngaged, SteersDone
  <2> QED  BY <2>1, <2>2, CountOfOne
<1>3. /\ steerFile \in SteerRows /\ (steerFile.receipt = "none" => SteersDone = {})
      /\ steerFile.receipt = "accepted" => SteersDone # {}
      /\ steerFile' \in SteerRows /\ (steerFile'.receipt = "none" => SteersDone' = {})
      /\ steerFile'.receipt = "accepted" => SteersDone' # {}
  <2>1. (steerFile.receipt = "none" => SteersDone = {})
    BY DEF SteerInv, SteerTypeOK, SteerRowsOK, SteerEngaged, SteersDone
  <2>2. (steerFile'.receipt = "none" => SteersDone' = {})
    BY <1>1 DEF SteerInv, SteerTypeOK, SteerRowsOK, SteerEngaged, SteersDone
  <2> QED  BY <1>1, <2>1, <2>2 DEF SteerInv, SteerTypeOK, SteerRowsOK
<1>4. /\ from \in {"none", "unknown", "confirmed"}
      /\ from = "none" <=> steerFile.receipt = "none"
      /\ from = "confirmed" <=> steerFile.receipt = "accepted"
      /\ from = "none" => was = 0
      /\ from = "confirmed" => was = 1
  BY <1>2, <1>3 DEF SteerReport, SteerRows
<1>5. /\ to \in {"none", "unknown", "confirmed"}
      /\ to = "none" <=> steerFile'.receipt = "none"
      /\ to = "confirmed" <=> steerFile'.receipt = "accepted"
      /\ to = "none" => is = 0
      /\ to = "confirmed" => is = 1
  BY <1>2, <1>3 DEF SteerReport, SteerRows
<1>6. \/ is = was /\ (from = "confirmed" => to = "confirmed")
      \/ was = 0 /\ is = 1 /\ from = "unknown" /\ to = "unknown"
  BY <1>1, <1>2, <1>4, <1>5 DEF SteerMoves
<1> DEFINE w == [m \in {steerMessage} |-> was]
           r == [m \in {steerMessage} |-> from]
           v == [m \in {steerMessage} |-> is]
           q == [m \in {steerMessage} |-> to]
<1>7. was \in {0, 1} /\ is \in {0, 1}
  BY <1>2
<1> HIDE DEF from, to, was, is
<1>8. /\ v \in [{steerMessage} -> Nat] /\ q \in [{steerMessage} -> SteerJournal!Reports]
      /\ w[steerMessage] = was /\ v[steerMessage] = is
      /\ r[steerMessage] = from /\ q[steerMessage] = to
  BY <1>7, <1>5 DEF SteerJournal!Reports
<1> QED  BY <1>4, <1>5, <1>6, <1>7, <1>8
         DEF SteerJournal!ANext, SteerJournal!Move, SteerJournal!Reported, from, to, was, is

LEMMA SteerHonest ==
  ASSUME SteerInv
  PROVE  SteerToldTrue /\ SteerChoiceOnce
<1>1. SteerToldTrue
  <2>1. ASSUME NEW c \in SteerCalls, steerCall[c].told = "accepted"
        PROVE  SteersDone # {} /\ steerFile.receipt = "accepted"
    BY <2>1 DEF SteerInv, SteerCallOK, SteerRowsOK
  <2>2. ASSUME NEW c \in SteerCalls, steerCall[c].told = "cancelled"
        PROVE  steerFile.choice = "cancelled" /\ steerTaken \cup steerFlying = {}
    <3>1. steerFile.choice = "cancelled"
      BY <2>2 DEF SteerInv, SteerCallOK
    <3>2. steerPolicy = "ask"
      BY <3>1 DEF SteerInv, SteerTypeOK, SteerRowsOK
    <3>3. \A d \in SteerCalls : ~SteerClaimed(d)
      BY <3>1, <3>2 DEF SteerInv, SteerCallOK
    <3> QED  BY <3>1, <3>3 DEF SteerInv, SteerTypeOK, SteerClaimed
  <2>3. ASSUME NEW c \in SteerCalls, steerCall[c].told \in {"unsent", "cancelled", "used"}
        PROVE  c \notin steerTaken \cup steerFlying
    BY <2>3 DEF SteerInv, SteerCallOK
  <2> QED  BY <2>1, <2>2, <2>3 DEF SteerToldTrue
<1>2. \A c, d \in steerTaken : c = d
  <2>1. ASSUME NEW c \in steerTaken, NEW d \in steerTaken PROVE c = d
    <3>1. c \in SteerCalls /\ d \in SteerCalls
      BY DEF SteerInv, SteerTypeOK
    <3>2. CASE steerPolicy = "ask"
      BY <3>1, <3>2 DEF SteerInv, SteerOne, SteerClaimed
    <3>3. CASE steerPolicy = "steer"
      <4>1. SteerEngaged(c) /\ SteerEngaged(d)
        BY <3>1, <3>3 DEF SteerInv, SteerCallOK, SteerEngaged, SteersDone
      <4> QED  BY <3>1, <4>1 DEF SteerInv, SteerOne
    <3> QED  BY <3>2, <3>3 DEF SteerInv, SteerTypeOK
  <2> QED  BY <2>1
<1>3. SteerChoiceOnce
  BY <1>2, CountOfOne DEF SteerChoiceOnce
<1> QED  BY <1>1, <1>3

\* Steering: the journal of session controls is an at-most-once journal of the steers,
\* what its callers are told is true, and one choice sends its message once.
THEOREM SteersOnce == SteerSpec => SteerPromise
<1>1. SteerInit => SteerJournal!AInit
  <2> SUFFICES ASSUME SteerInit PROVE SteerJournal!AInit
    OBVIOUS
  <2>1. SteersDone = {} /\ SteerReport = "none"
    BY DEF SteerInit, SteerReport, SteersDone
  <2>2. Cardinality(SteersDone) = 0
    BY <2>1, FS_EmptySet
  <2> QED  BY <2>1, <2>2 DEF SteerJournal!AInit
<1>2. SteerInv => SteerToldTrue /\ SteerChoiceOnce
  BY SteerHonest
<1>3. SteerInv /\ [SteerNext]_steerVars => SteerJournal!ANext
  BY SteerImplements
<1> QED  BY <1>1, <1>2, <1>3, SteerInvariant, PTL DEF SteerSpec, SteerPromise, SteerJournal!ASpec
=============================================================================
