---------------------------- MODULE QueueProofs -----------------------------
(***************************************************************************)
(* Proofs about what waits: for its turn in NativeQueue, with any number   *)
(* of messages, foreign items, accounts and faults; for an answer in       *)
(* Approvals, with any number of rooms, cards and faults.                  *)
(*                                                                         *)
(* The native queue holds no item twice (QueueOK).  Of each message,       *)
(* PlaceOK says where its item, request and turn may be together, and      *)
(* RowOK what its receipt, in memory or in the file, excludes: a receipt   *)
(* that says the message may be submitted again has no request or item, a  *)
(* cancelled one never will have, a completed one has ended.  What an      *)
(* observation, a cancellation or a dispatch read some time ago is still   *)
(* true where it is used (WatchOK, LaneOK, DispOK), because one lane       *)
(* serialises the writers of a group and a watch ends when another writer  *)
(* comes in between.                                                       *)
(*                                                                         *)
(* Of an approval, ApprClientOK and ApprOffersOK relate what the client    *)
(* and the fanout know to the rows of the rooms: the route of the room     *)
(* whose offer was chosen leads to the row that answered (apprBy) or       *)
(* nowhere, and a card that is made too late does not take that place.     *)
(* ApprCardsOK says which cards still decide.                              *)
(***************************************************************************)
EXTENDS NativeQueue, Approvals, FiniteSetTheorems, TLAPS

-----------------------------------------------------------------------------
(* The native queue as a sequence without repetitions.                      *)

Distinct == \A i, j \in 1..Len(queue) : queue[i] = queue[j] => i = j

QueueOK == queue \in Seq(Messages \union Foreign) /\ Distinct

LEMMA InQueue ==
  ASSUME NEW e
  PROVE  /\ Queued(e) <=> \E i \in DOMAIN queue : queue[i] = e
         /\ QueueOK => (Queued(e) <=> \E i \in 1..Len(queue) : queue[i] = e)
  BY DEF Queued, Range, QueueOK

LEMMA AppendEffect ==
  ASSUME QueueOK, NEW e \in Messages \union Foreign, ~Queued(e), queue' = Append(queue, e)
  PROVE  /\ QueueOK'
         /\ \A x : Queued(x)' <=> Queued(x) \/ x = e
         /\ First # None => First' = First
<1>1. /\ queue' \in Seq(Messages \union Foreign) /\ Len(queue') = Len(queue) + 1 /\ queue'[Len(queue) + 1] = e
      /\ \A i \in 1..Len(queue) : queue'[i] = queue[i]
      /\ Len(queue) \in Nat
  BY DEF QueueOK
<1>2. \A i \in 1..Len(queue) : queue[i] # e
  BY InQueue
<1>3. Distinct'
  BY <1>1, <1>2 DEF Distinct, QueueOK
<1>4. QueueOK'
  BY <1>1, <1>3 DEF QueueOK
<1>5. \A x : Queued(x)' <=> \E i \in 1..Len(queue') : queue'[i] = x
  BY <1>4 DEF QueueOK, Queued, Range
<1>6. \A x : Queued(x) <=> \E i \in 1..Len(queue) : queue[i] = x
  BY DEF QueueOK, Queued, Range
<1>7. \A x : Queued(x)' <=> Queued(x) \/ x = e
  BY <1>1, <1>5, <1>6
<1>8. First # None => First' = First
  BY DEF First, QueueOK
<1> QED  BY <1>4, <1>7, <1>8

LEMMA WithoutEffect ==
  ASSUME QueueOK, NEW e, Queued(e), queue' = Without(e)
  PROVE  /\ QueueOK'
         /\ \A x : Queued(x)' <=> Queued(x) /\ x # e
         /\ First # e => First' = First
<1> DEFINE at == CHOOSE i \in 1..Len(queue) : queue[i] = e
<1>1. at \in 1..Len(queue) /\ queue[at] = e
  BY InQueue
<1>2. queue' = SubSeq(queue, 1, at - 1) \o SubSeq(queue, at + 1, Len(queue))
  BY DEF Without, RemoveAt
<1> HIDE DEF at
<1> DEFINE left == SubSeq(queue, 1, at - 1)
           right == SubSeq(queue, at + 1, Len(queue))
<1>3. Len(queue) \in Nat /\ at \in Nat /\ queue \in Seq(Messages \union Foreign)
  BY <1>1 DEF QueueOK
<1>4. /\ left \in Seq(Messages \union Foreign) /\ Len(left) = at - 1
      /\ \A i \in 1..Len(left) : left[i] = queue[i]
  BY <1>1, <1>3
<1>5. /\ right \in Seq(Messages \union Foreign) /\ Len(right) = Len(queue) - at
      /\ \A i \in 1..Len(right) : right[i] = queue[i + at]
  BY <1>1, <1>3
<1>6. queue' = left \o right
  BY <1>2
<1> HIDE DEF left, right
<1>7. /\ queue' \in Seq(Messages \union Foreign) /\ Len(queue') = Len(left) + Len(right)
      /\ \A i \in 1..Len(left) : queue'[i] = left[i]
      /\ \A i \in 1..Len(right) : queue'[i + Len(left)] = right[i]
  <2>1. left \in Seq(Messages \union Foreign) /\ right \in Seq(Messages \union Foreign)
    BY <1>4, <1>5
  <2>2. /\ queue' \in Seq(Messages \union Foreign) /\ Len(queue') = Len(left) + Len(right)
        /\ Len(left) \in Nat /\ Len(right) \in Nat
    BY <1>6, <2>1
  <2>3. \A i \in 1..Len(left) : queue'[i] = left[i]
    BY <1>6, <2>1
  <2>4. \A i \in 1..Len(right) : queue'[i + Len(left)] = right[i]
    BY <1>6, <2>1
  <2> QED  BY <2>2, <2>3, <2>4
<1>8. ASSUME NEW i \in 1..Len(queue'), i >= at
      PROVE  queue'[i] = queue[i + 1]
  <2>1. i - Len(left) \in 1..Len(right) /\ (i - Len(left)) + Len(left) = i
    BY <1>1, <1>3, <1>4, <1>5, <1>7, <1>8
  <2>2. queue'[i] = right[i - Len(left)]
    BY <1>7, <2>1
  <2> QED  BY <1>3, <1>4, <1>5, <2>1, <2>2
<1>9. /\ queue' \in Seq(Messages \union Foreign) /\ Len(queue) \in Nat /\ Len(queue') = Len(queue) - 1
      /\ \A i \in 1..Len(queue') : queue'[i] = IF i < at THEN queue[i] ELSE queue[i + 1]
  BY <1>1, <1>3, <1>4, <1>5, <1>7, <1>8
<1>10. Distinct'
  <2> DEFINE from(i) == IF i < at THEN i ELSE i + 1
  <2>1. \A i \in 1..Len(queue') : from(i) \in 1..Len(queue) /\ queue'[i] = queue[from(i)]
    BY <1>1, <1>3, <1>9
  <2>2. \A i, j \in 1..Len(queue') : from(i) = from(j) => i = j
    BY <1>3, <1>9
  <2> HIDE DEF from
  <2>3. \A i, j \in 1..Len(queue') : queue'[i] = queue'[j] => i = j
    BY <2>1, <2>2 DEF QueueOK, Distinct
  <2> QED  BY <2>3 DEF Distinct
<1>11. QueueOK'
  BY <1>9, <1>10 DEF QueueOK
<1>12. \A x : Queued(x)' <=> \E i \in 1..Len(queue') : queue'[i] = x
  BY <1>11 DEF QueueOK, Queued, Range
<1>13. \A x : Queued(x) <=> \E i \in 1..Len(queue) : queue[i] = x
  BY DEF QueueOK, Queued, Range
<1>14. \A x : Queued(x)' => Queued(x) /\ x # e
  BY <1>1, <1>9, <1>12, <1>13 DEF QueueOK, Distinct
<1>15. ASSUME NEW x, Queued(x), x # e
      PROVE  Queued(x)'
  <2>1. PICK i \in 1..Len(queue) : queue[i] = x
    BY <1>13, <1>15
  <2>2. CASE i < at
    BY <1>1, <1>9, <1>12, <2>1, <2>2
  <2>3. CASE i > at
    <3>1. i - 1 \in 1..Len(queue') /\ queue'[i - 1] = x
      BY <1>1, <1>9, <2>1, <2>3
    <3> QED  BY <1>12, <3>1
  <2> QED  BY <1>1, <1>15, <2>1, <2>2, <2>3
<1>16. First # e => First' = First
  BY <1>1, <1>9 DEF First, QueueOK
<1> QED  BY <1>11, <1>14, <1>15, <1>16

LEMMA TailEffect ==
  ASSUME QueueOK, queue # <<>>, queue' = Tail(queue)
  PROVE  /\ QueueOK'
         /\ \A x : Queued(x)' <=> Queued(x) /\ x # First
<1>1. /\ queue' \in Seq(Messages \union Foreign) /\ Len(queue) \in Nat /\ Len(queue') = Len(queue) - 1
      /\ \A i \in 1..Len(queue') : queue'[i] = queue[i + 1]
      /\ First = queue[1] /\ Len(queue) > 0
  BY DEF QueueOK, First
<1>2. QueueOK'
  BY <1>1 DEF QueueOK, Distinct
<1>3. \A x : Queued(x)' <=> \E i \in 1..Len(queue') : queue'[i] = x
  <2>1. DOMAIN queue' = 1..Len(queue')
    BY <1>1
  <2> QED  BY <2>1 DEF Queued, Range
<1>4. \A x : Queued(x) <=> \E i \in 1..Len(queue) : queue[i] = x
  BY DEF QueueOK, Queued, Range
<1>5. \A x : Queued(x)' => Queued(x) /\ x # First
  BY <1>1, <1>3, <1>4 DEF QueueOK, Distinct
<1>6. ASSUME NEW x, Queued(x), x # First
      PROVE  Queued(x)'
  <2>1. PICK i \in 1..Len(queue) : queue[i] = x
    BY <1>4, <1>6
  <2>2. i - 1 \in 1..Len(queue') /\ queue'[i - 1] = x
    BY <1>1, <1>6, <2>1
  <2> QED  BY <1>3, <2>2
<1> QED  BY <1>2, <1>5, <1>6

-----------------------------------------------------------------------------
(* The inductive invariant.                                                 *)

\* m has left the native queue, cannot come back and never ran.
Gone(m) == adds[m] = 1 /\ ~Queued(m) /\ turn[m] = "none"

\* m is in the native queue at most once, and where it is and was tells its turn.
PlaceOK(m) ==
  /\ adds[m] \in {0, 1}
  /\ m \in wire => adds[m] = 0
  /\ Queued(m) => adds[m] = 1 /\ turn[m] = "none"
  /\ turn[m] # "none" => adds[m] = 1
  /\ m \in indexed => turn[m] # "none"
  /\ deletion[m] = "deleted" => Gone(m)

\* A start under way was sent for the head, and nothing comes before the head.
StartOK(m) ==
  /\ start[m] = "sent" => adds[m] = 1 /\ (Queued(m) => First = m)
  /\ start[m] = "started" => turn[m] # "none"

\* What a receipt r of m may say, in memory or in the file.
RowOK(m, r) ==
  /\ r.status \in Submittable => adds[m] = 0 /\ m \notin wire
  /\ r.status = "cancelled" => Gone(m)
  /\ r.status = "completed" \/ r.delivered => turn[m] = "ended"

RowsOK == \A m \in Messages : \A r \in {mem[m], file[m]} : RowOK(m, r)

\* Memory is ahead of the file only when nothing can be saved; a rejection is of a
\* submission the file knows.
FileOK ==
  /\ ~down => mem = file
  /\ \A m \in Messages : ~(mem[m].status = "rejected" /\ file[m].status = "none")

\* What the three activities hold while they wait.
WatchOK(m) ==
  /\ watch[m] # "no" => mem[m].status \in Unsettled
  /\ watch[m] = "located" => m \in indexed

LaneOK ==
  /\ lane.stage # "free" => lane.msg \in Messages
  /\ lane.stage = "adding" /\ ~down => mem[lane.msg].status \notin Submittable \union {"cancelled"}

DispOK ==
  /\ disp.stage \in {"inspecting", "executing", "starting", "observing", "delivering"} => disp.msg \in Messages
  /\ disp.stage = "delivering" => turn[disp.msg] = "ended"

QueueInv ==
  /\ TypeOK
  /\ QueueOK
  /\ \A m \in Messages : PlaceOK(m)
  /\ \A m \in Messages : StartOK(m)
  /\ RowsOK
  /\ FileOK
  /\ \A m \in Messages : WatchOK(m)
  /\ LaneOK
  /\ DispOK

-----------------------------------------------------------------------------
(* What a step writes to the journal.                                       *)

Closing == Submittable \union {"cancelled"}

\* A new row of m that leaves the message on record and alive.
New(m, r) ==
  /\ r \in Receipt
  /\ mem[m].status # "cancelled"
  /\ r.status \notin Closing
  /\ r.status = "completed" \/ r.delivered => turn[m] = "ended"

\* A new row of m that closes it: the submission did not happen, or was undone.
Closed(m, r) ==
  /\ r \in Receipt
  /\ r.status = "completed" \/ r.delivered => turn[m] = "ended"
  /\ \/ r.status \in Submittable /\ mem[m].status \notin Closing /\ adds[m] = 0 /\ m \notin wire'
     \/ r.status = "cancelled" /\ Gone(m)

NextOK(next, closing) ==
  /\ next \in [Messages -> Receipt]
  /\ \A m \in Messages : next[m] = mem[m] \/ New(m, next[m]) \/ (m \in closing /\ Closed(m, next[m]))

Written(closing) ==
  /\ ~down
  /\ mem' \in [Messages -> Receipt] /\ file' \in [Messages -> Receipt]
  /\ down' \in BOOLEAN /\ faults' \in Nat
  /\ FileOK'
  /\ \A m \in Messages : \A r \in {mem'[m], file'[m]} :
       r = mem[m] \/ New(m, r) \/ (m \in closing /\ Closed(m, r))

LEMMA BothWritten ==
  ASSUME QueueInv, ~down, NEW next, NEW closing, NextOK(next, closing),
         mem' \in {mem, next}, file' \in {mem, next}, ~down' => mem' = file',
         down' \in BOOLEAN, faults' \in Nat
  PROVE  Written(closing)
<1>1. mem = file /\ mem \in [Messages -> Receipt]
  BY DEF QueueInv, FileOK, TypeOK
<1>2. \A m \in Messages : ~(mem[m].status = "rejected" /\ file[m].status = "none")
  BY DEF QueueInv, FileOK
<1>3. \A m \in Messages : mem[m].status \in Submittable => next[m] = mem[m] \/ next[m].status \notin Submittable
  <2>1. \A m \in Messages : Gone(m) => mem[m].status \notin Submittable
    BY DEF QueueInv, RowsOK, RowOK, Gone
  <2> QED  BY <2>1 DEF NextOK, New, Closed, Closing
<1>4. \A m \in Messages : ~(mem'[m].status = "rejected" /\ file'[m].status = "none")
  BY <1>1, <1>2, <1>3 DEF Submittable
<1>5. FileOK'
  BY <1>4 DEF FileOK
<1>6. mem' \in [Messages -> Receipt] /\ file' \in [Messages -> Receipt]
  BY <1>1 DEF NextOK
<1>7. \A m \in Messages : \A r \in {mem'[m], file'[m]} :
        r = mem[m] \/ New(m, r) \/ (m \in closing /\ Closed(m, r))
  BY DEF NextOK
<1> QED  BY <1>5, <1>6, <1>7 DEF Written

LEMMA RereadWritten ==
  ASSUME QueueInv, ~down, NEW next, NEW closing, NextOK(next, closing),
         file' \in {file, next}, Reread(next), faults' \in Nat
  PROVE  Written(closing)
<1>1. mem = file /\ down \in BOOLEAN
  BY DEF QueueInv, FileOK, TypeOK
<1>2. \/ mem' = file' /\ down' = down
      \/ mem' = next /\ down' = TRUE
  BY DEF Reread
<1>3. /\ mem' \in {mem, next} /\ file' \in {mem, next}
      /\ ~down' => mem' = file'
      /\ down' \in BOOLEAN
  BY <1>1, <1>2
<1> QED  BY <1>3, BothWritten

LEMMA SavesWritten ==
  ASSUME QueueInv, ~down, NEW next, NEW closing, NextOK(next, closing), Saves(next) \/ SaveFails(next)
  PROVE  Written(closing)
<1>1. faults \in Nat /\ down \in BOOLEAN
  BY DEF QueueInv, TypeOK
<1>2. CASE Saves(next)
  BY <1>1, <1>2, BothWritten DEF Saves
<1>3. CASE SaveFails(next)
  <2>1. file' \in {file, next} /\ faults' \in Nat /\ Reread(next)
    BY <1>1, <1>3 DEF SaveFails
  <2> QED  BY <2>1, RereadWritten
<1> QED  BY <1>2, <1>3

LEMMA MemOK ==
  ASSUME QueueInv
  PROVE  NextOK(mem, {})
<1>1. mem \in [Messages -> Receipt]
  BY DEF QueueInv, TypeOK
<1> QED  BY <1>1 DEF NextOK

LEMMA PutOK ==
  ASSUME QueueInv, NEW m \in Messages, NEW closing,
         NEW r \in Receipt, New(m, r) \/ (m \in closing /\ Closed(m, r))
  PROVE  NextOK(Put(m, r), closing)
<1>1. mem \in [Messages -> Receipt]
  BY DEF QueueInv, TypeOK
<1>2. /\ Put(m, r) \in [Messages -> Receipt] /\ Put(m, r)[m] = r
      /\ \A k \in Messages : k # m => Put(m, r)[k] = mem[k]
  BY <1>1 DEF Put
<1> QED  BY <1>2 DEF NextOK

LEMMA SetIsPut ==
  ASSUME QueueInv, NEW m \in Messages, NEW status \in Statuses
  PROVE  /\ Set(m, status) = Put(m, [mem[m] EXCEPT !.status = status])
         /\ Known(m, status) = Put(m, [mem[m] EXCEPT !.status = status, !.turn = TRUE])
         /\ [mem[m] EXCEPT !.status = status] \in Receipt
         /\ [mem[m] EXCEPT !.status = status, !.turn = TRUE] \in Receipt
<1>1. mem \in [Messages -> Receipt] /\ mem[m] \in Receipt
  BY DEF QueueInv, TypeOK
<1>2. Set(m, status) = Put(m, [mem[m] EXCEPT !.status = status])
  BY <1>1 DEF Set, Put
<1>3. Known(m, status) = Put(m, [mem[m] EXCEPT !.status = status, !.turn = TRUE])
  BY <1>1 DEF Known, Put
<1>4. [mem[m] EXCEPT !.status = status] \in Receipt
  BY <1>1 DEF Receipt
<1>5. [mem[m] EXCEPT !.status = status, !.turn = TRUE] \in Receipt
  BY <1>1 DEF Receipt
<1> QED  BY <1>2, <1>3, <1>4, <1>5

\* A live status may be written over any receipt that is not cancelled.
LEMMA SetOK ==
  ASSUME QueueInv, NEW m \in Messages, NEW status \in Statuses, status \notin Closing,
         mem[m].status # "cancelled", status = "completed" => turn[m] = "ended"
  PROVE  NextOK(Set(m, status), {}) /\ NextOK(Known(m, status), {})
<1> DEFINE r == [mem[m] EXCEPT !.status = status]
           k == [mem[m] EXCEPT !.status = status, !.turn = TRUE]
<1>1. mem[m] \in Receipt /\ RowOK(m, mem[m])
  BY DEF QueueInv, TypeOK, RowsOK
<1>2. r.status = status /\ r.delivered = mem[m].delivered /\ r \in Receipt
  BY <1>1 DEF Receipt
<1>3. k.status = status /\ k.delivered = mem[m].delivered /\ k \in Receipt
  BY <1>1 DEF Receipt
<1> HIDE DEF r, k
<1>4. New(m, r) /\ New(m, k)
  BY <1>1, <1>2, <1>3 DEF New, RowOK
<1>5. NextOK(Put(m, r), {})
  BY <1>2, <1>4, PutOK
<1>6. NextOK(Put(m, k), {})
  BY <1>3, <1>4, PutOK
<1>7. Set(m, status) = Put(m, r) /\ Known(m, status) = Put(m, k)
  BY SetIsPut DEF r, k
<1> QED  BY <1>5, <1>6, <1>7

-----------------------------------------------------------------------------
(* The catch of the dispatch.                                               *)

LEMMA SettleEffect ==
  ASSUME NEW r \in Receipt, NEW refused \in BOOLEAN
  PROVE  /\ Settle(r, refused) \in Receipt
         /\ Settle(r, refused).delivered = r.delivered
         /\ \/ Settle(r, refused) = r
            \/ r.status \in {"starting", "running"} /\ Settle(r, refused).status \in {"queued", "uncertain"}
  BY DEF Settle, Receipt, Statuses

LEMMA SettleOK ==
  ASSUME QueueInv, NEW m \in Messages, NEW r \in Receipt, r = mem[m] \/ New(m, r), NEW refused \in BOOLEAN
  PROVE  /\ Settle(r, refused) = mem[m] \/ New(m, Settle(r, refused))
         /\ Settle(r, refused).status \in Submittable <=> r.status \in Submittable
         /\ r.status \in Submittable => Settle(r, refused) = r
<1>1. RowOK(m, mem[m])
  BY DEF QueueInv, RowsOK
<1>2. /\ Settle(r, refused) \in Receipt
      /\ Settle(r, refused).delivered = r.delivered
      /\ \/ Settle(r, refused) = r
         \/ r.status \in {"starting", "running"} /\ Settle(r, refused).status \in {"queued", "uncertain"}
  BY SettleEffect
<1> QED  BY <1>1, <1>2 DEF RowOK, New, Closing, Submittable

LEMMA ThrowWritten ==
  ASSUME QueueInv, ~down, NEW base, NextOK(base, {}), NEW refused \in BOOLEAN, NEW spent \in Nat,
         ThrowFrom(base, refused, spent)
  PROVE  Written({}) /\ EndWatches({}) /\ disp' = Rest
<1> DEFINE Caught(S) == [m \in Messages |-> IF m \in S THEN Settle(base[m], refused) ELSE base[m]]
<1>1. /\ \E S \in SUBSET disp.group : file' = Caught(S)
      /\ \E S \in SUBSET disp.group : mem' = Caught(S)
      /\ ~down' => mem' = file'
      /\ down' \in BOOLEAN /\ faults' \in Nat
      /\ EndWatches({}) /\ disp' = Rest
  <2>1. faults \in Nat /\ down \in BOOLEAN /\ faults + spent + 1 \in Nat
    BY DEF QueueInv, TypeOK
  <2>2. Caught(disp.group) \in {Caught(S) : S \in SUBSET disp.group}
    OBVIOUS
  <2>3. /\ \/ faults' = faults + spent /\ mem' = Caught(disp.group) /\ file' = mem' /\ UNCHANGED down
           \/ /\ faults' = faults + spent + 1
              /\ file' \in {Caught(S) : S \in SUBSET disp.group}
              /\ Reread(Caught(disp.group))
        /\ EndWatches({}) /\ disp' = Rest
    BY DEF ThrowFrom
  <2> HIDE DEF Caught
  <2>4. CASE faults' = faults + spent /\ mem' = Caught(disp.group) /\ file' = mem' /\ UNCHANGED down
    <3>1. disp.group \in SUBSET disp.group
      OBVIOUS
    <3> QED  BY <2>1, <2>3, <2>4, <3>1
  <2>5. CASE /\ faults' = faults + spent + 1
             /\ file' \in {Caught(S) : S \in SUBSET disp.group}
             /\ Reread(Caught(disp.group))
    <3>1. PICK S \in SUBSET disp.group : file' = Caught(S)
      BY <2>5
    <3>2. \/ mem' = file' /\ down' = down
          \/ mem' = Caught(disp.group) /\ down' = TRUE
      BY <2>5 DEF Reread
    <3>3. disp.group \in SUBSET disp.group
      OBVIOUS
    <3>4. \E T \in SUBSET disp.group : mem' = Caught(T)
      BY <3>1, <3>2, <3>3
    <3>5. down' \in BOOLEAN /\ (~down' => mem' = file') /\ faults' \in Nat
      BY <2>1, <2>5, <3>2
    <3> QED  BY <2>3, <3>1, <3>4, <3>5
  <2> QED  BY <2>3, <2>4, <2>5
<1>2. PICK S \in SUBSET disp.group : file' = Caught(S)
  BY <1>1
<1>3. PICK T \in SUBSET disp.group : mem' = Caught(T)
  BY <1>1
<1>4. \A m \in Messages : base[m] \in Receipt /\ (base[m] = mem[m] \/ New(m, base[m]))
  BY DEF NextOK
<1>5. \A m \in Messages : Settle(base[m], refused) \in Receipt
  BY <1>4, SettleEffect
<1>6. mem' \in [Messages -> Receipt] /\ file' \in [Messages -> Receipt]
  BY <1>2, <1>3, <1>4, <1>5
<1>7. ASSUME NEW m \in Messages
      PROVE  /\ mem'[m] \in {base[m], Settle(base[m], refused)}
             /\ file'[m] \in {base[m], Settle(base[m], refused)}
  BY <1>2, <1>3
<1>8. ASSUME NEW m \in Messages
      PROVE  \A r \in {mem'[m], file'[m]} : r = mem[m] \/ New(m, r)
  <2>1. Settle(base[m], refused) = mem[m] \/ New(m, Settle(base[m], refused))
    BY <1>4, SettleOK
  <2> QED  BY <1>4, <1>7, <2>1
<1>9. ASSUME NEW m \in Messages
      PROVE  ~(mem'[m].status = "rejected" /\ file'[m].status = "none")
  <2>1. /\ Settle(base[m], refused).status \in Submittable <=> base[m].status \in Submittable
        /\ base[m].status \in Submittable => Settle(base[m], refused) = base[m]
    BY <1>4, SettleOK
  <2> QED  BY <1>7, <2>1 DEF Submittable
<1>10. FileOK'
  BY <1>1, <1>9 DEF FileOK
<1> HIDE DEF Caught
<1>11. \A m \in Messages : \A r \in {mem'[m], file'[m]} : r = mem[m] \/ New(m, r)
  BY <1>8
<1>12. Written({})
  BY <1>1, <1>6, <1>10, <1>11 DEF Written
<1> QED  BY <1>1, <1>12

LEMMA ProceedWritten ==
  ASSUME QueueInv, ~down, NEW next, NextOK(next, {}), NEW d, Proceed(next, d)
  PROVE  Written({}) /\ EndWatches({}) /\ (disp' = d \/ disp' = Rest)
<1>1. CASE Saves(next) /\ EndWatches({}) /\ disp' = d
  BY <1>1, SavesWritten
<1>2. CASE \E base \in {mem, next} : ThrowFrom(base, FALSE, 1)
  BY <1>2, MemOK, ThrowWritten
<1>3. CASE SaveFails(next) /\ down' /\ EndWatches({}) /\ disp' = Rest
  BY <1>3, SavesWritten
<1> QED  BY <1>1, <1>2, <1>3 DEF Proceed

-----------------------------------------------------------------------------
(* What a step of the Gateway may do.                                       *)

Requests ==
  /\ wire' \subseteq Messages
  /\ deletion' \in [Messages -> {"none", "sent", "deleted", "missed"}]
  /\ start' \in [Messages -> {"none", "sent", "started", "busy", "missed"}]
  /\ \A m \in wire' : m \in wire \/ (adds[m] = 0 /\ mem'[m].status \notin Submittable /\ file'[m].status \notin Submittable)
  /\ \A m \in Messages : deletion'[m] = "deleted" => deletion[m] = "deleted"
  /\ \A m \in Messages : start'[m] = "sent" => start[m] = "sent" \/ (adds[m] = 1 /\ First = m)
  /\ \A m \in Messages : start'[m] = "started" => start[m] = "started"

Lane == [stage: {"free", "adding", "listing", "deleting"}, msg: Messages \union {None}]

Disp == [stage: Stages, msg: Messages \union {None}, todo: SUBSET Messages, group: SUBSET Messages,
         observing: BOOLEAN, as: {"fresh", "turn", "terminal"}]

Watches == [Messages -> {"no", "present", "absent", "located"}]

\* The journal is left alone, or written with what may be written.
JournalStep == (UNCHANGED <<mem, file, down>> /\ faults' \in Nat) \/ Written(Messages)

GatewayStep ==
  /\ account' = account /\ queue' = queue /\ turn' = turn /\ indexed' = indexed /\ busy' = busy /\ adds' = adds
  /\ JournalStep
  /\ Requests
  /\ watch' \in Watches /\ \A m \in Messages : WatchOK(m)'
  /\ lane' \in Lane /\ LaneOK'
  /\ disp' \in Disp /\ DispOK'
  /\ retained' \subseteq Messages /\ executed' \subseteq Messages

\* What each step of the queue keeps, besides the invariant: a cancellation on record
\* stays, only a head starts, and the reports follow AtMostOnce.
Reports(m) == ReportOf(mem[m])

MoveOK(m) ==
  \/ adds'[m] = adds[m] /\ Reports(m)' = Reports(m)
  \/ adds'[m] = adds[m] /\ Reports(m) = "none" /\ Reports(m)' = "unknown"
  \/ adds[m] = 0 /\ adds'[m] = 1 /\ Reports(m) = "unknown" /\ Reports(m)' = "unknown"
  \/ adds[m] = 0 /\ adds'[m] = 0 /\ Reports(m) = "unknown" /\ Reports(m)' = "not-sent"
  \/ adds'[m] = adds[m] /\ Reports(m) = "not-sent" /\ Reports(m)' = "unknown"
  \/ adds[m] = 0 /\ adds'[m] = 0 /\ Reports(m) = "unknown" /\ Reports(m)' = "none"
  \/ adds[m] = 0 /\ adds'[m] = 0 /\ Reports(m) = "none" /\ Reports(m)' = "not-sent"

Cancellations(m) == file[m].status = "cancelled" => file'[m].status = "cancelled"

Heads(m) == turn[m] = "none" /\ turn'[m] = "active" => First = m

StepOK ==
  /\ QueueInv'
  /\ \A m \in Messages : MoveOK(m)
  /\ \A m \in Messages : Cancellations(m)
  /\ \A m \in Messages : Heads(m)

LEMMA SameQueue ==
  ASSUME queue' = queue
  PROVE  First' = First /\ \A m : Queued(m)' <=> Queued(m)
  BY DEF First, Queued

LEMMA RowsKept ==
  ASSUME QueueInv, GatewayStep
  PROVE  RowsOK'
<1>1. /\ adds' = adds /\ turn' = turn /\ \A m \in Messages : Gone(m)' <=> Gone(m)
      /\ \A m \in wire' : m \in wire \/ (mem'[m].status \notin Submittable /\ file'[m].status \notin Submittable)
  BY SameQueue DEF GatewayStep, Requests, Gone
<1>2. ASSUME NEW m \in Messages, NEW r \in {mem'[m], file'[m]}
      PROVE  RowOK(m, r)'
  <2>1. CASE UNCHANGED <<mem, file, down>>
    <3>1. RowOK(m, r)
      BY <1>2, <2>1 DEF QueueInv, RowsOK
    <3> QED  BY <1>1, <1>2, <3>1 DEF RowOK
  <2>2. CASE Written(Messages)
    <3>1. r = mem[m] \/ New(m, r) \/ Closed(m, r)
      BY <1>2, <2>2 DEF Written
    <3>2. CASE r = mem[m]
      <4>1. RowOK(m, r)
        BY <3>2 DEF QueueInv, RowsOK
      <4> QED  BY <1>1, <1>2, <4>1 DEF RowOK
    <3>3. CASE New(m, r)
      BY <1>1, <3>3 DEF New, RowOK, Closing
    <3>4. CASE Closed(m, r)
      BY <1>1, <3>4 DEF Closed, RowOK, Submittable, Gone
    <3> QED  BY <3>1, <3>2, <3>3, <3>4
  <2> QED  BY <2>1, <2>2 DEF GatewayStep, JournalStep
<1> QED  BY <1>2 DEF RowsOK

LEMMA FileKept ==
  ASSUME QueueInv, GatewayStep
  PROVE  FileOK'
<1>1. CASE UNCHANGED <<mem, file, down>>
  BY <1>1 DEF QueueInv, FileOK
<1>2. CASE Written(Messages)
  BY <1>2 DEF Written
<1> QED  BY <1>1, <1>2 DEF GatewayStep, JournalStep

LEMMA PlacesKept ==
  ASSUME QueueInv, GatewayStep
  PROVE  /\ \A m \in Messages : PlaceOK(m)'
         /\ \A m \in Messages : StartOK(m)'
<1>1. /\ adds' = adds /\ turn' = turn /\ indexed' = indexed /\ First' = First
      /\ \A m : Queued(m)' <=> Queued(m)
      /\ \A m \in wire' : m \in wire \/ adds[m] = 0
      /\ \A m \in Messages : deletion'[m] = "deleted" => deletion[m] = "deleted"
      /\ \A m \in Messages : start'[m] = "sent" => start[m] = "sent" \/ (adds[m] = 1 /\ First = m)
      /\ \A m \in Messages : start'[m] = "started" => start[m] = "started"
  BY SameQueue DEF GatewayStep, Requests
<1>2. ASSUME NEW m \in Messages
      PROVE  PlaceOK(m)'
  <2>1. PlaceOK(m)
    BY DEF QueueInv
  <2> QED  BY <1>1, <2>1 DEF PlaceOK, Gone
<1>3. ASSUME NEW m \in Messages
      PROVE  StartOK(m)'
  <2>1. StartOK(m)
    BY DEF QueueInv
  <2> QED  BY <1>1, <2>1 DEF StartOK
<1> QED  BY <1>2, <1>3

LEMMA ReportValues ==
  ASSUME NEW r
  PROVE  /\ r.status = "none" => ReportOf(r) = "none"
         /\ r.status = "rejected" => ReportOf(r) = "not-sent"
         /\ r.status \notin Submittable => ReportOf(r) = "unknown"
  BY DEF ReportOf, Submittable

LEMMA MovesKept ==
  ASSUME QueueInv, GatewayStep, NEW m \in Messages
  PROVE  MoveOK(m) /\ Cancellations(m) /\ Heads(m)
<1>1. adds' = adds /\ turn' = turn /\ turn \in [Messages -> {"none", "active", "ended"}] /\ adds[m] \in {0, 1}
  BY DEF GatewayStep, QueueInv, TypeOK, PlaceOK
<1>2. CASE UNCHANGED <<mem, file, down>>
  <2>1. Reports(m)' = Reports(m)
    BY <1>2 DEF Reports
  <2> QED  BY <1>1, <1>2, <2>1 DEF MoveOK, Cancellations, Heads
<1>3. CASE Written(Messages)
  <2>1. /\ mem'[m] = mem[m] \/ New(m, mem'[m]) \/ Closed(m, mem'[m])
        /\ file'[m] = mem[m] \/ New(m, file'[m]) \/ Closed(m, file'[m])
    BY <1>3 DEF Written
  <2>2. file = mem /\ RowOK(m, mem[m])
    BY <1>3 DEF Written, QueueInv, FileOK, RowsOK
  <2>3. Cancellations(m)
    BY <2>1, <2>2 DEF Cancellations, New, Closed, Closing
  <2>4. MoveOK(m)
    <3>1. CASE mem'[m] = mem[m]
      BY <1>1, <3>1 DEF MoveOK, Reports
    <3>2. CASE New(m, mem'[m])
      <4>1. Reports(m)' = "unknown"
        BY <3>2, ReportValues DEF Reports, New, Closing
      <4>2. Reports(m) \in {"none", "not-sent", "unknown"}
        BY ReportValues DEF Reports, Submittable
      <4> QED  BY <1>1, <4>1, <4>2 DEF MoveOK
    <3>3. CASE Closed(m, mem'[m])
      <4>1. mem[m].status \notin Submittable
        BY <2>2, <3>3 DEF Closed, RowOK, Closing, Gone
      <4>2. Reports(m) = "unknown"
        BY <4>1, ReportValues DEF Reports
      <4>3. CASE mem'[m].status \notin Submittable
        <5>1. Reports(m)' = "unknown"
          BY <4>3, ReportValues DEF Reports
        <5> QED  BY <1>1, <4>2, <5>1 DEF MoveOK
      <4>4. CASE mem'[m].status \in Submittable
        <5>1. adds[m] = 0
          BY <3>3, <4>4 DEF Closed, Submittable
        <5>2. Reports(m)' \in {"none", "not-sent"}
          BY <4>4, ReportValues DEF Reports, Submittable
        <5> QED  BY <1>1, <4>2, <5>1, <5>2 DEF MoveOK
      <4> QED  BY <4>3, <4>4
    <3> QED  BY <2>1, <3>1, <3>2, <3>3
  <2> QED  BY <1>1, <2>3, <2>4 DEF Heads
<1> QED  BY <1>2, <1>3 DEF GatewayStep, JournalStep

LEMMA GatewaySound ==
  ASSUME QueueInv, GatewayStep
  PROVE  StepOK
<1>1. TypeOK'
  <2>1. /\ mem' \in [Messages -> Receipt] /\ file' \in [Messages -> Receipt]
        /\ down' \in BOOLEAN /\ faults' \in Nat
    <3>1. CASE UNCHANGED <<mem, file, down>> /\ faults' \in Nat
      BY <3>1 DEF QueueInv, TypeOK
    <3>2. CASE Written(Messages)
      BY <3>2 DEF Written
    <3> QED  BY <3>1, <3>2 DEF GatewayStep, JournalStep
  <2>2. /\ watch' \in Watches /\ lane' \in Lane /\ disp' \in Disp
        /\ retained' \subseteq Messages /\ executed' \subseteq Messages
        /\ wire' \subseteq Messages
        /\ deletion' \in [Messages -> {"none", "sent", "deleted", "missed"}]
        /\ start' \in [Messages -> {"none", "sent", "started", "busy", "missed"}]
    BY DEF GatewayStep, Requests
  <2>3. /\ account' = account /\ queue' = queue /\ turn' = turn /\ indexed' = indexed /\ busy' = busy
        /\ adds' = adds
    BY DEF GatewayStep
  <2>4. /\ account' \in [Messages -> Accounts] /\ queue' \in Seq(Messages \union Foreign)
        /\ turn' \in [Messages -> {"none", "active", "ended"}] /\ indexed' \subseteq Messages
        /\ busy' \in BOOLEAN /\ adds' \in [Messages -> Nat]
    BY <2>3 DEF QueueInv, TypeOK
  <2> QED  BY <2>1, <2>2, <2>4 DEF TypeOK, Watches, Lane, Disp
<1>2. QueueOK'
  BY DEF QueueInv, QueueOK, Distinct, GatewayStep
<1>3. /\ \A m \in Messages : WatchOK(m)'
      /\ LaneOK' /\ DispOK'
  BY DEF GatewayStep
<1>4. QueueInv'
  BY <1>1, <1>2, <1>3, RowsKept, FileKept, PlacesKept DEF QueueInv
<1> QED  BY <1>4, MovesKept DEF StepOK

-----------------------------------------------------------------------------
(* Parts of a step that leave something alone.                              *)

LEMMA WatchKept ==
  ASSUME QueueInv, indexed' = indexed, NEW done, EndWatches(done)
  PROVE  watch' \in Watches /\ \A m \in Messages : WatchOK(m)'
<1>1. watch \in Watches
  BY DEF QueueInv, TypeOK, Watches
<1>2. /\ watch' \in Watches
      /\ \A m \in Messages : watch'[m] = "no" \/ (watch'[m] = watch[m] /\ mem'[m] = mem[m])
  BY <1>1 DEF EndWatches, Watches
<1>3. \A m \in Messages : WatchOK(m)
  BY DEF QueueInv
<1> QED  BY <1>2, <1>3 DEF WatchOK

LEMMA LaneKept ==
  ASSUME QueueInv, lane' = lane, UNCHANGED <<mem, down>> \/ Written({})
  PROVE  lane' \in Lane /\ LaneOK'
<1>1. lane \in Lane /\ LaneOK
  BY DEF QueueInv, TypeOK, Lane
<1>2. ASSUME lane.stage = "adding", ~down', Written({})
      PROVE  mem'[lane.msg].status \notin Closing
  <2>1. lane.msg \in Messages /\ mem[lane.msg].status \notin Closing
    BY <1>1, <1>2 DEF LaneOK, Closing, Written
  <2>2. mem'[lane.msg] = mem[lane.msg] \/ New(lane.msg, mem'[lane.msg])
    BY <1>2, <2>1 DEF Written
  <2> QED  BY <2>1, <2>2 DEF New
<1>3. CASE Written({})
  BY <1>1, <1>2, <1>3 DEF LaneOK, Closing
<1>4. CASE UNCHANGED <<mem, down>>
  BY <1>1, <1>4 DEF LaneOK
<1> QED  BY <1>3, <1>4

LEMMA LaneFree ==
  ASSUME lane' = Free
  PROVE  lane' \in Lane /\ LaneOK'
  BY DEF Free, Lane, LaneOK

LEMMA DispKept ==
  ASSUME QueueInv, disp' = disp, turn' = turn
  PROVE  disp' \in Disp /\ DispOK'
<1>1. disp \in Disp /\ DispOK
  BY DEF QueueInv, TypeOK, Disp
<1> QED  BY <1>1 DEF DispOK

LEMMA DispRest ==
  ASSUME disp' = Rest
  PROVE  disp' \in Disp /\ DispOK'
  BY DEF Rest, Disp, DispOK, Stages

LEMMA RequestsKept ==
  ASSUME QueueInv, wire' \subseteq wire, deletion' = deletion, start' = start
  PROVE  Requests
<1>1. /\ wire \subseteq Messages
      /\ deletion \in [Messages -> {"none", "sent", "deleted", "missed"}]
      /\ start \in [Messages -> {"none", "sent", "started", "busy", "missed"}]
  BY DEF QueueInv, TypeOK
<1> QED  BY <1>1 DEF Requests

\* What the actions leave alone, and the sets of messages they keep.
LEMMA Kept ==
  ASSUME QueueInv
  PROVE  retained \subseteq Messages /\ executed \subseteq Messages /\ faults \in Nat /\ wire \subseteq Messages
  BY DEF QueueInv, TypeOK

LEMMA JournalWritten ==
  ASSUME QueueInv, ~down, NEW next, NEW closing, NextOK(next, closing), Journal(next)
  PROVE  Written(closing) /\ EndWatches({})
<1>1. (Saves(next) \/ SaveFails(next)) /\ EndWatches({})
  BY DEF Journal
<1> QED  BY <1>1, SavesWritten

LEMMA ClosingIsMessages ==
  ASSUME NEW closing, closing \subseteq Messages, Written(closing)
  PROVE  JournalStep
<1>1. Written(Messages)
  BY DEF Written
<1> QED  BY <1>1 DEF JournalStep

-----------------------------------------------------------------------------
(* The control lane.                                                        *)

LEMMA EnqueueStep ==
  ASSUME QueueInv, NEW m \in Messages, Enqueue(m)
  PROVE  StepOK
<1> DEFINE r == [Blank EXCEPT !.status = "submitting"]
<1>1. r \in Receipt /\ r.status = "submitting" /\ r.delivered = FALSE
  BY DEF Blank, Receipt, Statuses
<1> HIDE DEF r
<1>2. /\ ~down /\ lane = Free /\ mem[m].status \in Submittable /\ EndWatches({})
      /\ \/ Saves(Put(m, r)) /\ lane' = [stage |-> "adding", msg |-> m] /\ wire' = wire \union {m}
            /\ retained' = retained \union {m}
         \/ SaveFails(Put(m, r)) /\ lane' = lane /\ wire' = wire /\ retained' = retained
      /\ account' = account /\ disp' = disp /\ deletion' = deletion /\ start' = start /\ executed' = executed
      /\ queue' = queue /\ turn' = turn /\ indexed' = indexed /\ busy' = busy /\ adds' = adds
  BY DEF Enqueue, r, native
<1>3. New(m, r)
  BY <1>1, <1>2 DEF New, Closing, Submittable
<1>4. NextOK(Put(m, r), {})
  BY <1>1, <1>3, PutOK
<1>5. Written({}) /\ JournalStep
  BY <1>2, <1>4, SavesWritten, ClosingIsMessages
<1>6. watch' \in Watches /\ \A k \in Messages : WatchOK(k)'
  BY <1>2, WatchKept
<1>7. disp' \in Disp /\ DispOK'
  BY <1>2, DispKept
<1>8. CASE Saves(Put(m, r)) /\ lane' = [stage |-> "adding", msg |-> m] /\ wire' = wire \union {m}
           /\ retained' = retained \union {m}
  <2>1. mem \in [Messages -> Receipt]
    BY DEF QueueInv, TypeOK
  <2>2. mem'[m].status = "submitting" /\ file'[m].status = "submitting"
    BY <1>1, <1>8, <2>1 DEF Saves, Put
  <2>3. adds[m] = 0
    BY <1>2 DEF QueueInv, RowsOK, RowOK
  <2>4. Requests
    <3>1. /\ wire \subseteq Messages
          /\ deletion \in [Messages -> {"none", "sent", "deleted", "missed"}]
          /\ start \in [Messages -> {"none", "sent", "started", "busy", "missed"}]
      BY DEF QueueInv, TypeOK
    <3> QED  BY <1>2, <1>8, <2>2, <2>3, <3>1 DEF Requests, Submittable
  <2>5. lane' \in Lane /\ LaneOK'
    BY <1>8, <2>2 DEF Lane, LaneOK, Submittable
  <2> QED  BY <1>2, <1>5, <1>6, <1>7, <1>8, <2>4, <2>5, Kept, GatewaySound DEF GatewayStep
<1>9. CASE SaveFails(Put(m, r)) /\ lane' = lane /\ wire' = wire /\ retained' = retained
  <2>1. lane' \in Lane /\ LaneOK'
    BY <1>2, <1>9, LaneFree
  <2>2. Requests
    BY <1>2, <1>9, RequestsKept
  <2> QED  BY <1>2, <1>5, <1>6, <1>7, <1>9, <2>1, <2>2, Kept, GatewaySound DEF GatewayStep
<1> QED  BY <1>2, <1>8, <1>9

LEMMA AddingState ==
  ASSUME QueueInv, NEW m \in Messages, Adding(m)
  PROVE  ~down /\ mem[m].status \notin Closing
<1>1. lane = [stage |-> "adding", msg |-> m] /\ ~down
  BY DEF Adding
<1>2. lane.stage = "adding" /\ lane.msg = m
  BY <1>1
<1> QED  BY <1>1, <1>2 DEF QueueInv, LaneOK, Closing

LEMMA DoubtOK ==
  ASSUME QueueInv, NEW m \in Messages, mem[m].status # "cancelled"
  PROVE  NextOK(Doubt(m), {})
<1>1. NextOK(Set(m, "uncertain"), {})
  BY SetOK DEF Statuses, Closing, Submittable
<1> QED  BY <1>1, MemOK DEF Doubt

\* The end of a mutation, whatever it wrote.
LEMMA LaneEnds ==
  ASSUME QueueInv, NEW closing \in SUBSET Messages, Written(closing), EndWatches({}), lane' = Free,
         account' = account, disp' = disp, executed' = executed, UNCHANGED native,
         retained' \subseteq retained, Requests
  PROVE  StepOK
<1>1. /\ queue' = queue /\ turn' = turn /\ indexed' = indexed /\ busy' = busy /\ adds' = adds
  BY DEF native
<1>2. watch' \in Watches /\ \A k \in Messages : WatchOK(k)'
  BY <1>1, WatchKept
<1>3. disp' \in Disp /\ DispOK'
  BY <1>1, DispKept
<1>4. JournalStep
  BY ClosingIsMessages
<1>5. lane' \in Lane /\ LaneOK'
  BY LaneFree
<1> QED  BY <1>1, <1>2, <1>3, <1>4, <1>5, Kept, GatewaySound DEF GatewayStep

LEMMA AnsweredStep ==
  ASSUME QueueInv, NEW m \in Messages, Answered(m)
  PROVE  StepOK
<1> DEFINE next == Set(m, IF mem[m].turn THEN "running" ELSE "queued")
<1>1. ~down /\ mem[m].status \notin Closing
  BY AddingState DEF Answered
<1>2. NextOK(next, {}) /\ NextOK(Doubt(m), {})
  BY <1>1, SetOK, DoubtOK DEF Statuses, Closing, Submittable
<1>3. /\ EndWatches({}) /\ lane' = Free
      /\ account' = account /\ disp' = disp /\ retained' = retained /\ executed' = executed
      /\ UNCHANGED native /\ wire' = wire /\ deletion' = deletion /\ start' = start
  BY DEF Answered, requests
<1>4. \/ Saves(next) \/ SaveFails(next)
      \/ mem' = Doubt(m) /\ file' = Doubt(m) /\ faults' = faults + 1 /\ down' = down
      \/ faults' = faults + 2 /\ file' \in {file, Doubt(m)} /\ Reread(Doubt(m))
  BY DEF Answered
<1> HIDE DEF next
<1>5. faults \in Nat /\ faults + 1 \in Nat /\ faults + 2 \in Nat /\ down \in BOOLEAN
  BY DEF QueueInv, TypeOK
<1>6. Written({})
  <2>1. CASE Saves(next) \/ SaveFails(next)
    BY <1>1, <1>2, <2>1, SavesWritten
  <2>2. CASE mem' = Doubt(m) /\ file' = Doubt(m) /\ faults' = faults + 1 /\ down' = down
    BY <1>1, <1>2, <1>5, <2>2, BothWritten
  <2>3. CASE faults' = faults + 2 /\ file' \in {file, Doubt(m)} /\ Reread(Doubt(m))
    BY <1>1, <1>2, <1>5, <2>3, RereadWritten
  <2> QED  BY <1>4, <2>1, <2>2, <2>3
<1>7. Requests
  BY <1>3, RequestsKept
<1> QED  BY <1>3, <1>6, <1>7, LaneEnds

LEMMA RefusedStep ==
  ASSUME QueueInv, NEW m \in Messages, Refused(m)
  PROVE  StepOK
<1>1. ~down /\ mem[m].status \notin Closing /\ adds[m] = 0
  BY AddingState DEF Refused
<1>2. /\ Journal(IF Taken(m) THEN mem ELSE Set(m, "rejected"))
      /\ wire' = wire \ {m} /\ retained' = retained \ {m} /\ lane' = Free
      /\ account' = account /\ disp' = disp /\ executed' = executed
      /\ UNCHANGED native /\ deletion' = deletion /\ start' = start
  BY DEF Refused
<1>3. NextOK(Set(m, "rejected"), {m})
  <2> DEFINE r == [mem[m] EXCEPT !.status = "rejected"]
  <2>1. mem[m] \in Receipt /\ RowOK(m, mem[m])
    BY DEF QueueInv, TypeOK, RowsOK
  <2>2. r.status = "rejected" /\ r.delivered = mem[m].delivered /\ r \in Receipt
    BY <2>1 DEF Receipt, Statuses
  <2> HIDE DEF r
  <2>3. Closed(m, r)
    BY <1>1, <1>2, <2>1, <2>2 DEF Closed, RowOK, Submittable
  <2>4. NextOK(Put(m, r), {m})
    BY <2>2, <2>3, PutOK
  <2>5. Set(m, "rejected") = Put(m, r)
    BY SetIsPut DEF r, Statuses
  <2> QED  BY <2>4, <2>5
<1>4. NextOK(mem, {m})
  BY MemOK DEF NextOK
<1>5. Written({m}) /\ EndWatches({})
  BY <1>1, <1>2, <1>3, <1>4, JournalWritten
<1>6. Requests
  BY <1>2, RequestsKept
<1> QED  BY <1>2, <1>5, <1>6, LaneEnds

LEMMA NotSubmittedStep ==
  ASSUME QueueInv, NEW m \in Messages, NotSubmitted(m)
  PROVE  StepOK
<1>1. ~down /\ mem[m].status \notin Closing /\ (adds[m] = 0 \/ mem[m].turn)
  BY AddingState DEF NotSubmitted
<1>2. /\ Journal(IF Taken(m) THEN mem ELSE Put(m, Blank))
      /\ wire' = wire \ {m} /\ retained' = retained /\ lane' = Free
      /\ account' = account /\ disp' = disp /\ executed' = executed
      /\ UNCHANGED native /\ deletion' = deletion /\ start' = start
  BY DEF NotSubmitted
<1>3. ASSUME ~Taken(m)
      PROVE  NextOK(Put(m, Blank), {m})
  <2>1. Blank \in Receipt /\ Blank.status = "none" /\ Blank.delivered = FALSE
    BY DEF Blank, Receipt, Statuses
  <2>2. adds[m] = 0
    BY <1>1, <1>3 DEF Taken
  <2>3. Closed(m, Blank)
    BY <1>1, <1>2, <2>1, <2>2 DEF Closed, Submittable
  <2> QED  BY <2>1, <2>3, PutOK
<1>4. NextOK(mem, {m})
  BY MemOK DEF NextOK
<1>5. Written({m}) /\ EndWatches({})
  BY <1>1, <1>2, <1>3, <1>4, JournalWritten
<1>6. Requests
  BY <1>2, RequestsKept
<1> QED  BY <1>2, <1>5, <1>6, LaneEnds

LEMMA LostStep ==
  ASSUME QueueInv, NEW m \in Messages, Lost(m)
  PROVE  StepOK
<1>1. ~down /\ mem[m].status \notin Closing
  BY AddingState DEF Lost
<1>2. /\ Journal(Doubt(m)) /\ retained' = retained /\ lane' = Free
      /\ account' = account /\ disp' = disp /\ executed' = executed
      /\ UNCHANGED native /\ wire' = wire /\ deletion' = deletion /\ start' = start
  BY DEF Lost, requests
<1>3. Written({}) /\ EndWatches({})
  BY <1>1, <1>2, DoubtOK, JournalWritten DEF Closing
<1>4. Requests
  BY <1>2, RequestsKept
<1> QED  BY <1>2, <1>3, <1>4, LaneEnds

\* A step of the lane or of an observation that writes no row of a closed message.
LEMMA LiveSound ==
  ASSUME QueueInv, lane' = lane, disp' = disp, account' = account, executed' = executed, UNCHANGED native,
         retained' \subseteq retained, Requests, Written({}) \/ (UNCHANGED <<mem, file, down>> /\ faults' \in Nat),
         watch' \in Watches, \A m \in Messages : WatchOK(m)'
  PROVE  StepOK
<1>1. /\ queue' = queue /\ turn' = turn /\ indexed' = indexed /\ busy' = busy /\ adds' = adds
  BY DEF native
<1>2. disp' \in Disp /\ DispOK'
  BY <1>1, DispKept
<1>3. lane' \in Lane /\ LaneOK'
  BY LaneKept
<1>4. JournalStep
  <2>1. CASE Written({})
    BY <2>1, ClosingIsMessages
  <2>2. CASE UNCHANGED <<mem, file, down>> /\ faults' \in Nat
    BY <2>2 DEF JournalStep
  <2> QED  BY <2>1, <2>2
<1> QED  BY <1>1, <1>2, <1>3, <1>4, Kept, GatewaySound DEF GatewayStep

\* A turn that began is not of a cancelled message.
LEMMA NotCancelled ==
  ASSUME QueueInv, NEW m \in Messages, turn[m] # "none"
  PROVE  mem[m].status # "cancelled"
  BY DEF QueueInv, RowsOK, RowOK, Gone

LEMMA AcceptedStep ==
  ASSUME QueueInv, NEW m \in Messages, Accepted(m)
  PROVE  StepOK
<1>1. /\ turn[m] # "none" /\ ~down /\ Journal(Known(m, "running")) /\ retained' = retained \ {m}
      /\ account' = account /\ lane' = lane /\ disp' = disp /\ executed' = executed /\ UNCHANGED native
      /\ wire' = wire /\ deletion' = deletion /\ start' = start
  BY DEF Accepted, requests
<1>2. NextOK(Known(m, "running"), {})
  BY <1>1, NotCancelled, SetOK DEF Statuses, Closing, Submittable
<1>3. Written({}) /\ EndWatches({})
  BY <1>1, <1>2, JournalWritten
<1>4. watch' \in Watches /\ \A k \in Messages : WatchOK(k)'
  BY <1>1, <1>3, WatchKept DEF native
<1>5. Requests
  BY <1>1, RequestsKept
<1> QED  BY <1>1, <1>3, <1>4, <1>5, LiveSound

\* A step that leaves the journal and its observations alone.
LEMMA QuietSound ==
  ASSUME QueueInv, account' = account, executed' \subseteq Messages, UNCHANGED native, UNCHANGED journal,
         retained' \subseteq retained, Requests, lane' \in Lane, LaneOK', disp' \in Disp, DispOK'
  PROVE  StepOK
<1>1. /\ queue' = queue /\ turn' = turn /\ indexed' = indexed /\ busy' = busy /\ adds' = adds
      /\ mem' = mem /\ file' = file /\ down' = down /\ watch' = watch /\ faults' = faults
  BY DEF native, journal
<1>2. watch' \in Watches /\ \A m \in Messages : WatchOK(m)'
  <2>1. watch \in Watches /\ \A m \in Messages : WatchOK(m)
    BY DEF QueueInv, TypeOK, Watches
  <2> QED  BY <1>1, <2>1 DEF WatchOK
<1>3. JournalStep
  BY <1>1, Kept DEF JournalStep
<1> QED  BY <1>1, <1>2, <1>3, Kept, GatewaySound DEF GatewayStep

LEMMA RetiredStep ==
  ASSUME QueueInv, NEW m \in Messages, Retired(m)
  PROVE  StepOK
<1>1. /\ retained' = retained \ {m} /\ UNCHANGED journal
      /\ account' = account /\ lane' = lane /\ disp' = disp /\ executed' = executed /\ UNCHANGED native
      /\ wire' = wire /\ deletion' = deletion /\ start' = start
  BY DEF Retired, requests
<1>2. lane' \in Lane /\ LaneOK'
  BY <1>1, LaneKept DEF journal
<1>3. disp' \in Disp /\ DispOK'
  BY <1>1, DispKept DEF native
<1>4. Requests
  BY <1>1, RequestsKept
<1> QED  BY <1>1, <1>2, <1>3, <1>4, Kept, QuietSound

\* A cancellation has nothing to keep but the name of its message.
LEMMA LaneCancels ==
  ASSUME NEW m \in Messages, NEW stage \in {"listing", "deleting"}, lane' = [stage |-> stage, msg |-> m]
  PROVE  lane' \in Lane /\ LaneOK'
  BY DEF Lane, LaneOK

LEMMA CancelStep ==
  ASSUME QueueInv, NEW m \in Messages, Cancel(m)
  PROVE  StepOK
<1>1. /\ lane' = [stage |-> "listing", msg |-> m] /\ UNCHANGED journal
      /\ account' = account /\ disp' = disp /\ retained' = retained /\ executed' = executed /\ UNCHANGED native
      /\ wire' = wire /\ deletion' = deletion /\ start' = start
  BY DEF Cancel, requests
<1>2. lane' \in Lane /\ LaneOK'
  BY <1>1, LaneCancels
<1>3. disp' \in Disp /\ DispOK'
  BY <1>1, DispKept DEF native
<1>4. Requests
  BY <1>1, RequestsKept
<1> QED  BY <1>1, <1>2, <1>3, <1>4, Kept, QuietSound

\* A queue/delete is sent, or its answer is forgotten.
LEMMA DeletionKept ==
  ASSUME QueueInv, NEW m \in Messages, NEW sent \in {"none", "sent"},
         deletion' = [deletion EXCEPT ![m] = sent], wire' = wire, start' = start
  PROVE  Requests
<1>1. /\ wire \subseteq Messages
      /\ deletion \in [Messages -> {"none", "sent", "deleted", "missed"}]
      /\ start \in [Messages -> {"none", "sent", "started", "busy", "missed"}]
  BY DEF QueueInv, TypeOK
<1>2. /\ deletion' \in [Messages -> {"none", "sent", "deleted", "missed"}]
      /\ \A k \in Messages : deletion'[k] = "deleted" => deletion[k] = "deleted"
  BY <1>1
<1> QED  BY <1>1, <1>2 DEF Requests

LEMMA CancelListedStep ==
  ASSUME QueueInv, NEW m \in Messages, CancelListed(m)
  PROVE  StepOK
<1>1. /\ UNCHANGED journal
      /\ account' = account /\ disp' = disp /\ retained' = retained /\ executed' = executed /\ UNCHANGED native
      /\ wire' = wire /\ start' = start
      /\ \/ lane' = [stage |-> "deleting", msg |-> m] /\ deletion' = [deletion EXCEPT ![m] = "sent"]
         \/ lane' = Free /\ deletion' = deletion
  BY DEF CancelListed
<1>2. lane' \in Lane /\ LaneOK'
  BY <1>1, LaneCancels, LaneFree
<1>3. disp' \in Disp /\ DispOK'
  BY <1>1, DispKept DEF native
<1>4. Requests
  <2>1. CASE deletion' = [deletion EXCEPT ![m] = "sent"]
    BY <1>1, <2>1, DeletionKept
  <2>2. CASE deletion' = deletion
    BY <1>1, <2>2, RequestsKept
  <2> QED  BY <1>1, <2>1, <2>2
<1> QED  BY <1>1, <1>2, <1>3, <1>4, Kept, QuietSound

LEMMA CancelAnsweredStep ==
  ASSUME QueueInv, NEW m \in Messages, CancelAnswered(m)
  PROVE  StepOK
<1>1. /\ ~down /\ lane' = Free /\ deletion' = [deletion EXCEPT ![m] = "none"]
      /\ account' = account /\ disp' = disp /\ executed' = executed /\ UNCHANGED native
      /\ wire' = wire /\ start' = start
      /\ \/ deletion[m] = "deleted" /\ Journal(Set(m, "cancelled")) /\ retained' = retained \ {m}
         \/ UNCHANGED journal /\ retained' = retained
  BY DEF CancelAnswered
<1>2. Requests
  BY <1>1, DeletionKept
<1>3. CASE deletion[m] = "deleted" /\ Journal(Set(m, "cancelled")) /\ retained' = retained \ {m}
  <2> DEFINE r == [mem[m] EXCEPT !.status = "cancelled"]
  <2>1. mem[m] \in Receipt /\ RowOK(m, mem[m]) /\ Gone(m)
    BY <1>3 DEF QueueInv, TypeOK, RowsOK, PlaceOK
  <2>2. r.status = "cancelled" /\ r.delivered = mem[m].delivered /\ r \in Receipt
    BY <2>1 DEF Receipt, Statuses
  <2> HIDE DEF r
  <2>3. Closed(m, r)
    BY <2>1, <2>2 DEF Closed, RowOK
  <2>4. NextOK(Put(m, r), {m})
    BY <2>2, <2>3, PutOK
  <2>5. Set(m, "cancelled") = Put(m, r)
    BY SetIsPut DEF r, Statuses
  <2>6. Written({m}) /\ EndWatches({})
    BY <1>1, <1>3, <2>4, <2>5, JournalWritten
  <2> QED  BY <1>1, <1>2, <1>3, <2>6, LaneEnds
<1>4. CASE UNCHANGED journal /\ retained' = retained
  <2>1. lane' \in Lane /\ LaneOK'
    BY <1>1, LaneFree
  <2>2. disp' \in Disp /\ DispOK'
    BY <1>1, DispKept DEF native
  <2> QED  BY <1>1, <1>2, <1>4, <2>1, <2>2, Kept, QuietSound
<1> QED  BY <1>1, <1>3, <1>4

\* A failed read or answer: nothing is written.
LEMMA FaultEffect ==
  ASSUME QueueInv, Fault
  PROVE  UNCHANGED <<mem, file, down>> /\ faults' \in Nat
  BY Kept DEF Fault

LEMMA CancelLostStep ==
  ASSUME QueueInv, NEW m \in Messages, CancelLost(m)
  PROVE  StepOK
<1>1. /\ Fault /\ EndWatches({}) /\ lane' = Free
      /\ deletion' = [deletion EXCEPT ![m] = IF deletion[m] = "sent" THEN "sent" ELSE "none"]
      /\ account' = account /\ disp' = disp /\ retained' = retained /\ executed' = executed
      /\ wire' = wire /\ start' = start
      /\ queue' = queue /\ turn' = turn /\ indexed' = indexed /\ busy' = busy /\ adds' = adds
  BY DEF CancelLost, native
<1>2. Requests
  BY <1>1, DeletionKept
<1>3. lane' \in Lane /\ LaneOK'
  BY <1>1, LaneFree
<1>4. disp' \in Disp /\ DispOK'
  BY <1>1, DispKept
<1>5. watch' \in Watches /\ \A k \in Messages : WatchOK(k)'
  BY <1>1, WatchKept
<1>6. JournalStep
  BY <1>1, FaultEffect DEF JournalStep
<1> QED  BY <1>1, <1>2, <1>3, <1>4, <1>5, <1>6, Kept, GatewaySound DEF GatewayStep

LEMMA LaneDownStep ==
  ASSUME QueueInv, LaneDown
  PROVE  StepOK
<1>1. /\ lane' = Free /\ UNCHANGED journal
      /\ account' = account /\ disp' = disp /\ retained' = retained /\ executed' = executed /\ UNCHANGED native
      /\ wire' = wire /\ deletion' = deletion /\ start' = start
  BY DEF LaneDown, requests
<1>2. lane' \in Lane /\ LaneOK'
  BY <1>1, LaneFree
<1>3. disp' \in Disp /\ DispOK'
  BY <1>1, DispKept DEF native
<1>4. Requests
  BY <1>1, RequestsKept
<1> QED  BY <1>1, <1>2, <1>3, <1>4, Kept, QuietSound

-----------------------------------------------------------------------------
(* Observations.                                                            *)

\* A result is applied: the row may change, and the observation has ended.
LEMMA ObservedSound ==
  ASSUME QueueInv, ~down, NEW m \in Messages, NEW next, NextOK(next, {}), Observed(m, next),
         lane' = lane, disp' = disp, account' = account, executed' = executed, UNCHANGED native,
         retained' = retained, UNCHANGED requests
  PROVE  StepOK
<1>1. (Saves(next) \/ SaveFails(next)) /\ EndWatches({m})
  BY DEF Observed
<1>2. Written({})
  BY <1>1, SavesWritten
<1>3. watch' \in Watches /\ \A k \in Messages : WatchOK(k)'
  BY <1>1, WatchKept DEF native
<1>4. Requests
  BY RequestsKept DEF requests
<1> QED  BY <1>2, <1>3, <1>4, LiveSound

LEMMA ObserveListStep ==
  ASSUME QueueInv, NEW m \in Messages, ObserveList(m)
  PROVE  StepOK
<1>1. /\ mem[m].status \in Unsettled
      /\ watch' = [watch EXCEPT ![m] = IF Queued(m) THEN "present" ELSE "absent"]
      /\ mem' = mem /\ file' = file /\ down' = down /\ faults' = faults
      /\ account' = account /\ lane' = lane /\ disp' = disp /\ retained' = retained /\ executed' = executed
      /\ UNCHANGED native /\ wire' = wire /\ deletion' = deletion /\ start' = start
  BY DEF ObserveList, requests
<1>2. watch \in Watches /\ \A k \in Messages : WatchOK(k)
  BY DEF QueueInv, TypeOK, Watches
<1>3. watch' \in Watches /\ watch'[m] \in {"present", "absent"} /\ \A k \in Messages : k # m => watch'[k] = watch[k]
  BY <1>1, <1>2 DEF Watches
<1>4. \A k \in Messages : WatchOK(k)'
  BY <1>1, <1>2, <1>3 DEF WatchOK, native
<1>5. Requests
  BY <1>1, RequestsKept
<1> QED  BY <1>1, <1>3, <1>4, <1>5, Kept, LiveSound

LEMMA WatchedState ==
  ASSUME QueueInv, NEW m \in Messages, watch[m] # "no"
  PROVE  mem[m].status # "cancelled" /\ (watch[m] = "located" => turn[m] # "none")
  BY DEF QueueInv, WatchOK, Unsettled, PlaceOK

LEMMA ObservePresentStep ==
  ASSUME QueueInv, NEW m \in Messages, ObservePresent(m)
  PROVE  StepOK
<1>1. /\ watch[m] # "no" /\ ~down /\ Observed(m, Set(m, "queued"))
      /\ account' = account /\ lane' = lane /\ disp' = disp /\ retained' = retained /\ executed' = executed
      /\ UNCHANGED native /\ UNCHANGED requests
  BY DEF ObservePresent
<1>2. NextOK(Set(m, "queued"), {})
  BY <1>1, WatchedState, SetOK DEF Statuses, Closing, Submittable
<1> QED  BY <1>1, <1>2, ObservedSound

LEMMA ObserveAbsentStep ==
  ASSUME QueueInv, NEW m \in Messages, ObserveAbsent(m)
  PROVE  StepOK
<1>1. /\ watch[m] = "absent" /\ ~down
      /\ \/ /\ m \in indexed
            /\ watch' = [watch EXCEPT ![m] = "located"]
            /\ mem' = mem /\ file' = file /\ down' = down /\ faults' = faults
         \/ Observed(m, Set(m, "uncertain"))
      /\ account' = account /\ lane' = lane /\ disp' = disp /\ retained' = retained /\ executed' = executed
      /\ UNCHANGED native /\ UNCHANGED requests
  BY DEF ObserveAbsent
<1>2. CASE Observed(m, Set(m, "uncertain"))
  <2>1. NextOK(Set(m, "uncertain"), {})
    BY <1>1, WatchedState, SetOK DEF Statuses, Closing, Submittable
  <2> QED  BY <1>1, <1>2, <2>1, ObservedSound
<1>3. CASE /\ m \in indexed
           /\ watch' = [watch EXCEPT ![m] = "located"]
           /\ mem' = mem /\ file' = file /\ down' = down /\ faults' = faults
  <2>1. watch \in Watches /\ \A k \in Messages : WatchOK(k)
    BY DEF QueueInv, TypeOK, Watches
  <2>2. watch' \in Watches /\ watch'[m] = "located" /\ \A k \in Messages : k # m => watch'[k] = watch[k]
    BY <1>3, <2>1 DEF Watches
  <2>3. mem[m].status \in Unsettled
    BY <1>1, <2>1 DEF WatchOK
  <2>4. \A k \in Messages : WatchOK(k)'
    BY <1>1, <1>3, <2>1, <2>2, <2>3 DEF WatchOK, native
  <2>5. Requests
    BY <1>1, RequestsKept DEF requests
  <2> QED  BY <1>1, <1>3, <2>2, <2>4, <2>5, Kept, LiveSound
<1> QED  BY <1>1, <1>2, <1>3

LEMMA ObserveLocatedStep ==
  ASSUME QueueInv, NEW m \in Messages, ObserveLocated(m)
  PROVE  StepOK
<1> DEFINE next == Known(m, IF turn[m] = "active" THEN "running" ELSE "completed")
<1>1. /\ watch[m] = "located" /\ ~down
      /\ \/ Observed(m, next)
         \/ /\ faults' = faults + 1
            /\ mem' = Known(m, "uncertain") /\ file' = Known(m, "uncertain") /\ down' = down
            /\ EndWatches({m})
      /\ account' = account /\ lane' = lane /\ disp' = disp /\ retained' = retained /\ executed' = executed
      /\ UNCHANGED native /\ UNCHANGED requests
  BY DEF ObserveLocated
<1>2. mem[m].status # "cancelled" /\ turn[m] # "none"
  BY <1>1, WatchedState
<1>3. turn[m] \in {"none", "active", "ended"} /\ faults + 1 \in Nat /\ down \in BOOLEAN
  BY DEF QueueInv, TypeOK
<1>4. NextOK(next, {})
  BY <1>2, <1>3, SetOK DEF Statuses, Closing, Submittable
<1>5. CASE Observed(m, next)
  <2> HIDE DEF next
  <2> QED  BY <1>1, <1>4, <1>5, ObservedSound
<1>6. CASE /\ faults' = faults + 1
           /\ mem' = Known(m, "uncertain") /\ file' = Known(m, "uncertain") /\ down' = down
           /\ EndWatches({m})
  <2>1. NextOK(Known(m, "uncertain"), {})
    BY <1>2, SetOK DEF Statuses, Closing, Submittable
  <2>2. Written({})
    BY <1>1, <1>3, <1>6, <2>1, BothWritten
  <2>3. watch' \in Watches /\ \A k \in Messages : WatchOK(k)'
    BY <1>1, <1>6, WatchKept DEF native
  <2>4. Requests
    BY <1>1, RequestsKept DEF requests
  <2> QED  BY <1>1, <2>2, <2>3, <2>4, LiveSound
<1> QED  BY <1>1, <1>5, <1>6

LEMMA ObserveFailsStep ==
  ASSUME QueueInv, NEW m \in Messages, ObserveFails(m)
  PROVE  StepOK
<1>1. /\ Fault /\ EndWatches({m})
      /\ account' = account /\ lane' = lane /\ disp' = disp /\ retained' = retained /\ executed' = executed
      /\ UNCHANGED native /\ UNCHANGED requests
  BY DEF ObserveFails
<1>2. UNCHANGED <<mem, file, down>> /\ faults' \in Nat
  BY <1>1, FaultEffect
<1>3. watch' \in Watches /\ \A k \in Messages : WatchOK(k)'
  BY <1>1, WatchKept DEF native
<1>4. Requests
  BY <1>1, RequestsKept DEF requests
<1> QED  BY <1>1, <1>2, <1>3, <1>4, LiveSound

-----------------------------------------------------------------------------
(* The dispatch.                                                            *)

\* d is a state the dispatch may be in.
StageOK(d) ==
  /\ d \in Disp
  /\ d.stage \in {"inspecting", "executing", "starting", "observing", "delivering"} => d.msg \in Messages
  /\ d.stage = "delivering" => turn[d.msg] = "ended"

LEMMA StageKept ==
  ASSUME NEW d, StageOK(d), disp' = d, turn' = turn
  PROVE  disp' \in Disp /\ DispOK'
  BY DEF StageOK, DispOK

LEMMA RestOK == StageOK(Rest)
  BY DEF StageOK, Rest, Disp, Stages

LEMMA PastOK ==
  ASSUME QueueInv, NEW m \in Messages
  PROVE  StageOK(Past(m))
<1>1. disp \in Disp
  BY DEF QueueInv, TypeOK, Disp
<1> DEFINE d == [disp EXCEPT !.stage = "next", !.msg = None, !.todo = @ \ {m}, !.observing = FALSE, !.as = "fresh"]
<1>2. d \in Disp /\ d.stage = "next"
  BY <1>1 DEF Disp, Stages
<1>3. Past(m) = Rest \/ Past(m) = d
  BY DEF Past
<1> HIDE DEF d
<1> QED  BY <1>2, <1>3, RestOK DEF StageOK

\* The dispatch turns to another stage of the same message.
LEMMA TurnTo ==
  ASSUME QueueInv, disp.msg \in Messages,
         NEW stage \in {"executing", "starting", "observing"}
  PROVE  StageOK([disp EXCEPT !.stage = stage])
<1>1. disp \in Disp
  BY DEF QueueInv, TypeOK, Disp
<1> DEFINE d == [disp EXCEPT !.stage = stage]
<1>2. d \in Disp /\ d.stage = stage /\ d.msg = disp.msg
  BY <1>1 DEF Disp, Stages
<1> HIDE DEF d
<1>3. StageOK(d)
  BY <1>2 DEF StageOK
<1> QED  BY <1>3 DEF d

LEMMA DispSound ==
  ASSUME QueueInv, Written({}) \/ (UNCHANGED <<mem, file, down>> /\ faults' \in Nat), EndWatches({}),
         NEW d, StageOK(d), disp' = d, lane' = lane, account' = account, executed' \subseteq Messages,
         UNCHANGED native, retained' = retained, Requests
  PROVE  StepOK
<1>1. /\ queue' = queue /\ turn' = turn /\ indexed' = indexed /\ busy' = busy /\ adds' = adds
  BY DEF native
<1>2. disp' \in Disp /\ DispOK'
  BY <1>1, StageKept
<1>3. lane' \in Lane /\ LaneOK'
  BY LaneKept
<1>4. watch' \in Watches /\ \A k \in Messages : WatchOK(k)'
  BY <1>1, WatchKept
<1>5. JournalStep
  <2>1. CASE Written({})
    BY <2>1, ClosingIsMessages
  <2>2. CASE UNCHANGED <<mem, file, down>> /\ faults' \in Nat
    BY <2>2 DEF JournalStep
  <2> QED  BY <2>1, <2>2
<1> QED  BY <1>1, <1>2, <1>3, <1>4, <1>5, Kept, GatewaySound DEF GatewayStep

\* A stage that writes nothing.
LEMMA DispQuiet ==
  ASSUME QueueInv, UNCHANGED journal, NEW d, StageOK(d), disp' = d, lane' = lane, account' = account,
         executed' \subseteq Messages, UNCHANGED native, retained' = retained, UNCHANGED requests
  PROVE  StepOK
<1>1. disp' \in Disp /\ DispOK'
  BY StageKept DEF native
<1>2. lane' \in Lane /\ LaneOK'
  BY LaneKept DEF journal
<1>3. Requests
  BY RequestsKept DEF requests
<1> QED  BY <1>1, <1>2, <1>3, QuietSound

LEMMA ThrowSound ==
  ASSUME QueueInv, ~down, NEW base, NextOK(base, {}), NEW refused \in BOOLEAN, NEW spent \in Nat,
         ThrowFrom(base, refused, spent), lane' = lane, account' = account, executed' = executed,
         UNCHANGED native, retained' = retained, Requests
  PROVE  StepOK
<1>1. Written({}) /\ EndWatches({}) /\ disp' = Rest
  BY ThrowWritten
<1> QED  BY <1>1, RestOK, Kept, DispSound

LEMMA ProceedSound ==
  ASSUME QueueInv, ~down, NEW next, NextOK(next, {}), NEW d, StageOK(d), Proceed(next, d),
         lane' = lane, account' = account, executed' = executed, UNCHANGED native, retained' = retained, Requests
  PROVE  StepOK
<1>1. Written({}) /\ EndWatches({}) /\ (disp' = d \/ disp' = Rest)
  BY ProceedWritten
<1> QED  BY <1>1, RestOK, Kept, DispSound

LEMMA DispatchStarts ==
  ASSUME QueueInv, NEW a \in Accounts, Dispatch(a)
  PROVE  StepOK
<1> DEFINE d == [Rest EXCEPT !.stage = "next", !.todo = Candidates(a), !.group = Candidates(a)]
<1>1. /\ disp' = d /\ UNCHANGED journal
      /\ account' = account /\ lane' = lane /\ retained' = retained /\ executed' = executed
      /\ UNCHANGED native /\ UNCHANGED requests
  BY DEF Dispatch
<1>2. Candidates(a) \in SUBSET Messages
  BY DEF Candidates
<1>3. d \in Disp /\ d.stage = "next"
  BY <1>2 DEF Rest, Disp, Stages
<1> HIDE DEF d
<1>4. StageOK(d)
  BY <1>3 DEF StageOK
<1> QED  BY <1>1, <1>4, Kept, DispQuiet

LEMMA VisitStep ==
  ASSUME QueueInv, NEW m \in Messages, Visit(m)
  PROVE  StepOK
<1> DEFINE d == [disp EXCEPT !.stage = "inspecting", !.msg = m, !.observing = mem[m].turn]
<1>1. /\ disp' = d \/ disp' = Past(m)
      /\ UNCHANGED journal
      /\ account' = account /\ lane' = lane /\ retained' = retained /\ executed' = executed
      /\ UNCHANGED native /\ UNCHANGED requests
  BY DEF Visit
<1>2. disp \in Disp /\ mem[m].turn \in BOOLEAN
  BY DEF QueueInv, TypeOK, Disp, Receipt
<1>3. d \in Disp /\ d.stage = "inspecting" /\ d.msg = m
  BY <1>2 DEF Disp, Stages
<1> HIDE DEF d
<1>4. StageOK(d)
  BY <1>3 DEF StageOK
<1> QED  BY <1>1, <1>4, PastOK, Kept, DispQuiet

\* Where the dispatch is at m.
LEMMA AtState ==
  ASSUME QueueInv, NEW m \in Messages, NEW stage, At(m, stage)
  PROVE  disp.msg = m /\ disp.msg \in Messages /\ disp.stage = stage /\ ~down
  BY DEF At

LEMMA InspectStep ==
  ASSUME QueueInv, NEW m \in Messages, Inspect(m)
  PROVE  StepOK
<1> DEFINE d == [disp EXCEPT !.stage = "executing", !.as = CopyOf(m)]
<1>1. /\ At(m, "inspecting")
      /\ (disp' = d /\ executed' = executed \union {m}) \/ (disp' = Past(m) /\ executed' = executed)
      /\ UNCHANGED journal
      /\ account' = account /\ lane' = lane /\ retained' = retained
      /\ UNCHANGED native /\ UNCHANGED requests
  BY DEF Inspect
<1>2. disp \in Disp /\ CopyOf(m) \in {"fresh", "turn", "terminal"} /\ disp.msg \in Messages
  BY <1>1, AtState DEF QueueInv, TypeOK, Disp, CopyOf
<1>3. d \in Disp /\ d.stage = "executing" /\ d.msg = disp.msg
  BY <1>2 DEF Disp, Stages
<1> HIDE DEF d
<1>4. StageOK(d)
  BY <1>2, <1>3 DEF StageOK
<1>5. executed' \subseteq Messages
  BY <1>1, Kept
<1> QED  BY <1>1, <1>4, <1>5, PastOK, DispQuiet

LEMMA DispatchFailsStep ==
  ASSUME QueueInv, NEW m \in Messages, DispatchFails(m)
  PROVE  StepOK
<1>1. /\ ~down /\ ThrowFrom(mem, FALSE, 1)
      /\ account' = account /\ lane' = lane /\ retained' = retained /\ executed' = executed
      /\ UNCHANGED native /\ wire' = wire /\ deletion' = deletion /\ start' = start
  BY DEF DispatchFails, At, requests
<1> QED  BY <1>1, MemOK, RequestsKept, ThrowSound

\* onTurnStarted of a turn that is known to have begun.
LEMMA StartedSound ==
  ASSUME QueueInv, ~down, NEW m \in Messages, disp.msg \in Messages, turn[m] # "none", Started(m),
         lane' = lane, account' = account, executed' = executed, UNCHANGED native, retained' = retained, Requests
  PROVE  StepOK
<1>1. NextOK(Known(m, "running"), {})
  BY NotCancelled, SetOK DEF Statuses, Closing, Submittable
<1>2. StageOK([disp EXCEPT !.stage = "observing"])
  BY TurnTo
<1>3. Proceed(Known(m, "running"), [disp EXCEPT !.stage = "observing"])
  BY DEF Started
<1> QED  BY <1>1, <1>2, <1>3, ProceedSound

LEMMA ObserveOnlyStep ==
  ASSUME QueueInv, NEW m \in Messages, ObserveOnly(m)
  PROVE  StepOK
<1>1. /\ At(m, "executing")
      /\ (turn[m] = "ended" /\ Started(m)) \/ ThrowFrom(mem, FALSE, 0)
      /\ account' = account /\ lane' = lane /\ retained' = retained /\ executed' = executed
      /\ UNCHANGED native /\ wire' = wire /\ deletion' = deletion /\ start' = start
  BY DEF ObserveOnly, requests
<1>2. disp.msg \in Messages /\ ~down
  BY <1>1, AtState
<1>3. Requests
  BY <1>1, RequestsKept
<1> QED  BY <1>1, <1>2, <1>3, MemOK, StartedSound, ThrowSound

\* A turn in the history has begun.
LEMMA IndexedBegan ==
  ASSUME QueueInv, NEW m \in Messages, m \in indexed
  PROVE  turn[m] # "none"
  BY DEF QueueInv, PlaceOK

LEMMA AdoptStep ==
  ASSUME QueueInv, NEW m \in Messages, Adopt(m)
  PROVE  StepOK
<1>1. /\ At(m, "executing") /\ m \in indexed /\ Started(m)
      /\ account' = account /\ lane' = lane /\ retained' = retained /\ executed' = executed
      /\ UNCHANGED native /\ wire' = wire /\ deletion' = deletion /\ start' = start
  BY DEF Adopt, requests
<1>2. disp.msg \in Messages /\ ~down
  BY <1>1, AtState
<1>3. Requests
  BY <1>1, RequestsKept
<1> QED  BY <1>1, <1>2, <1>3, IndexedBegan, StartedSound

LEMMA NotFoundStep ==
  ASSUME QueueInv, NEW m \in Messages, NotFound(m)
  PROVE  StepOK
<1>1. /\ ~down /\ ThrowFrom(mem, FALSE, 0)
      /\ account' = account /\ lane' = lane /\ retained' = retained /\ executed' = executed
      /\ UNCHANGED native /\ wire' = wire /\ deletion' = deletion /\ start' = start
  BY DEF NotFound, At, requests
<1> QED  BY <1>1, MemOK, RequestsKept, ThrowSound

\* The answer of a queue/start is taken, or its request left on the way.
LEMMA StartForgotten ==
  ASSUME QueueInv, NEW m \in Messages, NEW s \in {"none", start[m]} \ {"started"},
         start' = [start EXCEPT ![m] = s], wire' = wire, deletion' = deletion
  PROVE  Requests
<1>1. /\ wire \subseteq Messages
      /\ deletion \in [Messages -> {"none", "sent", "deleted", "missed"}]
      /\ start \in [Messages -> {"none", "sent", "started", "busy", "missed"}]
  BY DEF QueueInv, TypeOK
<1>2. /\ start' \in [Messages -> {"none", "sent", "started", "busy", "missed"}]
      /\ \A k \in Messages : start'[k] = start[k] \/ start'[k] = "none"
  BY <1>1
<1> QED  BY <1>1, <1>2 DEF Requests

LEMMA HeadQueued ==
  ASSUME QueueInv, NEW m \in Messages, First = m
  PROVE  Queued(m)
<1>1. queue # <<>> /\ queue \in Seq(Messages \union Foreign) /\ queue[1] = m
  BY OthersAssumption DEF First, QueueInv, QueueOK
<1>2. 1 \in DOMAIN queue
  BY <1>1
<1> QED  BY <1>1, <1>2, InQueue

LEMMA StartHeadStep ==
  ASSUME QueueInv, NEW m \in Messages, StartHead(m)
  PROVE  StepOK
<1> DEFINE d == [disp EXCEPT !.stage = "starting"]
<1>1. /\ At(m, "executing") /\ First = m
      /\ \/ mem[m].status = "queued" /\ Proceed(Set(m, "starting"), d)
         \/ ThrowFrom(mem, FALSE, 0)
      /\ start' = [start EXCEPT ![m] = IF disp'.stage = "starting" THEN "sent" ELSE start[m]]
      /\ account' = account /\ lane' = lane /\ retained' = retained /\ executed' = executed
      /\ UNCHANGED native /\ wire' = wire /\ deletion' = deletion
  BY DEF StartHead, AtHead
<1>2. disp.msg \in Messages /\ ~down
  BY <1>1, AtState
<1>3. Queued(m)
  BY <1>1, HeadQueued
<1>4. adds[m] = 1
  BY <1>3 DEF QueueInv, PlaceOK
<1>5. Requests
  <2>1. /\ wire \subseteq Messages
        /\ deletion \in [Messages -> {"none", "sent", "deleted", "missed"}]
        /\ start \in [Messages -> {"none", "sent", "started", "busy", "missed"}]
    BY DEF QueueInv, TypeOK
  <2>2. /\ start' \in [Messages -> {"none", "sent", "started", "busy", "missed"}]
        /\ start'[m] \in {"sent", start[m]}
        /\ \A k \in Messages : k # m => start'[k] = start[k]
    BY <1>1, <2>1
  <2> QED  BY <1>1, <1>4, <2>1, <2>2 DEF Requests
<1>6. StageOK(d)
  BY <1>2, TurnTo
<1>7. CASE mem[m].status = "queued" /\ Proceed(Set(m, "starting"), d)
  <2>1. NextOK(Set(m, "starting"), {})
    BY <1>7, SetOK DEF Statuses, Closing, Submittable
  <2> HIDE DEF d
  <2> QED  BY <1>1, <1>2, <1>5, <1>6, <1>7, <2>1, ProceedSound
<1>8. CASE ThrowFrom(mem, FALSE, 0)
  BY <1>1, <1>2, <1>5, <1>8, MemOK, ThrowSound
<1> QED  BY <1>1, <1>7, <1>8

LEMMA StartAnsweredStep ==
  ASSUME QueueInv, NEW m \in Messages, StartAnswered(m)
  PROVE  StepOK
<1>1. /\ At(m, "starting") /\ start[m] = "started" /\ Started(m)
      /\ start' = [start EXCEPT ![m] = "none"]
      /\ account' = account /\ lane' = lane /\ retained' = retained /\ executed' = executed
      /\ UNCHANGED native /\ wire' = wire /\ deletion' = deletion
  BY DEF StartAnswered
<1>2. disp.msg \in Messages /\ ~down
  BY <1>1, AtState
<1>3. Requests
  BY <1>1, StartForgotten
<1>4. turn[m] # "none"
  BY <1>1 DEF QueueInv, StartOK
<1> QED  BY <1>1, <1>2, <1>3, <1>4, StartedSound

LEMMA StartRefusedStep ==
  ASSUME QueueInv, NEW m \in Messages, StartRefused(m)
  PROVE  StepOK
<1>1. /\ At(m, "starting")
      /\ (m \in indexed /\ Started(m)) \/ ThrowFrom(mem, start[m] = "busy", 0)
      /\ start' = [start EXCEPT ![m] = "none"]
      /\ account' = account /\ lane' = lane /\ retained' = retained /\ executed' = executed
      /\ UNCHANGED native /\ wire' = wire /\ deletion' = deletion
  BY DEF StartRefused
<1>2. disp.msg \in Messages /\ ~down
  BY <1>1, AtState
<1>3. Requests
  BY <1>1, StartForgotten
<1>4. (start[m] = "busy") \in BOOLEAN
  OBVIOUS
<1> QED  BY <1>1, <1>2, <1>3, <1>4, IndexedBegan, MemOK, StartedSound, ThrowSound

LEMMA StartLostStep ==
  ASSUME QueueInv, NEW m \in Messages, StartLost(m)
  PROVE  StepOK
<1>1. /\ At(m, "starting")
      /\ (m \in indexed /\ Started(m)) \/ ThrowFrom(mem, FALSE, 1)
      /\ \E s \in {"none"} \union ({start[m]} \intersect {"sent"}) : start' = [start EXCEPT ![m] = s]
      /\ account' = account /\ lane' = lane /\ retained' = retained /\ executed' = executed
      /\ UNCHANGED native /\ wire' = wire /\ deletion' = deletion
  BY DEF StartLost
<1>2. disp.msg \in Messages /\ ~down
  BY <1>1, AtState
<1>3. Requests
  BY <1>1, StartForgotten
<1> QED  BY <1>1, <1>2, <1>3, IndexedBegan, MemOK, StartedSound, ThrowSound

LEMMA TurnObservedStep ==
  ASSUME QueueInv, NEW m \in Messages, TurnObserved(m)
  PROVE  StepOK
<1> DEFINE d == [disp EXCEPT !.stage = "delivering"]
<1>1. /\ At(m, "observing") /\ turn[m] = "ended" /\ disp' = d
      /\ UNCHANGED journal
      /\ account' = account /\ lane' = lane /\ retained' = retained /\ executed' = executed
      /\ UNCHANGED native /\ UNCHANGED requests
  BY DEF TurnObserved
<1>2. disp \in Disp /\ disp.msg = m
  BY <1>1, AtState DEF QueueInv, TypeOK, Disp
<1>3. d \in Disp /\ d.msg = m
  BY <1>2 DEF Disp, Stages
<1> HIDE DEF d
<1>4. StageOK(d)
  BY <1>1, <1>3 DEF StageOK
<1> QED  BY <1>1, <1>4, Kept, DispQuiet

\* The turn whose result is delivered has ended.
LEMMA DeliveringState ==
  ASSUME QueueInv, NEW m \in Messages, At(m, "delivering")
  PROVE  ~down /\ turn[m] = "ended" /\ mem[m].status # "cancelled"
<1>1. disp.msg = m /\ disp.stage = "delivering" /\ ~down
  BY AtState
<1>2. turn[m] = "ended"
  BY <1>1 DEF QueueInv, DispOK
<1> QED  BY <1>1, <1>2, NotCancelled

LEMMA DeliveredStep ==
  ASSUME QueueInv, NEW m \in Messages, Delivered(m)
  PROVE  StepOK
<1> DEFINE r == [mem[m] EXCEPT !.status = "completed", !.delivered = TRUE]
<1>1. /\ At(m, "delivering")
      /\ Proceed([mem EXCEPT ![m].status = "completed", ![m].delivered = TRUE], Past(m))
      /\ account' = account /\ lane' = lane /\ retained' = retained /\ executed' = executed
      /\ UNCHANGED native /\ wire' = wire /\ deletion' = deletion /\ start' = start
  BY DEF Delivered, requests
<1>2. ~down /\ turn[m] = "ended" /\ mem[m].status # "cancelled"
  BY <1>1, DeliveringState
<1>3. mem \in [Messages -> Receipt] /\ mem[m] \in Receipt
  BY DEF QueueInv, TypeOK
<1>4. r \in Receipt /\ r.status = "completed"
  BY <1>3 DEF Receipt, Statuses
<1>5. [mem EXCEPT ![m].status = "completed", ![m].delivered = TRUE] = Put(m, r)
  BY <1>3 DEF Put
<1> HIDE DEF r
<1>6. New(m, r)
  BY <1>2, <1>4 DEF New, Closing, Submittable
<1>7. NextOK(Put(m, r), {})
  BY <1>4, <1>6, PutOK
<1>8. Proceed(Put(m, r), Past(m))
  BY <1>1, <1>5
<1>9. Requests
  BY <1>1, RequestsKept
<1> QED  BY <1>1, <1>2, <1>7, <1>8, <1>9, PastOK, ProceedSound

LEMMA UndeliveredStep ==
  ASSUME QueueInv, NEW m \in Messages, Undelivered(m)
  PROVE  StepOK
<1>1. /\ At(m, "delivering")
      /\ \/ /\ faults' = faults + 1
            /\ mem' = Set(m, "completed") /\ file' = Set(m, "completed") /\ down' = down
            /\ EndWatches({})
            /\ disp' = Past(m)
         \/ \E base \in {mem, Set(m, "completed")} : ThrowFrom(base, FALSE, 2)
      /\ account' = account /\ lane' = lane /\ retained' = retained /\ executed' = executed
      /\ UNCHANGED native /\ wire' = wire /\ deletion' = deletion /\ start' = start
  BY DEF Undelivered, requests
<1>2. ~down /\ turn[m] = "ended" /\ mem[m].status # "cancelled"
  BY <1>1, DeliveringState
<1>3. NextOK(Set(m, "completed"), {})
  BY <1>2, SetOK DEF Statuses, Closing, Submittable
<1>4. Requests
  BY <1>1, RequestsKept
<1>5. CASE /\ faults' = faults + 1
           /\ mem' = Set(m, "completed") /\ file' = Set(m, "completed") /\ down' = down
           /\ EndWatches({})
           /\ disp' = Past(m)
  <2>1. faults' \in Nat /\ down' \in BOOLEAN
    BY <1>5 DEF QueueInv, TypeOK
  <2>2. Written({})
    BY <1>2, <1>3, <1>5, <2>1, BothWritten
  <2> QED  BY <1>1, <1>4, <1>5, <2>2, PastOK, Kept, DispSound
<1>6. CASE \E base \in {mem, Set(m, "completed")} : ThrowFrom(base, FALSE, 2)
  BY <1>1, <1>2, <1>3, <1>4, <1>6, MemOK, ThrowSound
<1> QED  BY <1>1, <1>5, <1>6

LEMMA DispatchDownStep ==
  ASSUME QueueInv, DispatchDown
  PROVE  StepOK
<1>1. /\ disp' = Rest /\ UNCHANGED journal
      /\ account' = account /\ lane' = lane /\ retained' = retained /\ executed' = executed
      /\ UNCHANGED native /\ UNCHANGED requests
  BY DEF DispatchDown
<1> QED  BY <1>1, RestOK, Kept, DispQuiet

-----------------------------------------------------------------------------
(* The native queue, and a restart.                                         *)

NativeTypes ==
  /\ wire \subseteq Messages
  /\ deletion \in [Messages -> {"none", "sent", "deleted", "missed"}]
  /\ start \in [Messages -> {"none", "sent", "started", "busy", "missed"}]
  /\ turn \in [Messages -> {"none", "active", "ended"}]
  /\ indexed \subseteq Messages
  /\ busy \in BOOLEAN
  /\ adds \in [Messages -> Nat]

\* What the native queue never undoes.
Lasting(m) ==
  /\ adds[m] = 0 /\ m \notin wire => adds'[m] = 0 /\ m \notin wire'
  /\ Gone(m) => Gone(m)'
  /\ turn[m] = "ended" => turn'[m] = "ended"
  /\ m \in indexed => m \in indexed'
  /\ adds'[m] = adds[m] \/ (m \in wire /\ adds[m] = 0 /\ adds'[m] = 1)

LEMMA NativeTyped ==
  ASSUME QueueInv
  PROVE  NativeTypes
  BY DEF QueueInv, TypeOK, NativeTypes

LEMMA NativeSound ==
  ASSUME QueueInv, account' = account, UNCHANGED journal, lane' = lane, disp' = disp, retained' = retained,
         executed' = executed, NativeTypes', QueueOK',
         \A m \in Messages : PlaceOK(m)' /\ StartOK(m)' /\ Lasting(m) /\ Heads(m)
  PROVE  StepOK
<1>1. mem' = mem /\ file' = file /\ down' = down /\ watch' = watch /\ faults' = faults
  BY DEF journal
<1>2. TypeOK'
  <2>1. /\ account \in [Messages -> Accounts] /\ mem \in [Messages -> Receipt] /\ file \in [Messages -> Receipt]
        /\ down \in BOOLEAN /\ lane \in Lane /\ watch \in Watches /\ disp \in Disp
        /\ retained \subseteq Messages /\ executed \subseteq Messages /\ faults \in Nat
    BY DEF QueueInv, TypeOK, Lane, Watches, Disp
  <2>2. /\ account' \in [Messages -> Accounts] /\ mem' \in [Messages -> Receipt] /\ file' \in [Messages -> Receipt]
        /\ down' \in BOOLEAN /\ lane' \in Lane /\ watch' \in Watches /\ disp' \in Disp
        /\ retained' \subseteq Messages /\ executed' \subseteq Messages /\ faults' \in Nat
    BY <1>1, <2>1
  <2> QED  BY <2>2 DEF TypeOK, NativeTypes, QueueOK, Lane, Watches, Disp
<1>3. RowsOK'
  <2>1. ASSUME NEW m \in Messages, NEW r \in {mem'[m], file'[m]}
        PROVE  RowOK(m, r)'
    <3>1. RowOK(m, r)
      BY <1>1, <2>1 DEF QueueInv, RowsOK
    <3> QED  BY <3>1 DEF RowOK, Lasting
  <2> QED  BY <2>1 DEF RowsOK
<1>4. FileOK'
  BY <1>1 DEF QueueInv, FileOK
<1>5. \A m \in Messages : WatchOK(m)'
  BY <1>1 DEF QueueInv, WatchOK, Lasting
<1>6. LaneOK'
  BY <1>1 DEF QueueInv, LaneOK
<1>7. DispOK'
  BY DEF QueueInv, DispOK, Lasting
<1>8. QueueInv'
  BY <1>2, <1>3, <1>4, <1>5, <1>6, <1>7 DEF QueueInv
<1>9. ASSUME NEW m \in Messages
      PROVE  MoveOK(m) /\ Cancellations(m)
  <2>1. Reports(m)' = Reports(m)
    BY <1>1 DEF Reports
  <2>2. CASE adds'[m] = adds[m]
    BY <1>1, <2>1, <2>2 DEF MoveOK, Cancellations
  <2>3. CASE m \in wire /\ adds[m] = 0 /\ adds'[m] = 1
    <3>1. mem[m].status \notin Submittable
      BY <2>3 DEF QueueInv, RowsOK, RowOK
    <3>2. Reports(m) = "unknown"
      BY <3>1, ReportValues DEF Reports
    <3> QED  BY <1>1, <2>1, <2>3, <3>2 DEF MoveOK, Cancellations
  <2> QED  BY <2>2, <2>3 DEF Lasting
<1> QED  BY <1>8, <1>9 DEF StepOK

LEMMA NativeAddStep ==
  ASSUME QueueInv, NEW m \in Messages, NativeAdd(m)
  PROVE  StepOK
<1>1. /\ m \in wire /\ wire' = wire \ {m} /\ queue' = Append(queue, m) /\ adds' = [adds EXCEPT ![m] = adds[m] + 1]
      /\ account' = account /\ UNCHANGED journal /\ lane' = lane /\ disp' = disp /\ retained' = retained
      /\ deletion' = deletion /\ start' = start /\ turn' = turn /\ indexed' = indexed /\ busy' = busy
      /\ executed' = executed
  BY DEF NativeAdd
<1>2. NativeTypes /\ QueueOK /\ \A k \in Messages : PlaceOK(k) /\ StartOK(k)
  BY NativeTyped DEF QueueInv
<1>3. adds[m] = 0 /\ ~Queued(m) /\ turn[m] = "none" /\ start[m] # "sent" /\ m \notin indexed /\ deletion[m] # "deleted"
  BY <1>1, <1>2 DEF PlaceOK, StartOK, Gone
<1>4. /\ QueueOK'
      /\ \A x : Queued(x)' <=> Queued(x) \/ x = m
      /\ First # None => First' = First
  BY <1>1, <1>2, <1>3, AppendEffect
<1>5. adds'[m] = 1 /\ adds' \in [Messages -> Nat] /\ \A k \in Messages : k # m => adds'[k] = adds[k]
  BY <1>1, <1>2, <1>3 DEF NativeTypes
<1>6. NativeTypes'
  BY <1>1, <1>2, <1>5 DEF NativeTypes
<1>7. ASSUME NEW k \in Messages
      PROVE  PlaceOK(k)' /\ StartOK(k)' /\ Lasting(k) /\ Heads(k)
  <2>1. PlaceOK(k) /\ StartOK(k) /\ k # None
    BY <1>2, OthersAssumption
  <2>2. CASE k = m
    BY <1>1, <1>3, <1>4, <1>5, <2>1, <2>2 DEF PlaceOK, StartOK, Gone, Lasting, Heads
  <2>3. CASE k # m
    BY <1>1, <1>4, <1>5, <2>1, <2>3 DEF PlaceOK, StartOK, Gone, Lasting, Heads
  <2> QED  BY <2>2, <2>3
<1> QED  BY <1>1, <1>4, <1>6, <1>7, NativeSound

LEMMA NativeDropStep ==
  ASSUME QueueInv, NEW m \in Messages, NativeDrop(m)
  PROVE  StepOK
<1>1. /\ wire' = wire \ {m} /\ account' = account /\ UNCHANGED journal /\ lane' = lane /\ disp' = disp
      /\ retained' = retained /\ deletion' = deletion /\ start' = start /\ queue' = queue /\ turn' = turn
      /\ indexed' = indexed /\ busy' = busy /\ adds' = adds /\ executed' = executed
  BY DEF NativeDrop, native
<1>2. NativeTypes /\ QueueOK /\ \A k \in Messages : PlaceOK(k) /\ StartOK(k)
  BY NativeTyped DEF QueueInv
<1>3. QueueOK' /\ First' = First /\ \A x : Queued(x)' <=> Queued(x)
  BY <1>1, <1>2, SameQueue DEF QueueOK, Distinct
<1>4. NativeTypes'
  BY <1>1, <1>2 DEF NativeTypes
<1>5. ASSUME NEW k \in Messages
      PROVE  PlaceOK(k)' /\ StartOK(k)' /\ Lasting(k) /\ Heads(k)
  <2>1. PlaceOK(k) /\ StartOK(k)
    BY <1>2
  <2> QED  BY <1>1, <1>3, <2>1 DEF PlaceOK, StartOK, Gone, Lasting, Heads
<1> QED  BY <1>1, <1>3, <1>4, <1>5, NativeSound

LEMMA NativeDeleteStep ==
  ASSUME QueueInv, NEW m \in Messages, NativeDelete(m)
  PROVE  StepOK
<1>1. /\ queue' = IF Queued(m) THEN Without(m) ELSE queue
      /\ deletion' = [deletion EXCEPT ![m] = IF lane # [stage |-> "deleting", msg |-> m] THEN "none"
                                             ELSE IF Queued(m) THEN "deleted" ELSE "missed"]
      /\ account' = account /\ UNCHANGED journal /\ lane' = lane /\ disp' = disp
      /\ retained' = retained /\ wire' = wire /\ start' = start /\ turn' = turn
      /\ indexed' = indexed /\ busy' = busy /\ adds' = adds /\ executed' = executed
  BY DEF NativeDelete
<1>2. NativeTypes /\ QueueOK /\ \A k \in Messages : PlaceOK(k) /\ StartOK(k)
  BY NativeTyped DEF QueueInv
<1>3. /\ QueueOK'
      /\ \A x : Queued(x)' <=> Queued(x) /\ x # m
      /\ First # m => First' = First
  <2>1. CASE Queued(m)
    BY <1>1, <1>2, <2>1, WithoutEffect
  <2>2. CASE ~Queued(m)
    BY <1>1, <1>2, <2>2, SameQueue DEF QueueOK, Distinct
  <2> QED  BY <2>1, <2>2
<1>4. /\ deletion' \in [Messages -> {"none", "sent", "deleted", "missed"}]
      /\ deletion'[m] = "deleted" => Queued(m)
      /\ \A k \in Messages : k # m => deletion'[k] = deletion[k]
  BY <1>1, <1>2 DEF NativeTypes
<1>5. NativeTypes'
  BY <1>1, <1>2, <1>4 DEF NativeTypes
<1>6. ASSUME NEW k \in Messages
      PROVE  PlaceOK(k)' /\ StartOK(k)' /\ Lasting(k) /\ Heads(k)
  <2>1. PlaceOK(k) /\ StartOK(k)
    BY <1>2
  <2>2. CASE k = m
    BY <1>1, <1>3, <1>4, <2>1, <2>2 DEF PlaceOK, StartOK, Gone, Lasting, Heads
  <2>3. CASE k # m
    BY <1>1, <1>3, <1>4, <2>1, <2>3 DEF PlaceOK, StartOK, Gone, Lasting, Heads
  <2> QED  BY <2>2, <2>3
<1> QED  BY <1>1, <1>3, <1>5, <1>6, NativeSound

\* The native queue consumes m.
LEMMA ConsumeEffect ==
  ASSUME QueueInv, NEW m \in Messages, Queued(m), Consume(m)
  PROVE  /\ QueueOK'
         /\ \A x : Queued(x)' <=> Queued(x) /\ x # m
         /\ First # m => First' = First
         /\ turn' \in [Messages -> {"none", "active", "ended"}] /\ turn'[m] = "active"
         /\ \A k \in Messages : k # m => turn'[k] = turn[k]
         /\ adds[m] = 1 /\ turn[m] = "none" /\ deletion[m] # "deleted"
<1>1. queue' = Without(m) /\ turn' = [turn EXCEPT ![m] = "active"]
  BY DEF Consume
<1>2. NativeTypes /\ QueueOK /\ PlaceOK(m)
  BY NativeTyped DEF QueueInv
<1>3. /\ QueueOK'
      /\ \A x : Queued(x)' <=> Queued(x) /\ x # m
      /\ First # m => First' = First
  BY <1>1, <1>2, WithoutEffect
<1>4. adds[m] = 1 /\ turn[m] = "none" /\ deletion[m] # "deleted"
  BY <1>2 DEF PlaceOK, Gone
<1> QED  BY <1>1, <1>2, <1>3, <1>4 DEF NativeTypes

LEMMA NativeStartStep ==
  ASSUME QueueInv, NEW m \in Messages, NativeStart(m)
  PROVE  StepOK
<1>1. /\ start[m] = "sent"
      /\ \/ Queued(m) /\ Quiet /\ Consume(m)
         \/ ~(Queued(m) /\ Quiet) /\ queue' = queue /\ turn' = turn
      /\ start' = [start EXCEPT ![m] = IF ~At(m, "starting") THEN "none"
                                       ELSE IF ~Queued(m) THEN "missed" ELSE IF Quiet THEN "started" ELSE "busy"]
      /\ account' = account /\ UNCHANGED journal /\ lane' = lane /\ disp' = disp
      /\ retained' = retained /\ wire' = wire /\ deletion' = deletion
      /\ indexed' = indexed /\ busy' = busy /\ adds' = adds /\ executed' = executed
  BY DEF NativeStart
<1>2. NativeTypes /\ QueueOK /\ \A k \in Messages : PlaceOK(k) /\ StartOK(k)
  BY NativeTyped DEF QueueInv
<1>3. /\ start' \in [Messages -> {"none", "sent", "started", "busy", "missed"}]
      /\ start'[m] # "sent"
      /\ start'[m] = "started" => Queued(m) /\ Quiet
      /\ \A k \in Messages : k # m => start'[k] = start[k]
  BY <1>1, <1>2 DEF NativeTypes
<1>4. CASE Queued(m) /\ Quiet /\ Consume(m)
  <2>1. /\ QueueOK'
        /\ \A x : Queued(x)' <=> Queued(x) /\ x # m
        /\ First # m => First' = First
        /\ turn' \in [Messages -> {"none", "active", "ended"}] /\ turn'[m] = "active"
        /\ \A k \in Messages : k # m => turn'[k] = turn[k]
        /\ adds[m] = 1 /\ turn[m] = "none" /\ deletion[m] # "deleted"
    BY <1>4, ConsumeEffect
  <2>2. NativeTypes'
    BY <1>1, <1>2, <1>3, <2>1 DEF NativeTypes
  <2>3. ASSUME NEW k \in Messages
        PROVE  PlaceOK(k)' /\ StartOK(k)' /\ Lasting(k) /\ Heads(k)
    <3>1. PlaceOK(k) /\ StartOK(k)
      BY <1>2
    <3>2. CASE k = m
      BY <1>1, <1>3, <1>4, <2>1, <3>1, <3>2 DEF PlaceOK, StartOK, Gone, Lasting, Heads
    <3>3. CASE k # m
      BY <1>1, <1>3, <2>1, <3>1, <3>3 DEF PlaceOK, StartOK, Gone, Lasting, Heads
    <3> QED  BY <3>2, <3>3
  <2> QED  BY <1>1, <2>1, <2>2, <2>3, NativeSound
<1>5. CASE ~(Queued(m) /\ Quiet) /\ queue' = queue /\ turn' = turn
  <2>1. QueueOK' /\ First' = First /\ \A x : Queued(x)' <=> Queued(x)
    BY <1>2, <1>5, SameQueue DEF QueueOK, Distinct
  <2>2. NativeTypes'
    BY <1>1, <1>2, <1>3, <1>5 DEF NativeTypes
  <2>3. ASSUME NEW k \in Messages
        PROVE  PlaceOK(k)' /\ StartOK(k)' /\ Lasting(k) /\ Heads(k)
    <3>1. PlaceOK(k) /\ StartOK(k)
      BY <1>2
    <3> QED  BY <1>1, <1>3, <1>5, <2>1, <3>1 DEF PlaceOK, StartOK, Gone, Lasting, Heads
  <2> QED  BY <1>1, <2>1, <2>2, <2>3, NativeSound
<1> QED  BY <1>1, <1>4, <1>5

LEMMA AutoConsumeStep ==
  ASSUME QueueInv, NEW m \in Messages, AutoConsume(m)
  PROVE  StepOK
<1>1. /\ First = m /\ Consume(m)
      /\ account' = account /\ UNCHANGED journal /\ lane' = lane /\ disp' = disp
      /\ retained' = retained /\ wire' = wire /\ deletion' = deletion /\ start' = start
      /\ indexed' = indexed /\ busy' = busy /\ adds' = adds /\ executed' = executed
  BY DEF AutoConsume, requests
<1>2. NativeTypes /\ QueueOK /\ \A k \in Messages : PlaceOK(k) /\ StartOK(k)
  BY NativeTyped DEF QueueInv
<1>3. /\ QueueOK'
      /\ \A x : Queued(x)' <=> Queued(x) /\ x # m
      /\ turn' \in [Messages -> {"none", "active", "ended"}] /\ turn'[m] = "active"
      /\ \A k \in Messages : k # m => turn'[k] = turn[k]
      /\ adds[m] = 1 /\ turn[m] = "none" /\ deletion[m] # "deleted"
  BY <1>1, HeadQueued, ConsumeEffect
<1>4. NativeTypes'
  BY <1>1, <1>2, <1>3 DEF NativeTypes
<1>5. ASSUME NEW k \in Messages
      PROVE  PlaceOK(k)' /\ StartOK(k)' /\ Lasting(k) /\ Heads(k)
  <2>1. PlaceOK(k) /\ StartOK(k)
    BY <1>2
  <2>2. CASE k = m
    BY <1>1, <1>3, HeadQueued, <2>1, <2>2 DEF PlaceOK, StartOK, Gone, Lasting, Heads
  <2>3. CASE k # m
    BY <1>1, <1>3, <2>1, <2>3 DEF PlaceOK, StartOK, Gone, Lasting, Heads
  <2> QED  BY <2>2, <2>3
<1> QED  BY <1>1, <1>3, <1>4, <1>5, NativeSound

LEMMA TurnEndsStep ==
  ASSUME QueueInv, NEW m \in Messages, TurnEnds(m)
  PROVE  StepOK
<1>1. /\ turn[m] = "active" /\ turn' = [turn EXCEPT ![m] = "ended"] /\ queue' = queue
      /\ account' = account /\ UNCHANGED journal /\ lane' = lane /\ disp' = disp
      /\ retained' = retained /\ wire' = wire /\ deletion' = deletion /\ start' = start
      /\ indexed' = indexed /\ busy' = busy /\ adds' = adds /\ executed' = executed
  BY DEF TurnEnds, requests
<1>2. NativeTypes /\ QueueOK /\ \A k \in Messages : PlaceOK(k) /\ StartOK(k)
  BY NativeTyped DEF QueueInv
<1>3. QueueOK' /\ First' = First /\ \A x : Queued(x)' <=> Queued(x)
  BY <1>1, <1>2, SameQueue DEF QueueOK, Distinct
<1>4. /\ turn' \in [Messages -> {"none", "active", "ended"}] /\ turn'[m] = "ended"
      /\ \A k \in Messages : k # m => turn'[k] = turn[k]
  BY <1>1, <1>2 DEF NativeTypes
<1>5. NativeTypes'
  BY <1>1, <1>2, <1>4 DEF NativeTypes
<1>6. ASSUME NEW k \in Messages
      PROVE  PlaceOK(k)' /\ StartOK(k)' /\ Lasting(k) /\ Heads(k)
  <2>1. PlaceOK(k) /\ StartOK(k)
    BY <1>2
  <2> QED  BY <1>1, <1>3, <1>4, <2>1 DEF PlaceOK, StartOK, Gone, Lasting, Heads
<1> QED  BY <1>1, <1>3, <1>5, <1>6, NativeSound

LEMMA IndexStep ==
  ASSUME QueueInv, NEW m \in Messages, Index(m)
  PROVE  StepOK
<1>1. /\ turn[m] # "none" /\ indexed' = indexed \union {m} /\ turn' = turn /\ queue' = queue
      /\ account' = account /\ UNCHANGED journal /\ lane' = lane /\ disp' = disp
      /\ retained' = retained /\ wire' = wire /\ deletion' = deletion /\ start' = start
      /\ busy' = busy /\ adds' = adds /\ executed' = executed
  BY DEF Index, requests
<1>2. NativeTypes /\ QueueOK /\ \A k \in Messages : PlaceOK(k) /\ StartOK(k)
  BY NativeTyped DEF QueueInv
<1>3. QueueOK' /\ First' = First /\ \A x : Queued(x)' <=> Queued(x)
  BY <1>1, <1>2, SameQueue DEF QueueOK, Distinct
<1>4. NativeTypes'
  BY <1>1, <1>2 DEF NativeTypes
<1>5. ASSUME NEW k \in Messages
      PROVE  PlaceOK(k)' /\ StartOK(k)' /\ Lasting(k) /\ Heads(k)
  <2>1. PlaceOK(k) /\ StartOK(k)
    BY <1>2
  <2> QED  BY <1>1, <1>3, <2>1 DEF PlaceOK, StartOK, Gone, Lasting, Heads
<1> QED  BY <1>1, <1>3, <1>4, <1>5, NativeSound

LEMMA ForeignAddStep ==
  ASSUME QueueInv, NEW f \in Foreign, ForeignAdd(f)
  PROVE  StepOK
<1>1. /\ ~Queued(f) /\ queue' = Append(queue, f) /\ indexed' = indexed /\ turn' = turn
      /\ account' = account /\ UNCHANGED journal /\ lane' = lane /\ disp' = disp
      /\ retained' = retained /\ wire' = wire /\ deletion' = deletion /\ start' = start
      /\ busy' = busy /\ adds' = adds /\ executed' = executed
  BY DEF ForeignAdd, requests
<1>2. NativeTypes /\ QueueOK /\ \A k \in Messages : PlaceOK(k) /\ StartOK(k)
  BY NativeTyped DEF QueueInv
<1>3. /\ QueueOK'
      /\ \A x : Queued(x)' <=> Queued(x) \/ x = f
      /\ First # None => First' = First
  BY <1>1, <1>2, AppendEffect
<1>4. NativeTypes'
  BY <1>1, <1>2 DEF NativeTypes
<1>5. ASSUME NEW k \in Messages
      PROVE  PlaceOK(k)' /\ StartOK(k)' /\ Lasting(k) /\ Heads(k)
  <2>1. PlaceOK(k) /\ StartOK(k) /\ k # f /\ k # None
    BY <1>2, OthersAssumption
  <2> QED  BY <1>1, <1>3, <2>1 DEF PlaceOK, StartOK, Gone, Lasting, Heads
<1> QED  BY <1>1, <1>3, <1>4, <1>5, NativeSound

LEMMA ForeignTurnStep ==
  ASSUME QueueInv, ForeignTurn
  PROVE  StepOK
<1>1. /\ busy' = TRUE /\ queue' = IF First \in Foreign THEN Tail(queue) ELSE queue
      /\ indexed' = indexed /\ turn' = turn
      /\ account' = account /\ UNCHANGED journal /\ lane' = lane /\ disp' = disp
      /\ retained' = retained /\ wire' = wire /\ deletion' = deletion /\ start' = start
      /\ adds' = adds /\ executed' = executed
  BY DEF ForeignTurn, requests
<1>2. NativeTypes /\ QueueOK /\ \A k \in Messages : PlaceOK(k) /\ StartOK(k)
  BY NativeTyped DEF QueueInv
<1>3. /\ QueueOK'
      /\ \A k \in Messages : Queued(k)' <=> Queued(k)
      /\ First \notin Foreign => First' = First
  <2>1. CASE First \in Foreign
    <3>1. queue # <<>>
      BY <2>1, OthersAssumption DEF First
    <3>2. \A k \in Messages : k # First
      BY <2>1, OthersAssumption
    <3> QED  BY <1>1, <1>2, <2>1, <3>1, <3>2, TailEffect
  <2>2. CASE First \notin Foreign
    BY <1>1, <1>2, <2>2, SameQueue DEF QueueOK, Distinct
  <2> QED  BY <2>1, <2>2
<1>4. NativeTypes'
  BY <1>1, <1>2 DEF NativeTypes
<1>5. ASSUME NEW k \in Messages
      PROVE  PlaceOK(k)' /\ StartOK(k)' /\ Lasting(k) /\ Heads(k)
  <2>1. PlaceOK(k) /\ StartOK(k) /\ k \notin Foreign
    BY <1>2, OthersAssumption
  <2> QED  BY <1>1, <1>3, <2>1 DEF PlaceOK, StartOK, Gone, Lasting, Heads
<1> QED  BY <1>1, <1>3, <1>4, <1>5, NativeSound

LEMMA ForeignEndsStep ==
  ASSUME QueueInv, ForeignEnds
  PROVE  StepOK
<1>1. /\ busy' = FALSE /\ queue' = queue /\ indexed' = indexed /\ turn' = turn
      /\ account' = account /\ UNCHANGED journal /\ lane' = lane /\ disp' = disp
      /\ retained' = retained /\ wire' = wire /\ deletion' = deletion /\ start' = start
      /\ adds' = adds /\ executed' = executed
  BY DEF ForeignEnds, requests
<1>2. NativeTypes /\ QueueOK /\ \A k \in Messages : PlaceOK(k) /\ StartOK(k)
  BY NativeTyped DEF QueueInv
<1>3. QueueOK' /\ First' = First /\ \A x : Queued(x)' <=> Queued(x)
  BY <1>1, <1>2, SameQueue DEF QueueOK, Distinct
<1>4. NativeTypes'
  BY <1>1, <1>2 DEF NativeTypes
<1>5. ASSUME NEW k \in Messages
      PROVE  PlaceOK(k)' /\ StartOK(k)' /\ Lasting(k) /\ Heads(k)
  <2>1. PlaceOK(k) /\ StartOK(k)
    BY <1>2
  <2> QED  BY <1>1, <1>3, <2>1 DEF PlaceOK, StartOK, Gone, Lasting, Heads
<1> QED  BY <1>1, <1>3, <1>4, <1>5, NativeSound

LEMMA RestartStep ==
  ASSUME QueueInv, Restart
  PROVE  StepOK
<1>1. /\ faults' = faults + 1 /\ mem' = file /\ file' = file /\ down' = FALSE /\ lane' = Free /\ disp' = Rest
      /\ watch' = [m \in Messages |-> "no"] /\ retained' = {}
      /\ deletion' = [m \in Messages |-> IF deletion[m] = "sent" THEN "sent" ELSE "none"]
      /\ start' = [m \in Messages |-> IF start[m] = "sent" THEN "sent" ELSE "none"]
      /\ account' = account /\ wire' = wire /\ executed' = executed
      /\ queue' = queue /\ turn' = turn /\ indexed' = indexed /\ busy' = busy /\ adds' = adds
  BY DEF Restart, native
<1>2. NativeTypes /\ QueueOK /\ \A k \in Messages : PlaceOK(k) /\ StartOK(k)
  BY NativeTyped DEF QueueInv
<1>3. QueueOK' /\ First' = First /\ \A x : Queued(x)' <=> Queued(x)
  BY <1>1, <1>2, SameQueue DEF QueueOK, Distinct
<1>4. /\ deletion' \in [Messages -> {"none", "sent", "deleted", "missed"}]
      /\ start' \in [Messages -> {"none", "sent", "started", "busy", "missed"}]
      /\ \A m \in Messages : deletion'[m] # "deleted" /\ start'[m] # "started" /\ (start'[m] = "sent" => start[m] = "sent")
  BY <1>1
<1>5. TypeOK'
  <2>1. /\ account \in [Messages -> Accounts] /\ file \in [Messages -> Receipt]
        /\ executed \subseteq Messages /\ faults \in Nat
    BY DEF QueueInv, TypeOK
  <2>2. /\ account' \in [Messages -> Accounts] /\ mem' \in [Messages -> Receipt] /\ file' \in [Messages -> Receipt]
        /\ executed' \subseteq Messages /\ retained' \subseteq Messages
    BY <1>1, <2>1
  <2>3. faults' \in Nat /\ down' \in BOOLEAN
    <3>1. faults' = faults + 1 /\ faults \in Nat
      BY <1>1, Kept
    <3>2. faults' \in Nat
      BY <3>1
    <3>3. down' = FALSE
      BY <1>1
    <3>4. down' \in BOOLEAN
      BY <3>3
    <3> QED  BY <3>2, <3>4
  <2>4. watch' \in Watches
    BY <1>1 DEF Watches
  <2>5. lane' \in Lane /\ disp' \in Disp
    BY <1>1, LaneFree, DispRest
  <2>6. NativeTypes'
    BY <1>1, <1>2, <1>4 DEF NativeTypes
  <2> QED  BY <1>3, <2>2, <2>3, <2>4, <2>5, <2>6 DEF TypeOK, NativeTypes, QueueOK, Lane, Disp, Watches
<1>6. \A m \in Messages : PlaceOK(m)' /\ StartOK(m)'
  BY <1>1, <1>2, <1>3, <1>4 DEF PlaceOK, StartOK, Gone
<1>7. RowsOK'
  <2>1. ASSUME NEW m \in Messages
        PROVE  RowOK(m, file[m])'
    <3>1. RowOK(m, file[m])
      BY DEF QueueInv, RowsOK
    <3> QED  BY <1>1, <1>3, <3>1 DEF RowOK, Gone
  <2> QED  BY <1>1, <2>1 DEF RowsOK
<1>8. FileOK' /\ (\A m \in Messages : WatchOK(m)') /\ LaneOK' /\ DispOK'
  BY <1>1, LaneFree, DispRest DEF FileOK, WatchOK
<1>9. QueueInv'
  BY <1>3, <1>5, <1>6, <1>7, <1>8 DEF QueueInv
<1>10. ASSUME NEW m \in Messages
       PROVE  MoveOK(m) /\ Cancellations(m) /\ Heads(m)
  <2>1. Reports(m)' = ReportOf(file[m]) /\ adds'[m] = adds[m] /\ adds[m] \in {0, 1}
    BY <1>1, <1>2 DEF Reports, PlaceOK
  <2>2. RowOK(m, file[m]) /\ RowOK(m, mem[m]) /\ ~(mem[m].status = "rejected" /\ file[m].status = "none")
    BY DEF QueueInv, RowsOK, FileOK
  <2>3. file[m].status \in Submittable => adds[m] = 0
    BY <2>2 DEF RowOK
  <2>4. MoveOK(m)
    <3>1. CASE file[m].status \notin Submittable
      <4>1. Reports(m)' = "unknown"
        BY <2>1, <3>1, ReportValues
      <4>2. Reports(m) \in {"none", "not-sent", "unknown"}
        BY ReportValues DEF Reports, Submittable
      <4> QED  BY <2>1, <4>1, <4>2 DEF MoveOK
    <3>2. CASE file[m].status \in Submittable
      <4>1. Reports(m)' \in {"none", "not-sent"} /\ (Reports(m)' = "none" => file[m].status = "none")
        BY <2>1, <3>2, ReportValues DEF Submittable
      <4>2. /\ Reports(m) \in {"none", "not-sent", "unknown"}
            /\ Reports(m) = "not-sent" => mem[m].status = "rejected"
        BY ReportValues DEF Reports, Submittable
      <4> QED  BY <2>1, <2>2, <2>3, <3>2, <4>1, <4>2 DEF MoveOK
    <3> QED  BY <3>1, <3>2
  <2> QED  BY <1>1, <1>2, <2>4 DEF Cancellations, Heads
<1> QED  BY <1>9, <1>10 DEF StepOK

-----------------------------------------------------------------------------
(* The theorems.                                                            *)

LEMMA QueueInitial ==
  ASSUME Init
  PROVE  QueueInv
<1>1. /\ account \in [Messages -> Accounts]
      /\ mem = [m \in Messages |-> Blank] /\ file = [m \in Messages |-> Blank]
      /\ down = FALSE /\ lane = Free /\ disp = Rest
      /\ watch = [m \in Messages |-> "no"]
      /\ retained = {} /\ wire = {} /\ indexed = {} /\ executed = {} /\ busy = FALSE /\ faults = 0
      /\ deletion = [m \in Messages |-> "none"] /\ start = [m \in Messages |-> "none"]
      /\ queue = <<>> /\ turn = [m \in Messages |-> "none"] /\ adds = [m \in Messages |-> 0]
  BY DEF Init
<1>2. Blank \in Receipt /\ Blank.status = "none" /\ Blank.delivered = FALSE
  BY DEF Blank, Receipt, Statuses
<1>3. queue \in Seq(Messages \union Foreign) /\ Len(queue) = 0
  BY <1>1
<1>4. QueueOK /\ \A x : ~Queued(x)
  BY <1>3, InQueue DEF QueueOK, Distinct
<1>5. mem \in [Messages -> Receipt] /\ file \in [Messages -> Receipt] /\ \A m \in Messages : mem[m] = Blank /\ file[m] = Blank
  BY <1>1, <1>2
<1>6. watch \in Watches /\ \A m \in Messages : watch[m] = "no"
  BY <1>1 DEF Watches
<1>7. NativeTypes
  BY <1>1 DEF NativeTypes
<1>8. lane \in Lane /\ disp \in Disp /\ lane.stage = "free" /\ disp.stage = "idle"
  BY <1>1 DEF Lane, Free, Disp, Rest, Stages
<1>9. TypeOK
  BY <1>1, <1>3, <1>5, <1>6, <1>7, <1>8 DEF TypeOK, NativeTypes, Lane, Disp, Watches
<1>10. \A m \in Messages : PlaceOK(m) /\ StartOK(m)
  BY <1>1, <1>4 DEF PlaceOK, StartOK
<1>11. RowsOK /\ FileOK
  BY <1>1, <1>2, <1>5 DEF RowsOK, RowOK, FileOK
<1>12. (\A m \in Messages : WatchOK(m)) /\ LaneOK /\ DispOK
  BY <1>6, <1>8 DEF WatchOK, LaneOK, DispOK
<1> QED  BY <1>4, <1>9, <1>10, <1>11, <1>12 DEF QueueInv

LEMMA QueueSteps ==
  ASSUME QueueInv, Next
  PROVE  StepOK
<1>1. ASSUME NEW m \in Messages, LaneStep(m)
      PROVE  StepOK
  BY <1>1, EnqueueStep, AnsweredStep, RefusedStep, NotSubmittedStep, LostStep, AcceptedStep,
     RetiredStep,
     CancelStep, CancelListedStep, CancelAnsweredStep, CancelLostStep DEF LaneStep
<1>2. ASSUME NEW m \in Messages, ObserveStep(m)
      PROVE  StepOK
  BY <1>2, ObserveListStep, ObservePresentStep, ObserveAbsentStep, ObserveLocatedStep,
     ObserveFailsStep
     DEF ObserveStep
<1>3. ASSUME NEW m \in Messages, DispatchStep(m)
      PROVE  StepOK
  BY <1>3, VisitStep, InspectStep, DispatchFailsStep, ObserveOnlyStep, AdoptStep, NotFoundStep,
     StartHeadStep,
     StartAnsweredStep, StartRefusedStep, StartLostStep, TurnObservedStep, DeliveredStep, UndeliveredStep
     DEF DispatchStep
<1>4. ASSUME NEW m \in Messages, NativeStep(m)
      PROVE  StepOK
  BY <1>4, NativeAddStep, NativeDropStep, NativeDeleteStep, NativeStartStep, AutoConsumeStep,
     TurnEndsStep,
     IndexStep DEF NativeStep
<1> QED  BY <1>1, <1>2, <1>3, <1>4, DispatchStarts, LaneDownStep, DispatchDownStep, ForeignAddStep, ForeignTurnStep,
            ForeignEndsStep, RestartStep DEF Next

LEMMA QueueStutters ==
  ASSUME QueueInv, UNCHANGED vars
  PROVE  QueueInv'
<1>1. /\ account' = account /\ mem' = mem /\ file' = file /\ down' = down /\ lane' = lane /\ watch' = watch
      /\ disp' = disp /\ retained' = retained /\ wire' = wire /\ deletion' = deletion /\ start' = start
      /\ queue' = queue /\ turn' = turn /\ indexed' = indexed /\ busy' = busy /\ adds' = adds
      /\ executed' = executed /\ faults' = faults
  BY DEF vars
<1>2. \A x : Queued(x)' <=> Queued(x)
  BY <1>1, SameQueue
<1>3. QueueOK' /\ TypeOK'
  BY <1>1 DEF QueueInv, QueueOK, Distinct, TypeOK
<1>4. \A m \in Messages : PlaceOK(m)' /\ StartOK(m)'
  BY <1>1, <1>2, SameQueue DEF QueueInv, PlaceOK, StartOK, Gone
<1>5. RowsOK' /\ FileOK'
  BY <1>1, <1>2 DEF QueueInv, RowsOK, RowOK, FileOK, Gone
<1>6. (\A m \in Messages : WatchOK(m)') /\ LaneOK' /\ DispOK'
  BY <1>1 DEF QueueInv, WatchOK, LaneOK, DispOK
<1> QED  BY <1>3, <1>4, <1>5, <1>6 DEF QueueInv

\* Journal, requests and native queue keep their types, a message is in the native queue
\* at most once, a start under way is of the head, and a receipt, in memory or in the
\* file, forgets, cancels or completes only what the native queue allows.
THEOREM QueueInvariant == Spec => []QueueInv
<1>1. Init => QueueInv
  BY QueueInitial
<1>2. QueueInv /\ [Next]_vars => QueueInv'
  BY QueueSteps, QueueStutters DEF StepOK
<1> QED  BY <1>1, <1>2, PTL DEF Spec

\* A receipt can be believed, in memory and after a restart: a cancelled message never
\* runs and a completed one has ended, whatever is observed, lost or answered late.
THEOREM ReceiptsCanBeBelieved == Spec => []ReceiptsAreTrue
<1>1. QueueInv => ReceiptsAreTrue
  <2> SUFFICES ASSUME QueueInv
               PROVE  ReceiptsAreTrue
    OBVIOUS
  <2>1. TypeOK
    BY DEF QueueInv
  <2>2. ASSUME NEW m \in Messages
        PROVE  RowOK(m, mem[m]) /\ RowOK(m, file[m]) /\ StartOK(m)
    BY DEF QueueInv, RowsOK
  <2>3. CancelledNeverRuns
    BY <2>2 DEF CancelledNeverRuns, RowOK, StartOK, Gone
  <2>4. CompletedHasEnded
    BY <2>2 DEF CompletedHasEnded, RowOK
  <2> QED  BY <2>1, <2>3, <2>4 DEF ReceiptsAreTrue
<1> QED  BY <1>1, QueueInvariant, PTL

\* No late observation, answer or catch reopens a cancelled message, and no item is started
\* over the head of the native queue, even by a request that was lost and applied later.
THEOREM NeitherReopensNorSkips == Spec => NoReopenNoSkip
<1>1. QueueInv /\ [Next]_vars => [\A m \in Messages : file[m].status = "cancelled" => file'[m].status = "cancelled"]_vars
  BY QueueSteps DEF StepOK, Cancellations
<1>2. QueueInv /\ [Next]_vars => [\A m \in Messages : turn[m] = "none" /\ turn'[m] = "active" => First = m]_vars
  BY QueueSteps DEF StepOK, Heads
<1>3. Spec => CancelIsFinal
  BY <1>1, QueueInvariant, PTL DEF Spec, CancelIsFinal
<1>4. Spec => HeadFirst
  BY <1>2, QueueInvariant, PTL DEF Spec, HeadFirst
<1> QED  BY <1>3, <1>4 DEF NoReopenNoSkip

\* Any number of messages of a thread, over any number of accounts, do not disturb each
\* other: each record is true of its own message, and none overtakes the head.
THEOREM MessagesStayApart == Spec => MessagesApart
<1>1. ReceiptsAreTrue => CancelledNeverRuns /\ CompletedHasEnded
  BY DEF ReceiptsAreTrue
<1>2. NoReopenNoSkip => HeadFirst
  BY DEF NoReopenNoSkip
<1> QED  BY <1>1, <1>2, ReceiptsCanBeBelieved, NeitherReopensNorSkips, PTL DEF MessagesApart

\* The receipts implement AtMostOnce: the native queue takes a message at most once, and
\* only a submission that provably did not happen is forgotten, rejected or tried again.
THEOREM SubmittedOnce == Spec => SubmittedAtMostOnce
<1>1. Init => Promise!AInit
  <2> SUFFICES ASSUME Init
               PROVE  Promise!AInit
    OBVIOUS
  <2>1. adds = [m \in Messages |-> 0] /\ mem = [m \in Messages |-> Blank] /\ Blank.status = "none"
    BY DEF Init, Blank
  <2>2. ReportOf(Blank) = "none"
    BY <2>1, ReportValues
  <2>3. [m \in Messages |-> ReportOf(mem[m])] = [m \in Messages |-> "none"]
    BY <2>1, <2>2
  <2> QED  BY <2>1, <2>3 DEF Promise!AInit
<1>2. QueueInv /\ [Next]_vars => [Promise!ANext]_Promise!aVars
  <2> SUFFICES ASSUME QueueInv, [Next]_vars
               PROVE  [Promise!ANext]_Promise!aVars
    OBVIOUS
  <2>1. CASE UNCHANGED vars
    <3>1. adds' = adds /\ mem' = mem
      BY <2>1 DEF vars
    <3> QED  BY <3>1 DEF Promise!aVars
  <2>2. CASE Next
    <3>1. QueueInv' /\ \A m \in Messages : MoveOK(m)
      BY <2>2, QueueSteps DEF StepOK
    <3> DEFINE report == [m \in Messages |-> ReportOf(mem[m])]
    <3>2. /\ \A m \in Messages : report[m] = Reports(m) /\ report'[m] = Reports(m)'
          /\ \A m \in Messages : Reports(m)' \in {"none", "unknown", "not-sent"}
      BY ReportValues DEF Reports, Submittable
    <3>3. adds' \in [Messages -> Nat]
      BY <3>1 DEF QueueInv, TypeOK
    <3>4. report' \in [Messages -> Promise!Reports]
      BY <3>2 DEF Reports, Promise!Reports
    <3>5. ASSUME NEW m \in Messages
          PROVE  Promise!Move(m)
      <4>1. MoveOK(m) /\ report[m] = Reports(m) /\ report'[m] = Reports(m)'
        BY <3>1, <3>2
      <4> HIDE DEF report
      <4> QED  BY <4>1 DEF MoveOK, Promise!Move, Promise!Reported, report
    <3> QED  BY <3>3, <3>4, <3>5 DEF Promise!ANext
  <2> QED  BY <2>1, <2>2
<1> QED  BY <1>1, <1>2, QueueInvariant, PTL DEF Spec, SubmittedAtMostOnce, Promise!ASpec

-----------------------------------------------------------------------------
(* Approvals: the inductive invariant.                                     *)

\* A row of its own: an unused one is empty, a card on its way is not known yet, and
\* while a notice is on its way nothing counts as delivered.
ApprRowOK(row) ==
  /\ row.phase = "none" => row.card = "none" /\ row.outcome = "none" /\ row.flight = "none" /\ ~row.known
  /\ row.card = "sending" => ~row.known
  /\ row.flight # "none" => row.delivery # "delivered"
  /\ row.delivery = "delivered" /\ row.known => row.card = "closed"
  /\ row.flight = "card" => row.known
  /\ row.phase # "none" => row.room \in Rooms

ApprChosen(answer) == answer = "accept" => apprBy # 0 /\ apprRows[apprBy].choice = "accept"

\* The client, the fanout and the answer that Codex may still get.
ApprClientOK ==
  /\ apprReq # "none" => apprSeen
  /\ apprReq = "asking" <=> apprAsk = "open"
  /\ apprReq = "submitted" => apprAsk \in ApprAnswers
  /\ apprWire # "none" => apprSeen /\ apprReq # "asking"
  /\ apprTook # "none" => apprNative = "ours"
  /\ apprNative = "ours" => apprReq # "asking"
  /\ ApprChosen(apprWire) /\ ApprChosen(apprTook) /\ ApprChosen(apprAsk)
  /\ apprBy # 0 => apprBy \notin apprOpen /\ apprRows[apprBy].phase # "none"

\* The offers, and the offer that was chosen.
ApprOffersOK ==
  /\ \A x \in Rooms : apprOffer[x] # "none" => x \in apprFollow
  /\ \A x \in Rooms : apprOffer[x] \in {"calling", "asking"} => apprReq # "none" /\ apprAsk # "none"
  /\ \A x \in Rooms : apprRoute[x] # 0 =>
       apprRows[apprRoute[x]].room = x /\ apprRows[apprRoute[x]].phase # "none"
  /\ apprWinner # NoRoom =>
       /\ apprWinner \in apprFollow /\ apprAsk \in ApprAnswers
       /\ apprOffer[apprWinner] \notin {"calling", "asking"}
       /\ IF apprRoute[apprWinner] = 0 THEN ~apprLate[apprWinner].routed
          ELSE apprRoute[apprWinner] = apprBy

\* The cards that still decide: one for a room and a request of a connection, and unless
\* their room left, or they were made too late, for the present request.
ApprCardsOK ==
  /\ \A r \in apprOpen : apprRows[r].phase = "pending"
  /\ \A r, s \in apprOpen : apprRows[r].room = apprRows[s].room /\ apprRows[r].key = apprRows[s].key => r = s
  /\ \A r \in apprOpen \ apprLeft :
       /\ apprRows[r].key = apprConn
       /\ apprAsk = "open" => apprOffer[apprRows[r].room] = "asking"

ApprConfirmedOK == \A r \in ApprIds : apprRows[r].phase = "confirmed" =>
  r = apprBy /\ apprNative # "open" /\ apprAsk = "none"

ApprInv ==
  /\ ApprTypeOK
  /\ \A r \in ApprIds : ApprRowOK(apprRows[r])
  /\ ApprClientOK
  /\ ApprOffersOK
  /\ ApprCardsOK
  /\ ApprCardsCurrent
  /\ ApprConfirmedOK

\* What a step may do to a row.
ApprKept(r) ==
  /\ apprRows'[r] \in ApprRow /\ ApprRowOK(apprRows'[r])
  /\ apprRows[r].phase # "none" =>
       /\ apprRows'[r].room = apprRows[r].room /\ apprRows'[r].key = apprRows[r].key
       /\ apprRows'[r].phase # "none"
  /\ apprRows[r].phase = "confirmed" => apprRows'[r].phase = "confirmed"
  /\ apprRows[r].known => apprRows'[r].known

ApprStep == ApprInv' /\ ApprFinal

ApprIdle(r) ==
  /\ ApprKept(r)
  /\ apprRows'[r].phase = apprRows[r].phase /\ apprRows'[r].choice = apprRows[r].choice

-----------------------------------------------------------------------------
LEMMA ApprFaultsCounted ==
  ASSUME ApprTypeOK, NEW n \in Nat, ApprFaults(n)
  PROVE  apprFaults' \in 0..MaxApprFaults
BY ApprAssumption DEF ApprTypeOK, ApprFaults

LEMMA ApprFaultCounted ==
  ASSUME ApprTypeOK, ApprFault
  PROVE  apprFaults' \in 0..MaxApprFaults
BY ApprFaultsCounted DEF ApprFault

LEMMA ApprKeepsFinal ==
  ASSUME \A r \in ApprIds : ApprKept(r)
  PROVE  ApprFinal
BY DEF ApprKept, ApprFinal

\* A step of the cards and notices.
LEMMA ApprRowsStep ==
  ASSUME ApprInv, ApprRowsOnly, apprRows' \in [ApprIds -> ApprRow], apprFaults' \in 0..MaxApprFaults,
         \A r \in ApprIds : ApprIdle(r)
  PROVE  ApprStep
<1>1. /\ UNCHANGED <<apprNative, apprTook, apprWire, apprReq, apprSeen, apprConn>>
      /\ UNCHANGED <<apprFollow, apprAsk, apprWinner, apprOffer, apprLate>>
      /\ UNCHANGED <<apprRoute, apprOpen, apprLeft, apprBy>>
  BY DEF ApprRowsOnly, apprCodexVars, apprClientVars, apprFanoutVars
<1>2. ApprTypeOK'
  BY <1>1 DEF ApprInv, ApprTypeOK
<1>3. apprOpen \subseteq ApprIds /\ apprBy \in 0..MaxApprRows /\ apprRoute \in [Rooms -> 0..MaxApprRows]
  BY DEF ApprInv, ApprTypeOK
<1>4. \A r \in ApprIds : /\ apprRows'[r].phase = apprRows[r].phase
                         /\ apprRows'[r].choice = apprRows[r].choice
                         /\ apprRows[r].phase # "none" => apprRows'[r].room = apprRows[r].room /\ apprRows'[r].key = apprRows[r].key
                         /\ ApprRowOK(apprRows'[r])
  BY DEF ApprIdle, ApprKept
<1>5. \A i \in 0..MaxApprRows : i # 0 => i \in ApprIds
  BY ApprAssumption DEF ApprIds
<1>6. ApprClientOK'
  BY <1>1, <1>3, <1>4, <1>5 DEF ApprInv, ApprClientOK, ApprChosen
<1>7. ApprOffersOK'
  BY <1>1, <1>3, <1>4, <1>5 DEF ApprInv, ApprOffersOK
<1>8. ApprCardsOK' /\ ApprCardsCurrent'
  <2>1. \A r \in apprOpen : apprRows'[r].phase = "pending" /\ apprRows'[r].room = apprRows[r].room /\ apprRows'[r].key = apprRows[r].key
    BY <1>3, <1>4 DEF ApprInv, ApprCardsOK
  <2> QED  BY <1>1, <2>1 DEF ApprInv, ApprCardsOK, ApprCardsCurrent
<1>9. ApprConfirmedOK'
  BY <1>1, <1>4 DEF ApprInv, ApprConfirmedOK
<1>10. ApprFinal
  BY ApprKeepsFinal DEF ApprIdle
<1> QED  BY <1>2, <1>4, <1>6, <1>7, <1>8, <1>9, <1>10 DEF ApprInv, ApprStep

\* One row changes.
LEMMA ApprPutIdle ==
  ASSUME ApprInv, NEW r \in ApprIds, NEW row \in ApprRow, apprRows' = [apprRows EXCEPT ![r] = row],
         ApprRowOK(row), row.room = apprRows[r].room, row.key = apprRows[r].key,
         row.phase = apprRows[r].phase, row.choice = apprRows[r].choice,
         apprRows[r].known => row.known
  PROVE  apprRows' \in [ApprIds -> ApprRow] /\ \A s \in ApprIds : ApprIdle(s)
<1>1. apprRows \in [ApprIds -> ApprRow] /\ \A s \in ApprIds : ApprRowOK(apprRows[s])
  BY DEF ApprInv, ApprTypeOK
<1>2. apprRows' \in [ApprIds -> ApprRow] /\ apprRows'[r] = row /\ \A s \in ApprIds : s # r => apprRows'[s] = apprRows[s]
  BY <1>1
<1>3. ASSUME NEW s \in ApprIds PROVE ApprIdle(s)
  <2>1. CASE s = r
    BY <1>2, <2>1 DEF ApprIdle, ApprKept
  <2>2. CASE s # r
    BY <1>1, <1>2, <2>2 DEF ApprIdle, ApprKept
  <2> QED  BY <2>1, <2>2
<1> QED  BY <1>2, <1>3

LEMMA ApprCardSentStep ==
  ASSUME ApprInv, NEW r \in ApprIds, ApprCardSent(r)
  PROVE  ApprStep
<1> DEFINE row == apprRows[r]
           seen == [row EXCEPT !.card = "open"]
           unsent == [row EXCEPT !.card = "unsent"]
           kn == [seen EXCEPT !.known = TRUE]
           dl == [kn EXCEPT !.delivery = "ready"]
           new == [dl EXCEPT !.tries = 0]
<1>1. row \in ApprRow /\ ApprRowOK(row) /\ 0 \in 0..MaxNotices
  BY ApprAssumption DEF ApprInv, ApprTypeOK
<1>2. row.card = "sending" /\ ApprRowsOnly
      /\ \/ apprRows' = [apprRows EXCEPT ![r] = new] /\ apprFaults' = apprFaults
         \/ apprRows' = [apprRows EXCEPT ![r] = seen] /\ (apprFaults' = apprFaults \/ ApprFault)
         \/ apprRows' = [apprRows EXCEPT ![r] = unsent] /\ ApprFault
  BY DEF ApprCardSent, ApprPut
<1>3. apprFaults' \in 0..MaxApprFaults
  <2>1. ApprTypeOK
    BY DEF ApprInv
  <2> QED  BY <1>2, <2>1, ApprFaultCounted DEF ApprTypeOK
<1>4. seen \in ApprRow /\ seen.card = "open" /\ seen.known = row.known /\ seen.delivery = row.delivery
      /\ seen.phase = row.phase /\ seen.outcome = row.outcome /\ seen.flight = row.flight
      /\ seen.room = row.room /\ seen.key = row.key /\ seen.choice = row.choice
  BY <1>1 DEF ApprRow
<1>5. unsent \in ApprRow /\ unsent.card = "unsent" /\ unsent.known = row.known /\ unsent.delivery = row.delivery
      /\ unsent.phase = row.phase /\ unsent.outcome = row.outcome /\ unsent.flight = row.flight
      /\ unsent.room = row.room /\ unsent.key = row.key /\ unsent.choice = row.choice
  BY <1>1 DEF ApprRow
<1>6. row.phase # "none" /\ ~row.known
  BY <1>1, <1>2 DEF ApprRowOK
<1> HIDE DEF seen, unsent, row
<1>7. kn \in ApprRow /\ kn.known = TRUE /\ kn.card = "open"
      /\ kn.phase = row.phase /\ kn.outcome = row.outcome /\ kn.flight = row.flight
      /\ kn.room = row.room /\ kn.key = row.key /\ kn.choice = row.choice
  BY <1>4 DEF ApprRow
<1> HIDE DEF kn
<1>8. dl \in ApprRow /\ dl.known = TRUE /\ dl.card = "open" /\ dl.delivery = "ready"
      /\ dl.phase = row.phase /\ dl.outcome = row.outcome /\ dl.flight = row.flight
      /\ dl.room = row.room /\ dl.key = row.key /\ dl.choice = row.choice
  BY <1>7 DEF ApprRow
<1> HIDE DEF dl
<1>9. new \in ApprRow /\ new.known = TRUE /\ new.card = "open" /\ new.delivery = "ready"
      /\ new.phase = row.phase /\ new.outcome = row.outcome /\ new.flight = row.flight
      /\ new.room = row.room /\ new.key = row.key /\ new.choice = row.choice
  BY <1>8, <1>1 DEF ApprRow
<1> HIDE DEF new
<1>10. ApprRowOK(seen) /\ ApprRowOK(unsent) /\ ApprRowOK(new)
  BY <1>1, <1>4, <1>5, <1>6, <1>9 DEF ApprRowOK
<1>11. row = apprRows[r]
  BY DEF row
<1>12. apprRows' \in [ApprIds -> ApprRow] /\ \A s \in ApprIds : ApprIdle(s)
  <2>1. CASE apprRows' = [apprRows EXCEPT ![r] = new]
    BY <1>6, <1>9, <1>10, <1>11, <2>1, ApprPutIdle
  <2>2. CASE apprRows' = [apprRows EXCEPT ![r] = seen]
    BY <1>4, <1>6, <1>10, <1>11, <2>2, ApprPutIdle
  <2>3. CASE apprRows' = [apprRows EXCEPT ![r] = unsent]
    BY <1>5, <1>6, <1>10, <1>11, <2>3, ApprPutIdle
  <2> QED  BY <1>2, <2>1, <2>2, <2>3
<1> QED  BY <1>2, <1>3, <1>12, ApprRowsStep

LEMMA ApprNoticeStep ==
  ASSUME ApprInv, NEW r \in ApprIds, ApprNotice(r)
  PROVE  ApprStep
<1> DEFINE row == apprRows[r]
           way == IF row.known THEN "card" ELSE "text"
           a == [row EXCEPT !.delivery = "pending"]
           b == [a EXCEPT !.tries = row.tries + 1]
           new == [b EXCEPT !.flight = way]
           stopped == [row EXCEPT !.stuck = TRUE]
<1>1. row \in ApprRow /\ ApprRowOK(row)
  BY DEF ApprInv, ApprTypeOK
<1>2. /\ row.outcome # "none" /\ row.flight = "none" /\ row.tries < MaxNotices /\ ApprRowsOnly
      /\ \/ apprRows' = [apprRows EXCEPT ![r] = new] /\ apprFaults' = apprFaults
         \/ apprRows' = [apprRows EXCEPT ![r] = stopped] /\ ApprFault
  BY DEF ApprNotice, ApprPut
<1>3. apprFaults' \in 0..MaxApprFaults
  <2>1. ApprTypeOK
    BY DEF ApprInv
  <2> QED  BY <1>2, <2>1, ApprFaultCounted DEF ApprTypeOK
<1>4. row.tries + 1 \in 0..MaxNotices /\ way \in {"text", "card"} /\ (way = "card" => row.known)
  BY <1>1, <1>2, ApprAssumption DEF ApprRow
<1>5. row = apprRows[r]
  OBVIOUS
<1> HIDE DEF row, way
<1>6. stopped \in ApprRow /\ stopped.card = row.card /\ stopped.known = row.known
      /\ stopped.delivery = row.delivery
      /\ stopped.phase = row.phase /\ stopped.outcome = row.outcome /\ stopped.flight = row.flight
      /\ stopped.room = row.room /\ stopped.key = row.key /\ stopped.choice = row.choice
  BY <1>1 DEF ApprRow
<1> HIDE DEF stopped
<1>7. a \in ApprRow /\ a.card = row.card /\ a.known = row.known /\ a.delivery = "pending"
      /\ a.phase = row.phase /\ a.outcome = row.outcome
      /\ a.room = row.room /\ a.key = row.key /\ a.choice = row.choice
  BY <1>1 DEF ApprRow
<1> HIDE DEF a
<1>8. b \in ApprRow /\ b.card = row.card /\ b.known = row.known /\ b.delivery = "pending"
      /\ b.phase = row.phase /\ b.outcome = row.outcome
      /\ b.room = row.room /\ b.key = row.key /\ b.choice = row.choice
  BY <1>4, <1>7 DEF ApprRow
<1> HIDE DEF b
<1>9. new \in ApprRow /\ new.card = row.card /\ new.known = row.known /\ new.delivery = "pending"
      /\ new.phase = row.phase /\ new.outcome = row.outcome /\ new.flight = way
      /\ new.room = row.room /\ new.key = row.key /\ new.choice = row.choice
  BY <1>4, <1>8 DEF ApprRow
<1> HIDE DEF new
<1>10. ApprRowOK(new) /\ ApprRowOK(stopped)
  BY <1>1, <1>2, <1>4, <1>6, <1>9 DEF ApprRowOK
<1>11. apprRows' \in [ApprIds -> ApprRow] /\ \A s \in ApprIds : ApprIdle(s)
  <2>1. CASE apprRows' = [apprRows EXCEPT ![r] = new]
    BY <1>5, <1>9, <1>10, <2>1, ApprPutIdle
  <2>2. CASE apprRows' = [apprRows EXCEPT ![r] = stopped]
    BY <1>5, <1>6, <1>10, <2>2, ApprPutIdle
  <2> QED  BY <1>2, <2>1, <2>2
<1> QED  BY <1>2, <1>3, <1>11, ApprRowsStep

\* What the provider was given is over, shown or not; its result; a save that throws.
ApprLost(row) == [row EXCEPT !.flight = "none"]
ApprShut(row) == IF row.flight = "card" THEN "closed" ELSE row.card
ApprShown(row) == [row EXCEPT !.flight = "none", !.card = ApprShut(row)]
ApprAfter(row, w, result) ==
  IF ApprOvertaken(row) THEN w ELSE [w EXCEPT !.delivery = result, !.known = (row.flight = "card")]
ApprStopped(w) == [w EXCEPT !.stuck = TRUE]

LEMMA ApprLanded ==
  ASSUME NEW row \in ApprRow, NEW w \in {ApprLost(row), ApprShown(row)}
  PROVE  /\ w \in ApprRow /\ w.flight = "none"
         /\ w.phase = row.phase /\ w.outcome = row.outcome /\ w.known = row.known
         /\ w.room = row.room /\ w.key = row.key /\ w.choice = row.choice /\ w.delivery = row.delivery
         /\ w.card \in {row.card, "closed"}
         /\ w = ApprShown(row) /\ row.flight = "card" => w.card = "closed"
<1> DEFINE a == ApprLost(row)
           b == [a EXCEPT !.card = ApprShut(row)]
<1>1. /\ a \in ApprRow /\ a.flight = "none" /\ a.card = row.card
      /\ a.phase = row.phase /\ a.outcome = row.outcome /\ a.known = row.known
      /\ a.room = row.room /\ a.key = row.key /\ a.choice = row.choice /\ a.delivery = row.delivery
  BY DEF ApprRow, ApprLost
<1>2. ApprShut(row) \in {row.card, "closed"} /\ (row.flight = "card" => ApprShut(row) = "closed")
  BY DEF ApprShut
<1>3. b = ApprShown(row)
  BY DEF ApprShown, ApprLost
<1> HIDE DEF a
<1>4. /\ b \in ApprRow /\ b.flight = "none" /\ b.card = ApprShut(row)
      /\ b.phase = row.phase /\ b.outcome = row.outcome /\ b.known = row.known
      /\ b.room = row.room /\ b.key = row.key /\ b.choice = row.choice /\ b.delivery = row.delivery
  BY <1>1, <1>2 DEF ApprRow
<1> HIDE DEF b
<1>5. w = a \/ w = b
  BY <1>3 DEF a
<1>6. a = b => a.card = ApprShut(row)
  BY <1>4
<1> QED  BY <1>1, <1>2, <1>3, <1>4, <1>5, <1>6

LEMMA ApprRecorded ==
  ASSUME NEW row \in ApprRow, ApprRowOK(row), row.flight # "none",
         NEW w \in {ApprLost(row), ApprShown(row)},
         NEW result \in {"delivered", "retry", "unconfirmed"},
         result = "delivered" => w = ApprShown(row),
         NEW new \in {ApprAfter(row, w, result), ApprStopped(w)}
  PROVE  /\ new \in ApprRow /\ ApprRowOK(new) /\ new.phase = row.phase
         /\ new.room = row.room /\ new.key = row.key /\ new.choice = row.choice
         /\ row.known => new.known
<1> DEFINE k == row.flight = "card"
           a == [w EXCEPT !.delivery = result]
           b == [a EXCEPT !.known = k]
<1>0. /\ w \in ApprRow /\ w.flight = "none" /\ w.card \in {row.card, "closed"}
      /\ w.phase = row.phase /\ w.outcome = row.outcome /\ w.known = row.known
      /\ w.room = row.room /\ w.key = row.key /\ w.choice = row.choice /\ w.delivery = row.delivery
      /\ result = "delivered" /\ row.flight = "card" => w.card = "closed"
  BY ApprLanded
<1>1. new = w \/ new = ApprStopped(w) \/ (new = b /\ ~ApprOvertaken(row))
  BY DEF ApprAfter
<1>2. k \in BOOLEAN /\ (k <=> row.flight = "card")
  OBVIOUS
<1>3. row.known /\ ~ApprOvertaken(row) => row.flight = "card"
  BY DEF ApprOvertaken, ApprRow
<1> HIDE DEF k
<1>5. /\ a \in ApprRow /\ a.flight = "none" /\ a.card = w.card /\ a.delivery = result
      /\ a.phase = row.phase /\ a.outcome = row.outcome
      /\ a.room = row.room /\ a.key = row.key /\ a.choice = row.choice
  BY <1>0 DEF ApprRow
<1> HIDE DEF a
<1>6. /\ b \in ApprRow /\ b.flight = "none" /\ b.card = w.card /\ b.delivery = result /\ b.known = k
      /\ b.phase = row.phase /\ b.outcome = row.outcome
      /\ b.room = row.room /\ b.key = row.key /\ b.choice = row.choice
  BY <1>2, <1>5 DEF ApprRow
<1> HIDE DEF b
<1> DEFINE c == ApprStopped(w)
<1>7. /\ c \in ApprRow /\ c.flight = "none" /\ c.card = w.card /\ c.delivery = row.delivery
      /\ c.known = row.known
      /\ c.phase = row.phase /\ c.outcome = row.outcome
      /\ c.room = row.room /\ c.key = row.key /\ c.choice = row.choice
  BY <1>0 DEF ApprRow, ApprStopped
<1> HIDE DEF c
<1>8. row.phase # "none" /\ row.delivery # "delivered" /\ (row.known => row.card # "sending")
  BY DEF ApprRowOK
<1>9. ApprRowOK(w) /\ ApprRowOK(c)
  BY <1>0, <1>7, <1>8 DEF ApprRowOK
<1>10. k /\ result = "delivered" => w.card = "closed"
  BY <1>0, <1>2
<1>11. k => row.known
  BY <1>2 DEF ApprRowOK
<1>12. ApprRowOK(b)
  BY <1>0, <1>6, <1>8, <1>10, <1>11 DEF ApprRowOK
<1> QED  BY <1>0, <1>1, <1>2, <1>3, <1>6, <1>7, <1>9, <1>12 DEF c

LEMMA ApprNoticedStep ==
  ASSUME ApprInv, NEW r \in ApprIds, ApprNoticed(r)
  PROVE  ApprStep
<1> DEFINE row == apprRows[r]
<1>1. row \in ApprRow /\ ApprRowOK(row) /\ row = apprRows[r]
  BY DEF ApprInv, ApprTypeOK
<1>2. /\ row.flight # "none" /\ ApprRowsOnly
      /\ \/ apprRows' = [apprRows EXCEPT ![r] = ApprAfter(row, ApprShown(row), "delivered")] /\ UNCHANGED apprFaults
         \/ ApprFault /\ \E w \in {ApprLost(row), ApprShown(row)}, result \in {"retry", "unconfirmed"} :
              apprRows' = [apprRows EXCEPT ![r] = ApprAfter(row, w, result)]
         \/ ApprFault /\ apprRows' = [apprRows EXCEPT ![r] = ApprStopped(ApprShown(row))]
  BY DEF ApprNoticed, ApprPut, ApprAfter, ApprShown, ApprShut, ApprLost, ApprStopped
<1> HIDE DEF row
<1>3. apprFaults' \in 0..MaxApprFaults
  <2>1. ApprTypeOK
    BY DEF ApprInv
  <2> QED  BY <1>2, <2>1, ApprFaultCounted DEF ApprTypeOK
<1>4. ASSUME NEW w \in {ApprLost(row), ApprShown(row)},
             NEW result \in {"delivered", "retry", "unconfirmed"},
             result = "delivered" => w = ApprShown(row),
             NEW new \in {ApprAfter(row, w, result), ApprStopped(w)},
             apprRows' = [apprRows EXCEPT ![r] = new]
      PROVE  apprRows' \in [ApprIds -> ApprRow] /\ \A s \in ApprIds : ApprIdle(s)
  <2>1. /\ new \in ApprRow /\ ApprRowOK(new) /\ new.phase = row.phase
        /\ new.room = row.room /\ new.key = row.key /\ new.choice = row.choice
        /\ row.known => new.known
    BY <1>1, <1>2, <1>4, ApprRecorded
  <2> QED  BY <1>1, <1>4, <2>1, ApprPutIdle
<1>5. apprRows' \in [ApprIds -> ApprRow] /\ \A s \in ApprIds : ApprIdle(s)
  <2>1. CASE apprRows' = [apprRows EXCEPT ![r] = ApprAfter(row, ApprShown(row), "delivered")]
    BY <1>4, <2>1
  <2>2. CASE \E w \in {ApprLost(row), ApprShown(row)}, result \in {"retry", "unconfirmed"} :
              apprRows' = [apprRows EXCEPT ![r] = ApprAfter(row, w, result)]
    BY <1>4, <2>2
  <2>3. CASE apprRows' = [apprRows EXCEPT ![r] = ApprStopped(ApprShown(row))]
    BY <1>4, <2>3
  <2> QED  BY <1>2, <2>1, <2>2, <2>3
<1> QED  BY <1>2, <1>3, <1>5, ApprRowsStep

-----------------------------------------------------------------------------
(* What the rooms are told.                                                *)

ApprResults == {"confirmed", "failed", "withdrawn"}

\* The routes lead to rows of their rooms.
LEMMA ApprRouted ==
  ASSUME ApprInv, NEW x \in Rooms, apprRoute[x] # 0
  PROVE  /\ apprRoute[x] \in ApprIds /\ apprRows[apprRoute[x]].room = x
         /\ apprRows[apprRoute[x]].phase # "none" /\ apprRows[apprRoute[x]] \in ApprRow
<1>1. apprRoute[x] \in 0..MaxApprRows
  BY DEF ApprInv, ApprTypeOK
<1>2. apprRoute[x] \in ApprIds
  BY <1>1, ApprAssumption DEF ApprIds
<1> QED  BY <1>2 DEF ApprInv, ApprTypeOK, ApprOffersOK

LEMMA ApprRowTold ==
  ASSUME NEW row \in ApprRow, ApprRowOK(row), row.phase # "none",
         NEW result \in ApprResults, NEW open \in BOOLEAN,
         NEW new, new = ApprToldRow(row, result, open)
  PROVE  /\ new \in ApprRow /\ ApprRowOK(new) /\ new.room = row.room /\ new.key = row.key
         /\ new.phase \in {row.phase, result} /\ (row.phase = "confirmed" => new.phase = "confirmed")
         /\ new.known = row.known /\ (~open => new.choice = row.choice)
<1> DEFINE ch == IF open THEN "decline" ELSE row.choice
           a == [row EXCEPT !.phase = result]
           b == [a EXCEPT !.choice = ch]
           c == [b EXCEPT !.outcome = result]
           d == [c EXCEPT !.delivery = "ready"]
           e == [d EXCEPT !.tries = 0]
<1>1. new = row \/ (row.phase # "confirmed" /\ new = e)
  BY DEF ApprToldRow
<1>2. ch \in ApprAnswers \cup {"none"} /\ (~open => ch = row.choice) /\ 0 \in 0..MaxNotices
  BY ApprAssumption DEF ApprRow, ApprAnswers
<1> HIDE DEF ch
<1>3. /\ a \in ApprRow /\ a.phase = result
      /\ a.room = row.room /\ a.key = row.key /\ a.known = row.known /\ a.card = row.card /\ a.flight = row.flight
  BY DEF ApprRow, ApprResults
<1> HIDE DEF a
<1>4. /\ b \in ApprRow /\ b.phase = result /\ b.choice = ch
      /\ b.room = row.room /\ b.key = row.key /\ b.known = row.known /\ b.card = row.card /\ b.flight = row.flight
  BY <1>2, <1>3 DEF ApprRow
<1> HIDE DEF b
<1>5. /\ c \in ApprRow /\ c.phase = result /\ c.choice = ch
      /\ c.room = row.room /\ c.key = row.key /\ c.known = row.known /\ c.card = row.card /\ c.flight = row.flight
  BY <1>4 DEF ApprRow, ApprResults
<1> HIDE DEF c
<1>6. /\ d \in ApprRow /\ d.phase = result /\ d.choice = ch /\ d.delivery = "ready"
      /\ d.room = row.room /\ d.key = row.key /\ d.known = row.known /\ d.card = row.card /\ d.flight = row.flight
  BY <1>5 DEF ApprRow
<1> HIDE DEF d
<1>7. /\ e \in ApprRow /\ e.phase = result /\ e.choice = ch /\ e.delivery = "ready"
      /\ e.room = row.room /\ e.key = row.key /\ e.known = row.known /\ e.card = row.card /\ e.flight = row.flight
  BY <1>2, <1>6 DEF ApprRow
<1> HIDE DEF e
<1>8. ApprRowOK(e)
  BY <1>7 DEF ApprRowOK, ApprResults
<1> QED  BY <1>1, <1>2, <1>7, <1>8

LEMMA ApprReportEffect ==
  ASSUME ApprInv, NEW told \in SUBSET Rooms, NEW result \in [Rooms -> ApprResults], NEW cost \in Nat,
         ApprReport(told, result, cost)
  PROVE  /\ apprFaults' \in 0..MaxApprFaults
         /\ apprRows' \in [ApprIds -> ApprRow]
         /\ \A r \in ApprIds :
              /\ ApprKept(r)
              /\ r \notin apprOpen => apprRows'[r].choice = apprRows[r].choice
              /\ \/ apprRows'[r].phase = apprRows[r].phase
                 \/ \E x \in told : apprRoute[x] = r /\ apprRows'[r].phase = result[x]
         /\ apprOpen' \subseteq apprOpen
         /\ \A r \in apprOpen' : \A x \in told : apprRoute[x] = r => result[x] = "confirmed"
         /\ apprRoute' = [x \in Rooms |-> IF x \in told THEN 0 ELSE apprRoute[x]]
<1> DEFINE hit(r) == \E x \in told : apprRoute[x] = r
           said(r) == result[apprRows[r].room]
<1>1. PICK unsaved \in SUBSET {x \in told : apprRoute[x] # 0} :
        /\ ApprFaults(cost + Cardinality(unsaved))
        /\ apprRows' = [r \in ApprIds |->
             IF hit(r) /\ apprRows[r].room \notin unsaved
             THEN ApprToldRow(apprRows[r], said(r), r \in apprOpen) ELSE apprRows[r]]
  BY DEF ApprReport
<1>2. apprFaults' \in 0..MaxApprFaults
  <2>1. IsFiniteSet(unsaved)
    BY FS_Subset, ApprAssumption
  <2>2. cost + Cardinality(unsaved) \in Nat
    BY <2>1, FS_CardinalityType
  <2> QED  BY <1>1, <2>2, ApprFaultsCounted DEF ApprInv
<1>3. /\ apprOpen' = {r \in apprOpen : ~(hit(r) /\ said(r) # "confirmed")}
      /\ apprRoute' = [x \in Rooms |-> IF x \in told THEN 0 ELSE apprRoute[x]]
  BY DEF ApprReport
<1>4. apprRows \in [ApprIds -> ApprRow] /\ apprOpen \subseteq ApprIds
      /\ \A r \in ApprIds : ApprRowOK(apprRows[r])
  BY DEF ApprInv, ApprTypeOK
<1>5. 0 \notin ApprIds
  BY DEF ApprIds
<1>6. \A r \in ApprIds : \A x \in told : apprRoute[x] = r =>
        apprRows[r].room = x /\ apprRows[r].phase # "none"
  BY <1>5, ApprRouted
<1>7. ASSUME NEW r \in ApprIds
      PROVE  /\ apprRows'[r] \in ApprRow /\ ApprKept(r)
             /\ r \notin apprOpen => apprRows'[r].choice = apprRows[r].choice
             /\ \/ apprRows'[r].phase = apprRows[r].phase
                \/ \E x \in told : apprRoute[x] = r /\ apprRows'[r].phase = result[x]
  <2>1. CASE apprRows'[r] = apprRows[r]
    BY <1>4, <2>1 DEF ApprKept
  <2>2. CASE apprRows'[r] # apprRows[r]
    <3>1. hit(r) /\ apprRows'[r] = ApprToldRow(apprRows[r], said(r), r \in apprOpen)
      BY <1>1, <2>2
    <3>2. PICK x \in told : apprRoute[x] = r
      BY <3>1
    <3>3. said(r) = result[x] /\ result[x] \in ApprResults /\ apprRows[r].phase # "none"
      BY <1>6, <3>2
    <3> DEFINE open == r \in apprOpen
    <3>6. open \in BOOLEAN /\ (open <=> r \in apprOpen)
      OBVIOUS
    <3>7. apprRows'[r] = ApprToldRow(apprRows[r], said(r), open)
      BY <3>1
    <3> HIDE DEF said, open
    <3>4. /\ apprRows'[r] \in ApprRow /\ ApprRowOK(apprRows'[r])
          /\ apprRows'[r].room = apprRows[r].room /\ apprRows'[r].key = apprRows[r].key
          /\ apprRows'[r].phase \in {apprRows[r].phase, result[x]}
          /\ (apprRows[r].phase = "confirmed" => apprRows'[r].phase = "confirmed")
          /\ apprRows'[r].known = apprRows[r].known
          /\ (r \notin apprOpen => apprRows'[r].choice = apprRows[r].choice)
      BY <1>4, <3>3, <3>6, <3>7, ApprRowTold
    <3>5. apprRows'[r].phase # "none"
      BY <3>3, <3>4 DEF ApprResults
    <3> QED  BY <3>2, <3>4, <3>5 DEF ApprKept
  <2> QED  BY <2>1, <2>2
<1>8. apprRows' \in [ApprIds -> ApprRow]
  <2> DEFINE new(r) == IF hit(r) /\ apprRows[r].room \notin unsaved
             THEN ApprToldRow(apprRows[r], said(r), r \in apprOpen) ELSE apprRows[r]
  <2>1. apprRows' = [r \in ApprIds |-> new(r)]
    BY <1>1
  <2>2. \A r \in ApprIds : new(r) \in ApprRow
    BY <1>7, <2>1
  <2> HIDE DEF new
  <2> QED  BY <2>1, <2>2
<1>9. apprOpen' \subseteq apprOpen
      /\ \A r \in apprOpen' : \A x \in told : apprRoute[x] = r => result[x] = "confirmed"
  BY <1>3, <1>4, <1>6
<1> QED  BY <1>2, <1>3, <1>7, <1>8, <1>9

\* What an offer that ends leaves behind.
LEMMA ApprLateTyped ==
  ASSUME ApprTypeOK, NEW gone \in SUBSET Rooms, NEW routed \in BOOLEAN, NEW late, late = ApprLateFrom(gone, routed)
  PROVE  /\ late \in [Rooms -> [key : Nat, routed : BOOLEAN]]
         /\ \A x \in Rooms : x \notin gone => late[x] = apprLate[x]
         /\ ~routed => \A x \in gone : ~late[x].routed
<1>1. /\ apprLate \in [Rooms -> [key : Nat, routed : BOOLEAN]] /\ apprConn \in Nat
  BY DEF ApprTypeOK
<1>2. ASSUME NEW x \in Rooms
      PROVE  /\ late[x] \in [key : Nat, routed : BOOLEAN]
             /\ x \notin gone => late[x] = apprLate[x]
             /\ ~routed /\ x \in gone => ~late[x].routed
  <2> DEFINE here == x \in gone /\ apprOffer[x] = "calling"
             away == [apprLate[x] EXCEPT !.routed = FALSE]
             now == [key |-> apprConn, routed |-> routed]
  <2>1. late[x] = IF here THEN now ELSE IF x \in gone /\ ~routed THEN away ELSE apprLate[x]
    BY DEF ApprLateFrom
  <2>2. apprLate[x] \in [key : Nat, routed : BOOLEAN]
    BY <1>1
  <2>3. away \in [key : Nat, routed : BOOLEAN] /\ ~away.routed
    BY <2>2
  <2>4. now \in [key : Nat, routed : BOOLEAN] /\ (~routed => ~now.routed)
    BY <1>1
  <2> HIDE DEF away, now
  <2> QED  BY <2>1, <2>2, <2>3, <2>4
<1>3. late = [x \in Rooms |-> late[x]]
  BY DEF ApprLateFrom
<1> QED  BY <1>2, <1>3

\* The request is over for the client, for a result it has reason to report.
LEMMA ApprFinishStep ==
  ASSUME ApprInv, apprReq # "none", NEW result \in ApprResults, NEW cost \in Nat, ApprFinish(result, cost),
         result = "withdrawn" <=> apprReq = "asking",
         result = "confirmed" => apprNative' # "open",
         apprNative' \in {"open", "ours", "gone"}, apprSeen' \in BOOLEAN, apprConn' \in Nat,
         apprTook' \in {apprTook, apprWire}, apprWire' \in {apprWire, "none"},
         apprTook' # "none" => apprNative' = "ours",
         apprWire' # "none" => apprSeen'
  PROVE  ApprStep
<1> DEFINE res == [x \in Rooms |-> ApprHeard(x, result)]
<1>1. /\ apprReq' = "none" /\ apprOffer' = [x \in Rooms |-> "none"]
      /\ apprLate' = ApprLateFrom(apprFollow, FALSE)
      /\ ApprReport(apprFollow, res, cost)
      /\ apprFollow' = apprFollow /\ apprLeft' = apprLeft /\ apprBy' = apprBy
      /\ IF result = "failed" THEN apprAsk' = apprAsk /\ apprWinner' = apprWinner
         ELSE apprAsk' = "none" /\ apprWinner' = NoRoom
  BY DEF ApprFinish
<1>2. res \in [Rooms -> ApprResults]
      /\ \A x \in Rooms : res[x] = "confirmed" => result = "confirmed" /\ x = apprWinner
  BY DEF ApprHeard, ApprResults
<1>3. ApprTypeOK /\ ApprClientOK /\ ApprOffersOK /\ ApprCardsOK /\ ApprCardsCurrent /\ ApprConfirmedOK
  BY DEF ApprInv
<1>4. apprFollow \in SUBSET Rooms /\ apprOpen \subseteq ApprIds /\ apprBy \in 0..MaxApprRows
      /\ (apprBy # 0 => apprBy \in ApprIds) /\ 0 \notin ApprIds
  BY <1>3, ApprAssumption DEF ApprTypeOK, ApprIds
<1> HIDE DEF res
<1>5. /\ apprFaults' \in 0..MaxApprFaults
      /\ apprRows' \in [ApprIds -> ApprRow]
      /\ \A r \in ApprIds :
           /\ ApprKept(r)
           /\ r \notin apprOpen => apprRows'[r].choice = apprRows[r].choice
           /\ \/ apprRows'[r].phase = apprRows[r].phase
              \/ \E x \in apprFollow : apprRoute[x] = r /\ apprRows'[r].phase = res[x]
      /\ apprOpen' \subseteq apprOpen
      /\ \A r \in apprOpen' : \A x \in apprFollow : apprRoute[x] = r => res[x] = "confirmed"
      /\ apprRoute' = [x \in Rooms |-> IF x \in apprFollow THEN 0 ELSE apprRoute[x]]
  BY <1>1, <1>2, <1>4, ApprReportEffect
<1>6. /\ apprLate' \in [Rooms -> [key : Nat, routed : BOOLEAN]]
      /\ \A x \in apprFollow : ~apprLate'[x].routed
  BY <1>1, <1>3, <1>4, ApprLateTyped
<1>7. apprAsk # "none" /\ (result # "withdrawn" => apprAsk \in ApprAnswers)
  BY <1>3 DEF ApprClientOK, ApprTypeOK, ApprAnswers
<1>8. \A x \in apprFollow : apprRoute[x] # 0 /\ res[x] = "confirmed" =>
        apprRoute[x] = apprBy /\ apprBy # 0 /\ result = "confirmed"
  BY <1>2, <1>4, ApprAssumption DEF ApprInv, ApprOffersOK
<1>9. ApprTypeOK'
  <2>1. apprRoute' \in [Rooms -> 0..MaxApprRows]
    BY <1>3, <1>5, ApprAssumption DEF ApprTypeOK
  <2>2. apprAsk' \in {"none", "open"} \cup ApprAnswers /\ apprWinner' \in Rooms \cup {NoRoom}
    BY <1>1, <1>3 DEF ApprTypeOK
  <2>3. {apprTook', apprWire'} \subseteq ApprAnswers \cup {"none"}
    BY <1>3 DEF ApprTypeOK
  <2>4. apprOffer' \in [Rooms -> {"none", "calling", "asking", "done"}]
    BY <1>1
  <2>5. apprOpen' \subseteq ApprIds /\ apprLeft' \subseteq ApprIds /\ apprBy' \in 0..MaxApprRows
        /\ apprFollow' \subseteq Rooms
    BY <1>1, <1>3, <1>4, <1>5 DEF ApprTypeOK
  <2> QED  BY <1>1, <1>5, <1>6, <2>1, <2>2, <2>3, <2>4, <2>5 DEF ApprTypeOK
<1>10. ApprClientOK'
  <2>1. apprBy # 0 => apprBy \notin apprOpen' /\ apprRows'[apprBy].phase # "none"
                      /\ apprRows'[apprBy].choice = apprRows[apprBy].choice
    BY <1>3, <1>4, <1>5 DEF ApprClientOK, ApprKept
  <2>2. apprAsk' \in {apprAsk, "none"} /\ apprAsk' # "open"
    BY <1>1, <1>7 DEF ApprAnswers
  <2> QED  BY <1>1, <1>3, <2>1, <2>2 DEF ApprClientOK, ApprChosen
<1>11. ApprOffersOK'
  <2>1. ASSUME NEW x \in Rooms, apprRoute'[x] # 0
        PROVE  apprRows'[apprRoute'[x]].room = x /\ apprRows'[apprRoute'[x]].phase # "none"
    <3>1. apprRoute'[x] = apprRoute[x]
      BY <1>5, <2>1
    <3> QED  BY <1>5, <2>1, <3>1, ApprRouted DEF ApprKept
  <2>2. ASSUME apprWinner' # NoRoom
        PROVE  /\ apprWinner' \in apprFollow /\ apprAsk' \in ApprAnswers
               /\ apprRoute'[apprWinner'] = 0 /\ ~apprLate'[apprWinner'].routed
    <3>1. apprWinner' = apprWinner /\ apprAsk' = apprAsk /\ apprWinner \in apprFollow /\ apprAsk \in ApprAnswers
      BY <1>1, <1>3, <2>2 DEF ApprOffersOK
    <3> QED  BY <1>4, <1>5, <1>6, <3>1
  <2>3. \A x \in Rooms : apprOffer'[x] = "none"
    BY <1>1
  <2> QED  BY <1>1, <1>4, <2>1, <2>2, <2>3 DEF ApprOffersOK
<1>12. apprOpen' \ apprLeft' = {}
  <2>1. ASSUME NEW r \in apprOpen', r \notin apprLeft PROVE FALSE
    <3>1. r \in apprOpen /\ r \in ApprIds /\ apprRoute[apprRows[r].room] = r /\ apprRows[r].room \in apprFollow
      BY <1>3, <1>4, <1>5, <2>1 DEF ApprCardsCurrent
    <3>2. r = apprBy /\ apprBy # 0
      BY <1>4, <1>5, <1>8, <3>1
    <3> QED  BY <1>3, <3>1, <3>2 DEF ApprClientOK
  <2> QED  BY <1>1, <2>1
<1>13. ApprCardsOK' /\ ApprCardsCurrent'
  <2>1. ASSUME NEW r \in apprOpen'
        PROVE  apprRows'[r].phase = "pending" /\ apprRows'[r].room = apprRows[r].room /\ apprRows'[r].key = apprRows[r].key
    <3>1. r \in apprOpen /\ r \in ApprIds /\ apprRows[r].phase = "pending"
      BY <1>3, <1>4, <1>5 DEF ApprCardsOK
    <3>2. apprRows'[r].phase = apprRows[r].phase
      <4>1. ASSUME NEW x \in apprFollow, apprRoute[x] = r PROVE FALSE
        <5>1. r = apprBy /\ apprBy # 0
          BY <1>4, <1>5, <1>8, <3>1, <4>1
        <5> QED  BY <1>3, <3>1, <5>1 DEF ApprClientOK
      <4> QED  BY <1>5, <3>1, <4>1
    <3> QED  BY <1>5, <3>1, <3>2 DEF ApprKept
  <2> QED  BY <1>3, <1>5, <1>12, <2>1 DEF ApprCardsOK, ApprCardsCurrent
<1>14. ApprConfirmedOK'
  <2>1. ASSUME NEW r \in ApprIds, apprRows'[r].phase = "confirmed"
        PROVE  r = apprBy /\ result = "confirmed"
    <3>1. apprRows[r].phase # "confirmed"
      BY <1>3, <1>7 DEF ApprConfirmedOK
    <3>2. PICK x \in apprFollow : apprRoute[x] = r /\ apprRows'[r].phase = res[x]
      BY <1>5, <2>1, <3>1
    <3> QED  BY <1>4, <1>8, <2>1, <3>2
  <2> QED  BY <1>1, <2>1 DEF ApprConfirmedOK
<1>15. ApprFinal
  BY <1>5, ApprKeepsFinal
<1>16. \A r \in ApprIds : ApprRowOK(apprRows'[r])
  BY <1>5 DEF ApprKept
<1> QED  BY <1>9, <1>10, <1>11, <1>13, <1>14, <1>15, <1>16 DEF ApprInv, ApprStep

LEMMA ApprResolvedStep ==
  ASSUME ApprInv, ApprResolved
  PROVE  ApprStep
<1> DEFINE result == IF apprReq = "submitted" THEN "confirmed" ELSE "withdrawn"
<1>1. /\ apprNative # "open" /\ apprReq # "none" /\ ApprFinish(result, 0)
      /\ apprSeen' = (apprReq = "submitted")
      /\ UNCHANGED <<apprNative, apprTook, apprWire, apprConn>>
  BY DEF ApprResolved, ApprFinish, apprCodexVars
<1>2. ApprTypeOK /\ ApprClientOK
  BY DEF ApprInv
<1>3. apprSeen' \in BOOLEAN /\ (apprSeen' <=> apprReq = "submitted")
  BY <1>1
<1>4. apprReq \in {"asking", "submitted"} /\ result \in ApprResults /\ (result = "withdrawn" <=> apprReq = "asking")
  BY <1>1, <1>2 DEF ApprTypeOK, ApprResults
<1> HIDE DEF result
<1>5. apprWire' # "none" => apprSeen'
  BY <1>1, <1>2, <1>3, <1>4 DEF ApprClientOK
<1>6. apprTook' # "none" => apprNative' = "ours"
  BY <1>1, <1>2 DEF ApprClientOK
<1>7. apprNative' \in {"open", "ours", "gone"} /\ apprConn' \in Nat
  BY <1>1, <1>2 DEF ApprTypeOK
<1> QED  BY <1>1, <1>3, <1>4, <1>5, <1>6, <1>7, ApprFinishStep

LEMMA ApprTurnEndsStep ==
  ASSUME ApprInv, ApprTurnEnds
  PROVE  ApprStep
<1> DEFINE result == IF apprReq = "submitted" THEN "failed" ELSE "withdrawn"
<1>1. /\ apprReq # "none" /\ ApprFinish(result, 0)
      /\ apprSeen' = (apprReq = "submitted")
      /\ apprNative' = IF apprNative = "open" THEN "gone" ELSE apprNative
      /\ UNCHANGED <<apprTook, apprWire, apprConn>>
  BY DEF ApprTurnEnds
<1>2. ApprTypeOK /\ ApprClientOK
  BY DEF ApprInv
<1>3. apprSeen' \in BOOLEAN /\ (apprSeen' <=> apprReq = "submitted")
  BY <1>1
<1>4. apprReq \in {"asking", "submitted"} /\ result \in ApprResults /\ (result = "withdrawn" <=> apprReq = "asking")
      /\ result # "confirmed"
  BY <1>1, <1>2 DEF ApprTypeOK, ApprResults
<1> HIDE DEF result
<1>5. apprWire' # "none" => apprSeen'
  BY <1>1, <1>2, <1>3, <1>4 DEF ApprClientOK
<1>6. apprTook' # "none" => apprNative' = "ours"
  BY <1>1, <1>2 DEF ApprClientOK
<1>7. apprNative' \in {"open", "ours", "gone"} /\ apprConn' \in Nat
  BY <1>1, <1>2 DEF ApprTypeOK
<1> QED  BY <1>1, <1>3, <1>4, <1>5, <1>6, <1>7, ApprFinishStep

-----------------------------------------------------------------------------
(* Codex and the connection.                                               *)

LEMMA ApprRowsUnchanged ==
  ASSUME ApprInv, apprRows' = apprRows
  PROVE  \A r \in ApprIds : ApprIdle(r)
BY DEF ApprInv, ApprTypeOK, ApprIdle, ApprKept

LEMMA ApprCodexStep ==
  ASSUME ApprInv, UNCHANGED <<apprFollow, apprAsk, apprWinner, apprOffer, apprLate>>,
         UNCHANGED <<apprRoute, apprRows, apprOpen, apprLeft, apprBy, apprReq>>,
         apprFaults' \in 0..MaxApprFaults,
         apprNative' \in {"open", "ours", "gone"}, apprSeen' \in BOOLEAN, apprConn' \in Nat,
         apprNative # "open" => apprNative' # "open",
         apprNative' = "ours" => apprReq # "asking",
         apprTook' \in {apprTook, apprWire}, apprWire' \in {apprWire, "none"},
         apprTook' # "none" => apprNative' = "ours",
         apprReq # "none" \/ apprWire' # "none" => apprSeen',
         apprConn' = apprConn \/ apprReq = "none"
  PROVE  ApprStep
<1>1. ApprTypeOK /\ ApprClientOK /\ ApprOffersOK /\ ApprCardsOK /\ ApprCardsCurrent /\ ApprConfirmedOK
  BY DEF ApprInv
<1>2. ApprTypeOK'
  BY <1>1 DEF ApprTypeOK
<1>3. ApprClientOK'
  BY <1>1 DEF ApprClientOK, ApprChosen
<1>4. ApprOffersOK'
  BY <1>1 DEF ApprOffersOK
<1>5. ApprCardsOK' /\ ApprCardsCurrent'
  <2>1. apprConn' = apprConn \/ apprOpen \ apprLeft = {}
    BY <1>1 DEF ApprCardsCurrent
  <2> QED  BY <1>1, <2>1 DEF ApprCardsOK, ApprCardsCurrent
<1>6. ApprConfirmedOK'
  BY <1>1 DEF ApprConfirmedOK
<1>7. ApprFinal /\ \A r \in ApprIds : ApprRowOK(apprRows'[r])
  BY ApprRowsUnchanged, ApprKeepsFinal DEF ApprIdle, ApprKept
<1> QED  BY <1>2, <1>3, <1>4, <1>5, <1>6, <1>7 DEF ApprInv, ApprStep

LEMMA ApprAnsweredStep ==
  ASSUME ApprInv, ApprAnswered
  PROVE  ApprStep
<1>1. /\ apprWire # "none" /\ apprWire' = "none"
      /\ IF apprNative = "open" THEN apprNative' = "ours" /\ apprTook' = apprWire
                ELSE UNCHANGED <<apprNative, apprTook>>
      /\ UNCHANGED <<apprReq, apprSeen, apprConn>>
      /\ UNCHANGED <<apprFollow, apprAsk, apprWinner, apprOffer, apprLate>>
      /\ UNCHANGED <<apprRoute, apprRows, apprOpen, apprLeft, apprBy, apprFaults>>
  BY DEF ApprAnswered, ApprTaken, apprClientVars, apprFanoutVars, apprRoomVars
<1>2. ApprTypeOK /\ ApprClientOK
  BY DEF ApprInv
<1>3. apprFaults' \in 0..MaxApprFaults /\ apprSeen' \in BOOLEAN /\ apprConn' \in Nat
      /\ apprNative' \in {"open", "ours", "gone"}
  BY <1>1, <1>2 DEF ApprTypeOK
<1>4. /\ apprNative' = "ours" => apprReq # "asking"
      /\ apprTook' # "none" => apprNative' = "ours"
      /\ apprReq # "none" => apprSeen'
  BY <1>1, <1>2 DEF ApprClientOK
<1> QED  BY <1>1, <1>3, <1>4, ApprCodexStep

LEMMA ApprElsewhereStep ==
  ASSUME ApprInv, ApprElsewhere
  PROVE  ApprStep
<1>1. /\ apprNative = "open" /\ apprNative' = "gone" /\ UNCHANGED <<apprTook, apprWire>>
      /\ UNCHANGED <<apprReq, apprSeen, apprConn>>
      /\ UNCHANGED <<apprFollow, apprAsk, apprWinner, apprOffer, apprLate>>
      /\ UNCHANGED <<apprRoute, apprRows, apprOpen, apprLeft, apprBy, apprFaults>>
  BY DEF ApprElsewhere, apprClientVars, apprFanoutVars, apprRoomVars
<1>2. ApprTypeOK /\ ApprClientOK
  BY DEF ApprInv
<1>3. apprFaults' \in 0..MaxApprFaults /\ apprSeen' \in BOOLEAN /\ apprConn' \in Nat
  BY <1>1, <1>2 DEF ApprTypeOK
<1>4. apprTook = "none" /\ (apprReq # "none" \/ apprWire # "none" => apprSeen)
  BY <1>1, <1>2 DEF ApprClientOK
<1> QED  BY <1>1, <1>3, <1>4, ApprCodexStep

\* The answer that was on its way arrived or not; there is none any more.
LEMMA ApprNewLineEffect ==
  ASSUME ApprInv, ApprNewLine
  PROVE  /\ apprConn' = apprConn + 1 /\ apprConn' \in Nat /\ apprSeen' = FALSE /\ apprWire' = "none"
         /\ apprNative' \in {"open", "ours", "gone"} /\ (apprNative # "open" => apprNative' # "open")
         /\ apprTook' \in {apprTook, apprWire} /\ (apprTook' # "none" => apprNative' = "ours")
         /\ apprNative' = "ours" => apprReq # "asking"
<1>1. ApprTypeOK /\ ApprClientOK
  BY DEF ApprInv
<1>2. apprConn' = apprConn + 1 /\ apprConn' \in Nat /\ apprSeen' = FALSE
  BY <1>1 DEF ApprNewLine, ApprTypeOK
<1>3. CASE ApprTaken
  BY <1>1, <1>2, <1>3 DEF ApprTaken, ApprTypeOK, ApprClientOK
<1>4. CASE apprWire' = "none" /\ UNCHANGED <<apprNative, apprTook>>
  BY <1>1, <1>2, <1>4 DEF ApprTypeOK, ApprClientOK
<1> QED  BY <1>3, <1>4 DEF ApprNewLine

LEMMA ApprLineLostStep ==
  ASSUME ApprInv, ApprLineLost
  PROVE  ApprStep
<1>1. /\ apprConn' = apprConn + 1 /\ apprConn' \in Nat /\ apprSeen' = FALSE /\ apprWire' = "none"
      /\ apprNative' \in {"open", "ours", "gone"} /\ (apprNative # "open" => apprNative' # "open")
      /\ apprTook' \in {apprTook, apprWire} /\ (apprTook' # "none" => apprNative' = "ours")
      /\ apprNative' = "ours" => apprReq # "asking"
  BY ApprNewLineEffect DEF ApprLineLost
<1>2. ApprTypeOK
  BY DEF ApprInv
<1>3. CASE apprReq = "none"
  <2>1. /\ ApprFault /\ UNCHANGED <<apprFollow, apprAsk, apprWinner, apprOffer, apprLate>>
        /\ UNCHANGED <<apprRoute, apprRows, apprOpen, apprLeft, apprBy, apprReq>>
    BY <1>3 DEF ApprLineLost, apprFanoutVars, apprRoomVars
  <2>2. apprFaults' \in 0..MaxApprFaults
    BY <1>2, <2>1, ApprFaultCounted
  <2> QED  BY <1>1, <1>3, <2>1, <2>2, ApprCodexStep
<1>4. CASE apprReq # "none"
  <2> DEFINE result == IF apprReq = "submitted" THEN "failed" ELSE "withdrawn"
  <2>1. ApprFinish(result, 1)
    BY <1>4 DEF ApprLineLost
  <2>2. result \in ApprResults /\ (result = "withdrawn" <=> apprReq = "asking") /\ result # "confirmed"
    BY <1>2, <1>4 DEF ApprTypeOK, ApprResults
  <2> HIDE DEF result
  <2> QED  BY <1>1, <1>4, <2>1, <2>2, ApprFinishStep
<1> QED  BY <1>3, <1>4

-----------------------------------------------------------------------------
(* The services.                                                           *)

\* A row as a new service finds it.
LEMMA ApprRowReloaded ==
  ASSUME NEW row \in ApprRow, ApprRowOK(row), NEW new \in ApprReloaded(row)
  PROVE  /\ new \in ApprRow /\ ApprRowOK(new) /\ new.room = row.room /\ new.key = row.key
         /\ new.phase = row.phase /\ new.choice = row.choice /\ new.known = row.known
<1> DEFINE del == IF row.delivery # "pending" THEN row.delivery
                  ELSE IF row.known /\ row.tries < MaxNotices THEN "retry" ELSE "unconfirmed"
<1>1. PICK shown \in {row.card, IF row.flight = "card" THEN "closed" ELSE row.card} :
        new = [row EXCEPT !.here = FALSE, !.stuck = FALSE, !.flight = "none", !.card = shown,
                          !.delivery = del]
  BY DEF ApprReloaded
<1>2. del \in {"ready", "delivered", "unconfirmed", "retry"} /\ (del = "delivered" => row.delivery = "delivered")
  BY DEF ApprRow
<1>3. shown \in {row.card, "closed"}
  OBVIOUS
<1> HIDE DEF del
<1> DEFINE a == [row EXCEPT !.here = FALSE]
           b == [a EXCEPT !.stuck = FALSE]
           c == [b EXCEPT !.flight = "none"]
           d == [c EXCEPT !.card = shown]
           e == [d EXCEPT !.delivery = del]
<1>4. new = e
  BY <1>1
<1>5. /\ a \in ApprRow /\ a.room = row.room /\ a.key = row.key /\ a.phase = row.phase /\ a.choice = row.choice
      /\ a.known = row.known /\ a.outcome = row.outcome
  BY DEF ApprRow
<1> HIDE DEF a
<1>6. /\ b \in ApprRow /\ b.room = row.room /\ b.key = row.key /\ b.phase = row.phase /\ b.choice = row.choice
      /\ b.known = row.known /\ b.outcome = row.outcome
  BY <1>5 DEF ApprRow
<1> HIDE DEF b
<1>7. /\ c \in ApprRow /\ c.room = row.room /\ c.key = row.key /\ c.phase = row.phase /\ c.choice = row.choice
      /\ c.known = row.known /\ c.outcome = row.outcome /\ c.flight = "none"
  BY <1>6 DEF ApprRow
<1> HIDE DEF c
<1>8. /\ d \in ApprRow /\ d.room = row.room /\ d.key = row.key /\ d.phase = row.phase /\ d.choice = row.choice
      /\ d.known = row.known /\ d.outcome = row.outcome /\ d.flight = "none" /\ d.card = shown
  BY <1>3, <1>7 DEF ApprRow
<1> HIDE DEF d
<1>9. /\ e \in ApprRow /\ e.room = row.room /\ e.key = row.key /\ e.phase = row.phase /\ e.choice = row.choice
      /\ e.known = row.known /\ e.outcome = row.outcome /\ e.flight = "none" /\ e.card = shown /\ e.delivery = del
  BY <1>2, <1>8 DEF ApprRow
<1> HIDE DEF e
<1>10. row.flight = "card" => row.known /\ row.phase # "none"
  BY DEF ApprRowOK
<1>11. shown = row.card \/ (row.flight = "card" /\ shown = "closed")
  BY <1>1
<1>12. ApprRowOK(e)
  BY <1>2, <1>9, <1>10, <1>11 DEF ApprRowOK
<1> QED  BY <1>4, <1>9, <1>12

LEMMA ApprServicesStopEffect ==
  ASSUME ApprInv, NEW stopped \in SUBSET Rooms, ApprServicesStop(stopped)
  PROVE  /\ apprRows' \in [ApprIds -> ApprRow]
         /\ \A r \in ApprIds : ApprIdle(r)
         /\ apprOpen' = {r \in apprOpen : apprRows[r].room \notin stopped}
         /\ apprRoute' = [x \in Rooms |-> IF x \in stopped THEN 0 ELSE apprRoute[x]]
         /\ apprLate' \in [Rooms -> [key : Nat, routed : BOOLEAN]]
         /\ \A x \in Rooms : IF x \in stopped THEN ~apprLate'[x].routed ELSE apprLate'[x] = apprLate[x]
<1> DEFINE mine == {r \in ApprIds : apprRows[r].room \in stopped}
<1>1. /\ \A r \in ApprIds : IF r \in mine THEN apprRows'[r] \in ApprReloaded(apprRows[r])
                             ELSE apprRows'[r] = apprRows[r]
      /\ \E S : apprRows' \in [ApprIds -> S]
      /\ apprOpen' = apprOpen \ mine
      /\ apprRoute' = [x \in Rooms |-> IF x \in stopped THEN 0 ELSE apprRoute[x]]
      /\ apprLate' = [x \in Rooms |-> IF x \in stopped THEN ApprNotLate ELSE apprLate[x]]
  BY DEF ApprServicesStop
<1>2. /\ apprRows \in [ApprIds -> ApprRow] /\ \A r \in ApprIds : ApprRowOK(apprRows[r])
      /\ apprOpen \subseteq ApprIds /\ apprLate \in [Rooms -> [key : Nat, routed : BOOLEAN]]
  BY DEF ApprInv, ApprTypeOK
<1>3. ASSUME NEW r \in ApprIds PROVE apprRows'[r] \in ApprRow /\ ApprIdle(r)
  <2>1. CASE r \in mine
    <3>1. apprRows'[r] \in ApprReloaded(apprRows[r])
      BY <1>1, <2>1
    <3> QED  BY <1>2, <3>1, ApprRowReloaded DEF ApprIdle, ApprKept
  <2>2. CASE r \notin mine
    <3>1. apprRows'[r] = apprRows[r]
      BY <1>1, <2>2
    <3> QED  BY <1>2, <3>1 DEF ApprIdle, ApprKept
  <2> QED  BY <2>1, <2>2
<1>4. apprRows' \in [ApprIds -> ApprRow]
  BY <1>1, <1>3
<1>5. ApprNotLate \in [key : Nat, routed : BOOLEAN] /\ ~ApprNotLate.routed
  BY DEF ApprNotLate
<1>6. /\ apprLate' \in [Rooms -> [key : Nat, routed : BOOLEAN]]
      /\ \A x \in Rooms : IF x \in stopped THEN ~apprLate'[x].routed ELSE apprLate'[x] = apprLate[x]
  BY <1>1, <1>2, <1>5
<1>7. apprOpen' = {r \in apprOpen : apprRows[r].room \notin stopped}
  BY <1>1, <1>2
<1> QED  BY <1>1, <1>3, <1>4, <1>6, <1>7

-----------------------------------------------------------------------------
(* The offers.                                                             *)

\* The offer to room x ends, and with the last one, or the last room, the request.
LEMMA ApprRoomStep ==
  ASSUME ApprInv, NEW x \in Rooms, NEW end \in {"none", "done"},
         UNCHANGED <<apprNative, apprTook, apprWire, apprConn, apprBy>>,
         apprFaults' \in 0..MaxApprFaults,
         apprRows' \in [ApprIds -> ApprRow], \A r \in ApprIds : ApprKept(r),
         \A r \in ApprIds : r \notin apprOpen => apprRows'[r].choice = apprRows[r].choice,
         \A r \in ApprIds : apprRows'[r].phase = "confirmed" => apprRows[r].phase = "confirmed",
         apprOpen' \subseteq apprOpen, \A r \in apprOpen' : apprRows'[r].phase = apprRows[r].phase,
         apprLeft' \subseteq ApprIds,
         apprRoute' \in [Rooms -> 0..MaxApprRows], apprRoute'[x] \in {0, apprRoute[x]},
         \A y \in Rooms : y # x => apprRoute'[y] = apprRoute[y] /\ apprLate'[y] = apprLate[y],
         apprLate' \in [Rooms -> [key : Nat, routed : BOOLEAN]],
         apprFollow' \in {apprFollow, apprFollow \ {x}}, x \notin apprFollow' => end = "none",
         end = "done" => x \in apprFollow,
         apprOffer' = [apprOffer EXCEPT ![x] = end],
         apprWinner' \in {apprWinner, NoRoom},
         apprWinner' = x => /\ x \in apprFollow'
                            /\ \/ apprRoute'[x] = 0 /\ ~apprLate'[x].routed
                               \/ apprRoute'[x] = apprRoute[x] /\ apprLate'[x] = apprLate[x],
         \A r \in apprOpen' \ apprLeft' :
           /\ r \notin apprLeft
           /\ apprRows[r].room = x => apprAsk # "open" /\ apprRoute'[x] = apprRoute[x] /\ x \in apprFollow',
         \/ UNCHANGED <<apprAsk, apprReq, apprSeen>>
         \/ /\ apprAsk' = "none" /\ apprReq' = "none" /\ apprSeen' \in BOOLEAN
            /\ apprWire # "none" => apprSeen'
            /\ \A y \in Rooms : apprOffer'[y] \notin {"calling", "asking"}
            /\ apprOpen' \ apprLeft' = {} /\ apprWinner' = NoRoom
  PROVE  ApprStep
<1>1. ApprTypeOK /\ ApprClientOK /\ ApprOffersOK /\ ApprCardsOK /\ ApprCardsCurrent /\ ApprConfirmedOK
  BY DEF ApprInv
<1>2. /\ apprOpen \subseteq ApprIds /\ apprBy \in 0..MaxApprRows /\ (apprBy # 0 => apprBy \in ApprIds)
      /\ apprOffer' \in [Rooms -> {"none", "calling", "asking", "done"}]
      /\ apprOffer'[x] = end /\ \A y \in Rooms : y # x => apprOffer'[y] = apprOffer[y]
      /\ apprAsk' \in {apprAsk, "none"} /\ apprFollow' \subseteq Rooms
  BY <1>1, ApprAssumption DEF ApprTypeOK, ApprIds
<1>3. ApprTypeOK'
  <2>1. apprOpen' \subseteq ApprIds /\ apprWinner' \in Rooms \cup {NoRoom}
    BY <1>1, <1>2 DEF ApprTypeOK
  <2>2. apprReq' \in {"none", "asking", "submitted"} /\ apprSeen' \in BOOLEAN
        /\ apprAsk' \in {"none", "open"} \cup ApprAnswers
    BY <1>1 DEF ApprTypeOK
  <2> QED  BY <1>1, <1>2, <2>1, <2>2 DEF ApprTypeOK
<1>4. ApprClientOK'
  <2>1. apprBy # 0 => /\ apprBy \notin apprOpen' /\ apprRows'[apprBy].phase # "none"
                      /\ apprRows'[apprBy].choice = apprRows[apprBy].choice
    BY <1>1, <1>2 DEF ApprClientOK, ApprKept
  <2>2. CASE UNCHANGED <<apprAsk, apprReq, apprSeen>>
    BY <1>1, <2>1, <2>2 DEF ApprClientOK, ApprChosen
  <2>3. CASE apprAsk' = "none" /\ apprReq' = "none" /\ (apprWire # "none" => apprSeen')
    BY <1>1, <2>1, <2>3 DEF ApprClientOK, ApprChosen
  <2> QED  BY <2>2, <2>3
<1>5. ApprOffersOK'
  <2>1. ASSUME NEW y \in Rooms, apprRoute'[y] # 0
        PROVE  apprRows'[apprRoute'[y]].room = y /\ apprRows'[apprRoute'[y]].phase # "none"
    <3>1. apprRoute'[y] = apprRoute[y]
      BY <2>1
    <3> QED  BY <2>1, <3>1, ApprRouted DEF ApprKept
  <2>2. \A y \in Rooms : apprOffer'[y] # "none" => y \in apprFollow'
    BY <1>1, <1>2 DEF ApprOffersOK
  <2>3. \A y \in Rooms : apprOffer'[y] \in {"calling", "asking"} => apprReq' # "none" /\ apprAsk' # "none"
    BY <1>1, <1>2 DEF ApprOffersOK
  <2>4. ASSUME apprWinner' # NoRoom
        PROVE  /\ apprWinner' \in apprFollow' /\ apprAsk' \in ApprAnswers
               /\ apprOffer'[apprWinner'] \notin {"calling", "asking"}
               /\ IF apprRoute'[apprWinner'] = 0 THEN ~apprLate'[apprWinner'].routed
                  ELSE apprRoute'[apprWinner'] = apprBy
    <3>1. /\ apprWinner' = apprWinner /\ apprAsk' = apprAsk /\ apprWinner \in Rooms
          /\ apprWinner \in apprFollow /\ apprAsk \in ApprAnswers
          /\ apprOffer[apprWinner] \notin {"calling", "asking"}
          /\ IF apprRoute[apprWinner] = 0 THEN ~apprLate[apprWinner].routed
             ELSE apprRoute[apprWinner] = apprBy
      BY <1>1, <2>4 DEF ApprOffersOK, ApprTypeOK
    <3> QED  BY <1>2, <3>1
  <2> QED  BY <2>1, <2>2, <2>3, <2>4 DEF ApprOffersOK
<1>6. ASSUME NEW r \in apprOpen'
      PROVE  /\ r \in apprOpen /\ r \in ApprIds /\ apprRows'[r].phase = "pending"
             /\ apprRows'[r].room = apprRows[r].room /\ apprRows'[r].key = apprRows[r].key
             /\ apprRows[r].room \in Rooms
  <2>1. r \in apprOpen /\ r \in ApprIds /\ apprRows[r].phase = "pending" /\ apprRows'[r].phase = "pending"
    BY <1>1, <1>2, <1>6 DEF ApprCardsOK
  <2>2. ApprRowOK(apprRows[r])
    BY <2>1 DEF ApprInv
  <2> QED  BY <2>1, <2>2 DEF ApprKept, ApprRowOK
<1>7. ApprCardsOK' /\ ApprCardsCurrent'
  <2>1. CASE UNCHANGED <<apprAsk, apprReq, apprSeen>>
    <3>1. ASSUME NEW r \in apprOpen', r \notin apprLeft'
          PROVE  /\ apprRows'[r].key = apprConn
                 /\ apprAsk = "open" => apprOffer'[apprRows'[r].room] = "asking"
                 /\ apprRoute'[apprRows'[r].room] = r /\ apprRows'[r].room \in apprFollow'
                 /\ apprReq # "none" /\ apprAsk # "none"
      BY <1>1, <1>2, <1>6, <3>1 DEF ApprCardsOK, ApprCardsCurrent
    <3> QED  BY <1>1, <1>6, <2>1, <3>1 DEF ApprCardsOK, ApprCardsCurrent
  <2>2. CASE apprOpen' \ apprLeft' = {}
    BY <1>1, <1>6, <2>2 DEF ApprCardsOK, ApprCardsCurrent
  <2> QED  BY <2>1, <2>2
<1>8. ApprConfirmedOK'
  BY <1>1, <1>2 DEF ApprConfirmedOK
<1>9. ApprFinal /\ \A r \in ApprIds : ApprRowOK(apprRows'[r])
  BY ApprKeepsFinal DEF ApprKept
<1> QED  BY <1>3, <1>4, <1>5, <1>7, <1>8, <1>9 DEF ApprInv, ApprStep

\* Nobody is left who might answer, or nothing is retired.
LEMMA ApprRetireEffect ==
  ASSUME ApprInv, NEW offers \in [Rooms -> {"none", "calling", "asking", "done"}], ApprRetire(offers)
  PROVE  \/ UNCHANGED <<apprAsk, apprReq, apprSeen>>
         \/ /\ apprAsk = "open" /\ apprAsk' = "none" /\ apprReq' = "none" /\ apprSeen' = FALSE
            /\ apprWire = "none" /\ apprWinner = NoRoom
            /\ \A y \in Rooms : offers[y] \notin {"calling", "asking"}
<1>1. CASE apprAsk = "open" /\ \A y \in Rooms : offers[y] \notin {"calling", "asking"}
  <2>1. apprAsk' = "none" /\ apprReq' = "none" /\ apprSeen' = FALSE
    BY <1>1 DEF ApprRetire
  <2>2. apprWire = "none" /\ apprWinner = NoRoom
    BY <1>1 DEF ApprInv, ApprClientOK, ApprOffersOK, ApprAnswers
  <2> QED  BY <1>1, <2>1, <2>2
<1>2. CASE ~(apprAsk = "open" /\ \A y \in Rooms : offers[y] \notin {"calling", "asking"})
  BY <1>2 DEF ApprRetire
<1> QED  BY <1>1, <1>2

LEMMA ApprRoomRestartsStep ==
  ASSUME ApprInv, NEW x \in Rooms, ApprRoomRestarts(x)
  PROVE  ApprStep
<1> DEFINE end == IF apprOffer[x] = "none" THEN "none" ELSE "done"
<1>1. /\ ApprFault /\ ApprServicesStop({x}) /\ apprOffer' = [apprOffer EXCEPT ![x] = end]
      /\ ApprRetire(apprOffer')
      /\ UNCHANGED <<apprNative, apprTook, apprWire, apprConn, apprBy>>
      /\ UNCHANGED <<apprFollow, apprWinner, apprLeft>>
  BY DEF ApprRoomRestarts, apprCodexVars
<1>2. ApprTypeOK /\ ApprOffersOK /\ ApprCardsOK
  BY DEF ApprInv
<1>3. /\ end \in {"none", "done"} /\ (end = "done" => x \in apprFollow)
      /\ (x \notin apprFollow => end = "none")
  BY <1>2 DEF ApprOffersOK
<1> HIDE DEF end
<1>4. apprOffer' \in [Rooms -> {"none", "calling", "asking", "done"}]
      /\ apprFaults' \in 0..MaxApprFaults /\ apprLeft' \subseteq ApprIds
      /\ \A y \in Rooms : y # x => apprOffer'[y] = apprOffer[y]
  BY <1>1, <1>2, <1>3, ApprFaultCounted DEF ApprTypeOK
<1>5. /\ apprRows' \in [ApprIds -> ApprRow]
      /\ \A r \in ApprIds : ApprIdle(r)
      /\ apprOpen' = {r \in apprOpen : apprRows[r].room # x}
      /\ apprRoute' = [y \in Rooms |-> IF y = x THEN 0 ELSE apprRoute[y]]
      /\ apprLate' \in [Rooms -> [key : Nat, routed : BOOLEAN]]
      /\ \A y \in Rooms : IF y = x THEN ~apprLate'[y].routed ELSE apprLate'[y] = apprLate[y]
  BY <1>1, ApprServicesStopEffect
<1>6. apprRoute' \in [Rooms -> 0..MaxApprRows] /\ apprRoute'[x] = 0
      /\ \A y \in Rooms : y # x => apprRoute'[y] = apprRoute[y] /\ apprLate'[y] = apprLate[y]
  BY <1>2, <1>5, ApprAssumption DEF ApprTypeOK
<1>7. apprOpen' \subseteq apprOpen /\ apprOpen \subseteq ApprIds
      /\ \A r \in apprOpen' : apprRows'[r].phase = apprRows[r].phase /\ apprRows[r].room # x
  BY <1>2, <1>5 DEF ApprIdle, ApprTypeOK
<1>8. \/ UNCHANGED <<apprAsk, apprReq, apprSeen>>
      \/ /\ apprAsk = "open" /\ apprAsk' = "none" /\ apprReq' = "none" /\ apprSeen' = FALSE
         /\ apprWire = "none" /\ apprWinner = NoRoom
         /\ \A y \in Rooms : apprOffer'[y] \notin {"calling", "asking"}
  BY <1>1, <1>4, ApprRetireEffect
<1>9. \/ UNCHANGED <<apprAsk, apprReq, apprSeen>>
      \/ /\ apprAsk' = "none" /\ apprReq' = "none" /\ apprSeen' \in BOOLEAN
         /\ apprWire # "none" => apprSeen'
         /\ \A y \in Rooms : apprOffer'[y] \notin {"calling", "asking"}
         /\ apprOpen' \ apprLeft' = {} /\ apprWinner' = NoRoom
  <2>1. ASSUME apprAsk = "open", \A y \in Rooms : apprOffer'[y] \notin {"calling", "asking"},
               NEW r \in apprOpen' \ apprLeft'
        PROVE  FALSE
    <3>1. r \in apprOpen \ apprLeft /\ apprRows[r].room # x /\ apprRows[r].phase = "pending"
      BY <1>1, <1>2, <1>7 DEF ApprCardsOK
    <3>2. apprRows[r].room \in Rooms
      BY <1>7, <3>1 DEF ApprInv, ApprRowOK
    <3> QED  BY <1>2, <1>4, <2>1, <3>1, <3>2 DEF ApprCardsOK
  <2> QED  BY <1>1, <1>8, <2>1
<1>10. \A r \in ApprIds : /\ ApprKept(r) /\ apprRows'[r].choice = apprRows[r].choice
                          /\ apprRows'[r].phase = apprRows[r].phase
  BY <1>5 DEF ApprIdle
<1>11. ~apprLate'[x].routed
  BY <1>5
<1>12. apprWinner' = x => x \in apprFollow
  BY <1>1, <1>2, ApprAssumption DEF ApprOffersOK
<1> QED  BY <1>1, <1>3, <1>4, <1>5, <1>6, <1>7, <1>9, <1>10, <1>11, <1>12, ApprRoomStep

LEMMA ApprCrashStep ==
  ASSUME ApprInv, ApprCrash
  PROVE  ApprStep
<1>1. /\ ApprFault /\ ApprNewLine /\ ApprServicesStop(Rooms)
      /\ apprReq' = "none" /\ apprAsk' = "none" /\ apprWinner' = NoRoom
      /\ apprOffer' = [x \in Rooms |-> "none"]
      /\ apprFollow' = apprFollow /\ apprLeft' = apprLeft /\ apprBy' = apprBy
  BY DEF ApprCrash
<1>2. ApprTypeOK /\ ApprClientOK /\ ApprCardsOK /\ ApprConfirmedOK
  BY DEF ApprInv
<1>3. /\ apprConn' \in Nat /\ apprSeen' = FALSE /\ apprWire' = "none"
      /\ apprNative' \in {"open", "ours", "gone"} /\ (apprNative # "open" => apprNative' # "open")
      /\ apprTook' \in {apprTook, apprWire} /\ (apprTook' # "none" => apprNative' = "ours")
  BY <1>1, ApprNewLineEffect
<1>4. /\ apprRows' \in [ApprIds -> ApprRow]
      /\ \A r \in ApprIds : ApprIdle(r)
      /\ apprOpen' = {r \in apprOpen : apprRows[r].room \notin Rooms}
      /\ apprRoute' = [x \in Rooms |-> 0]
      /\ apprLate' \in [Rooms -> [key : Nat, routed : BOOLEAN]]
  BY <1>1, ApprServicesStopEffect
<1>5. apprOpen' = {}
  BY <1>2, <1>4 DEF ApprInv, ApprTypeOK, ApprCardsOK, ApprRowOK
<1>6. apprFaults' \in 0..MaxApprFaults /\ (apprBy # 0 => apprBy \in ApprIds)
  BY <1>1, <1>2, ApprFaultCounted, ApprAssumption DEF ApprTypeOK, ApprIds
<1>7. \A r \in ApprIds : /\ apprRows'[r].choice = apprRows[r].choice /\ apprRows'[r].phase = apprRows[r].phase
                         /\ ApprKept(r) /\ ApprRowOK(apprRows'[r])
  BY <1>4 DEF ApprIdle, ApprKept
<1>8. ApprTypeOK'
  <2>1. apprRoute' \in [Rooms -> 0..MaxApprRows]
    BY <1>4, ApprAssumption
  <2>2. apprOffer' \in [Rooms -> {"none", "calling", "asking", "done"}]
    BY <1>1
  <2>3. {apprTook', apprWire'} \subseteq ApprAnswers \cup {"none"}
    BY <1>2, <1>3 DEF ApprTypeOK
  <2>4. apprReq' \in {"none", "asking", "submitted"} /\ apprSeen' \in BOOLEAN
        /\ apprAsk' \in {"none", "open"} \cup ApprAnswers /\ apprWinner' \in Rooms \cup {NoRoom}
    BY <1>1, <1>3
  <2>5. /\ apprFollow' \subseteq Rooms /\ apprOpen' \subseteq ApprIds /\ apprLeft' \subseteq ApprIds
        /\ apprBy' \in 0..MaxApprRows
    BY <1>1, <1>2, <1>5 DEF ApprTypeOK
  <2> QED  BY <1>3, <1>4, <1>6, <2>1, <2>2, <2>3, <2>4, <2>5 DEF ApprTypeOK
<1>9. ApprClientOK'
  BY <1>1, <1>2, <1>3, <1>5, <1>6, <1>7 DEF ApprClientOK, ApprChosen, ApprAnswers
<1>10. ApprOffersOK' /\ ApprCardsOK' /\ ApprCardsCurrent'
  BY <1>1, <1>4, <1>5 DEF ApprOffersOK, ApprCardsOK, ApprCardsCurrent
<1>11. ApprConfirmedOK'
  BY <1>1, <1>2, <1>3, <1>7 DEF ApprConfirmedOK
<1> QED  BY <1>7, <1>8, <1>9, <1>10, <1>11, ApprKeepsFinal DEF ApprInv, ApprStep

LEMMA ApprJoinsStep ==
  ASSUME ApprInv, NEW x \in Rooms, ApprJoins(x)
  PROVE  ApprStep
<1> DEFINE offer == IF apprAsk = "open" THEN "calling" ELSE apprOffer[x]
<1>1. /\ x \notin apprFollow /\ apprFollow' = apprFollow \cup {x}
      /\ apprOffer' = [apprOffer EXCEPT ![x] = offer]
      /\ UNCHANGED <<apprNative, apprTook, apprWire, apprReq, apprSeen, apprConn>>
      /\ UNCHANGED <<apprAsk, apprWinner, apprLate, apprRoute, apprRows, apprOpen, apprLeft>>
      /\ UNCHANGED <<apprBy, apprFaults>>
  BY DEF ApprJoins, apprCodexVars, apprClientVars, apprRoomVars
<1>2. ApprTypeOK /\ ApprClientOK /\ ApprOffersOK /\ ApprCardsOK /\ ApprCardsCurrent /\ ApprConfirmedOK
  BY DEF ApprInv
<1>3. offer \in {"none", "calling", "asking", "done"} /\ (offer = "calling" <=> apprAsk = "open") /\ offer # "asking"
  BY <1>1, <1>2 DEF ApprTypeOK, ApprOffersOK
<1> HIDE DEF offer
<1>4. /\ apprOffer' \in [Rooms -> {"none", "calling", "asking", "done"}]
      /\ apprOffer'[x] = offer /\ \A y \in Rooms : y # x => apprOffer'[y] = apprOffer[y]
  BY <1>1, <1>2, <1>3 DEF ApprTypeOK
<1>5. ApprTypeOK'
  BY <1>1, <1>2, <1>4 DEF ApprTypeOK
<1>6. ApprClientOK'
  BY <1>1, <1>2 DEF ApprClientOK, ApprChosen
<1>7. ApprOffersOK'
  BY <1>1, <1>2, <1>3, <1>4 DEF ApprOffersOK, ApprClientOK, ApprTypeOK, ApprAnswers
<1>8. ApprCardsOK' /\ ApprCardsCurrent'
  <2>1. \A r \in apprOpen \ apprLeft : apprRows[r].room \in apprFollow /\ apprRows[r].room \in Rooms
    BY <1>2 DEF ApprTypeOK, ApprCardsCurrent
  <2> QED  BY <1>1, <1>2, <1>4, <2>1 DEF ApprCardsOK, ApprCardsCurrent
<1>9. ApprConfirmedOK'
  BY <1>1, <1>2 DEF ApprConfirmedOK
<1>10. ApprFinal /\ \A r \in ApprIds : ApprRowOK(apprRows'[r])
  BY <1>1, ApprRowsUnchanged, ApprKeepsFinal DEF ApprIdle, ApprKept
<1> QED  BY <1>5, <1>6, <1>7, <1>8, <1>9, <1>10 DEF ApprInv, ApprStep

LEMMA ApprAskedStep ==
  ASSUME ApprInv, ApprAsked
  PROVE  ApprStep
<1>1. /\ apprNative = "open" /\ apprReq = "none" /\ ~apprSeen /\ apprSeen' = TRUE
      /\ apprRoute' = [x \in Rooms |-> 0]
      /\ apprLate' = [x \in Rooms |-> [apprLate[x] EXCEPT !.routed = FALSE]]
      /\ UNCHANGED <<apprNative, apprTook, apprConn, apprFollow, apprRows, apprOpen,
                     apprLeft, apprBy, apprFaults>>
  BY DEF ApprAsked
<1>2. \/ /\ apprAsk = "none"
         /\ apprReq' = "asking" /\ apprAsk' = "open" /\ apprWinner' = NoRoom
         /\ apprOffer' = [x \in Rooms |-> IF x \in apprFollow THEN "calling" ELSE "none"]
         /\ apprWire' = apprWire
      \/ /\ apprAsk \in ApprAnswers
         /\ apprReq' = "submitted" /\ apprWire' = apprAsk
         /\ UNCHANGED <<apprAsk, apprWinner, apprOffer>>
  BY DEF ApprAsked
<1>3. ApprTypeOK /\ ApprClientOK /\ ApprOffersOK /\ ApprCardsOK /\ ApprCardsCurrent /\ ApprConfirmedOK
  BY DEF ApprInv
<1>4. apprWire = "none" /\ apprTook = "none" /\ apprOpen \ apprLeft = {}
  BY <1>1, <1>3 DEF ApprClientOK, ApprCardsCurrent
<1>5. /\ apprLate' \in [Rooms -> [key : Nat, routed : BOOLEAN]]
      /\ \A x \in Rooms : ~apprLate'[x].routed
  <2>1. \A x \in Rooms : apprLate[x] \in [key : Nat, routed : BOOLEAN]
    BY <1>3 DEF ApprTypeOK
  <2>2. ASSUME NEW x \in Rooms
        PROVE  [apprLate[x] EXCEPT !.routed = FALSE] \in [key : Nat, routed : BOOLEAN]
               /\ ~([apprLate[x] EXCEPT !.routed = FALSE]).routed
    BY <2>1
  <2> QED  BY <1>1, <2>2
<1>6. apprRoute' \in [Rooms -> 0..MaxApprRows] /\ \A x \in Rooms : apprRoute'[x] = 0
  BY <1>1, ApprAssumption
<1>7. /\ apprOffer' \in [Rooms -> {"none", "calling", "asking", "done"}]
      /\ \A x \in Rooms : apprOffer'[x] # "none" => x \in apprFollow
      /\ apprWinner' # NoRoom => apprWinner' = apprWinner /\ apprAsk' = apprAsk /\ apprOffer' = apprOffer
  BY <1>2, <1>3 DEF ApprTypeOK, ApprOffersOK
<1>8. apprReq' # "none" /\ apprAsk' # "none" /\ apprAsk' \in {"open"} \cup ApprAnswers
      /\ (apprReq' = "asking" <=> apprAsk' = "open")
      /\ (apprReq' = "submitted" => apprAsk' \in ApprAnswers) /\ apprReq' \in {"asking", "submitted"}
  BY <1>2 DEF ApprAnswers
<1>9. ApprTypeOK'
  <2>1. {apprTook', apprWire'} \subseteq ApprAnswers \cup {"none"} /\ apprWinner' \in Rooms \cup {NoRoom}
    BY <1>1, <1>2, <1>3 DEF ApprTypeOK
  <2> QED  BY <1>1, <1>3, <1>5, <1>6, <1>7, <1>8, <2>1 DEF ApprTypeOK
<1>10. ApprClientOK'
  BY <1>1, <1>2, <1>3, <1>4, <1>8 DEF ApprClientOK, ApprChosen, ApprAnswers
<1>11. ApprOffersOK'
  <2>1. ASSUME apprWinner' # NoRoom
        PROVE  /\ apprWinner' \in apprFollow /\ apprAsk' \in ApprAnswers /\ apprWinner' \in Rooms
               /\ apprOffer'[apprWinner'] \notin {"calling", "asking"}
    BY <1>3, <1>7, <2>1 DEF ApprOffersOK, ApprTypeOK
  <2> QED  BY <1>1, <1>5, <1>6, <1>7, <1>8, <2>1 DEF ApprOffersOK
<1>12. ApprCardsOK' /\ ApprCardsCurrent'
  BY <1>1, <1>3, <1>4 DEF ApprCardsOK, ApprCardsCurrent
<1>13. ApprConfirmedOK'
  BY <1>1, <1>3 DEF ApprConfirmedOK
<1>14. ApprFinal /\ \A r \in ApprIds : ApprRowOK(apprRows'[r])
  BY <1>1, ApprRowsUnchanged, ApprKeepsFinal DEF ApprIdle, ApprKept
<1> QED  BY <1>9, <1>10, <1>11, <1>12, <1>13, <1>14 DEF ApprInv, ApprStep

-----------------------------------------------------------------------------
(* The cards.                                                              *)

\* A room is shown a new card, or has one for the same request already.
LEMMA ApprMakesEffect ==
  ASSUME ApprInv, NEW x \in Rooms, NEW key \in Nat, NEW r \in ApprIds, ApprMakes(x, key, r)
  PROVE  /\ apprRows' \in [ApprIds -> ApprRow]
         /\ \A s \in ApprIds : ApprKept(s) /\ (s # r => apprRows'[s] = apprRows[s])
         /\ \A s \in ApprIds : apprRows[s].phase # "none" => apprRows'[s].choice = apprRows[s].choice
         /\ apprRows'[r].room = x /\ apprRows'[r].key = key /\ apprRows'[r].phase = "pending"
         /\ apprOpen' = apprOpen \cup {r}
         /\ \A s \in apprOpen : s # r => apprRows[s].room # x \/ apprRows[s].key # key
         /\ (r \in apprOpen /\ apprRows' = apprRows) \/ (r \notin apprOpen /\ apprRows[r].phase = "none")
<1>1. /\ apprRows \in [ApprIds -> ApprRow] /\ apprOpen \subseteq ApprIds /\ ApprCardsOK
      /\ \A s \in ApprIds : ApprRowOK(apprRows[s])
  BY DEF ApprInv, ApprTypeOK
<1>2. CASE r \in apprOpen /\ apprRows[r].room = x /\ apprRows[r].key = key /\ UNCHANGED <<apprRows, apprOpen>>
  <2>1. apprRows[r].phase = "pending" /\ \A s \in apprOpen : s # r => apprRows[s].room # x \/ apprRows[s].key # key
    BY <1>1, <1>2 DEF ApprCardsOK
  <2> QED  BY <1>1, <1>2, <2>1 DEF ApprKept
<1>3. CASE /\ \A s \in apprOpen : apprRows[s].room # x \/ apprRows[s].key # key
           /\ apprRows[r].phase = "none"
           /\ apprRows' = [apprRows EXCEPT ![r] = [NoApprRow EXCEPT !.room = x, !.key = key,
                             !.phase = "pending", !.here = TRUE, !.card = "sending"]]
           /\ apprOpen' = apprOpen \cup {r}
  <2> DEFINE a == [NoApprRow EXCEPT !.room = x]
             b == [a EXCEPT !.key = key]
             c == [b EXCEPT !.phase = "pending"]
             d == [c EXCEPT !.here = TRUE]
             e == [d EXCEPT !.card = "sending"]
  <2>1. apprRows' = [apprRows EXCEPT ![r] = e]
    BY <1>3
  <2>2. /\ NoApprRow \in ApprRow /\ NoApprRow.outcome = "none" /\ NoApprRow.flight = "none"
        /\ ~NoApprRow.known /\ NoApprRow.delivery = "ready"
    BY ApprAssumption DEF NoApprRow, ApprRow
  <2>3. /\ a \in ApprRow /\ a.room = x
        /\ a.outcome = "none" /\ a.flight = "none" /\ ~a.known /\ a.delivery = "ready"
    BY <2>2 DEF ApprRow
  <2> HIDE DEF a
  <2>4. /\ b \in ApprRow /\ b.room = x /\ b.key = key
        /\ b.outcome = "none" /\ b.flight = "none" /\ ~b.known /\ b.delivery = "ready"
    BY <2>3 DEF ApprRow
  <2> HIDE DEF b
  <2>5. /\ c \in ApprRow /\ c.room = x /\ c.key = key /\ c.phase = "pending"
        /\ c.outcome = "none" /\ c.flight = "none" /\ ~c.known /\ c.delivery = "ready"
    BY <2>4 DEF ApprRow
  <2> HIDE DEF c
  <2>6. /\ d \in ApprRow /\ d.room = x /\ d.key = key /\ d.phase = "pending"
        /\ d.outcome = "none" /\ d.flight = "none" /\ ~d.known /\ d.delivery = "ready"
    BY <2>5 DEF ApprRow
  <2> HIDE DEF d
  <2>7. /\ e \in ApprRow /\ e.room = x /\ e.key = key /\ e.phase = "pending"
        /\ e.outcome = "none" /\ e.flight = "none" /\ ~e.known /\ e.delivery = "ready"
    BY <2>6 DEF ApprRow
  <2> HIDE DEF e
  <2>8. ApprRowOK(e)
    BY <2>7 DEF ApprRowOK
  <2>9. apprRows' \in [ApprIds -> ApprRow] /\ apprRows'[r] = e
        /\ \A s \in ApprIds : s # r => apprRows'[s] = apprRows[s]
    BY <1>1, <2>1, <2>7
  <2>10. ~apprRows[r].known
    BY <1>1, <1>3 DEF ApprRowOK
  <2>11. ApprKept(r)
    BY <1>3, <2>7, <2>8, <2>9, <2>10 DEF ApprKept
  <2>12. \A s \in ApprIds : s # r => ApprKept(s)
    BY <1>1, <2>9 DEF ApprKept
  <2>13. r \notin apprOpen
    BY <1>1, <1>3 DEF ApprCardsOK
  <2> QED  BY <1>3, <2>7, <2>9, <2>11, <2>12, <2>13
<1>4. \/ r \in apprOpen /\ apprRows[r].room = x /\ apprRows[r].key = key /\ UNCHANGED <<apprRows, apprOpen>>
      \/ /\ \A s \in apprOpen : apprRows[s].room # x \/ apprRows[s].key # key
         /\ apprRows[r].phase = "none"
         /\ apprRows' = [apprRows EXCEPT ![r] = [NoApprRow EXCEPT !.room = x, !.key = key,
                           !.phase = "pending", !.here = TRUE, !.card = "sending"]]
         /\ apprOpen' = apprOpen \cup {r}
  BY DEF ApprMakes
<1> QED  BY <1>2, <1>3, <1>4

\* A room that is offered the request has its card.
LEMMA ApprCalledMadeStep ==
  ASSUME ApprInv, NEW x \in Rooms, NEW r \in ApprIds, apprOffer[x] = "calling",
         ApprMakes(x, apprConn, r),
         apprRoute' = [apprRoute EXCEPT ![x] = r], apprLeft' = apprLeft \ {r},
         apprOffer' = [apprOffer EXCEPT ![x] = "asking"],
         UNCHANGED <<apprNative, apprTook, apprWire, apprReq, apprSeen, apprConn>>,
         UNCHANGED <<apprFollow, apprAsk, apprWinner, apprLate, apprBy, apprFaults>>
  PROVE  ApprStep
<1>1. ApprTypeOK /\ ApprClientOK /\ ApprOffersOK /\ ApprCardsOK /\ ApprCardsCurrent /\ ApprConfirmedOK
  BY DEF ApprInv
<1>2. /\ apprRows' \in [ApprIds -> ApprRow]
      /\ \A s \in ApprIds : ApprKept(s) /\ (s # r => apprRows'[s] = apprRows[s])
      /\ \A s \in ApprIds : apprRows[s].phase # "none" => apprRows'[s].choice = apprRows[s].choice
      /\ apprRows'[r].room = x /\ apprRows'[r].key = apprConn /\ apprRows'[r].phase = "pending"
      /\ apprOpen' = apprOpen \cup {r}
      /\ \A s \in apprOpen : s # r => apprRows[s].room # x \/ apprRows[s].key # apprConn
      /\ (r \in apprOpen /\ apprRows' = apprRows) \/ (r \notin apprOpen /\ apprRows[r].phase = "none")
  BY <1>1, ApprMakesEffect DEF ApprTypeOK
<1>3. /\ apprOpen \subseteq ApprIds /\ apprBy \in 0..MaxApprRows /\ (apprBy # 0 => apprBy \in ApprIds)
      /\ 0 \notin ApprIds /\ r \in 0..MaxApprRows
  BY <1>1, ApprAssumption DEF ApprTypeOK, ApprIds
<1>4. /\ apprOffer' \in [Rooms -> {"none", "calling", "asking", "done"}]
      /\ apprOffer'[x] = "asking" /\ \A y \in Rooms : y # x => apprOffer'[y] = apprOffer[y]
      /\ apprRoute' \in [Rooms -> 0..MaxApprRows]
      /\ apprRoute'[x] = r /\ \A y \in Rooms : y # x => apprRoute'[y] = apprRoute[y]
  BY <1>1, <1>3 DEF ApprTypeOK
<1>5. x \in apprFollow /\ apprReq # "none" /\ apprAsk # "none" /\ apprWinner # x
  BY <1>1, ApprAssumption DEF ApprOffersOK
<1>6. ApprTypeOK'
  <2>1. apprOpen' \subseteq ApprIds /\ apprLeft' \subseteq ApprIds
    BY <1>1, <1>2 DEF ApprTypeOK
  <2> QED  BY <1>1, <1>2, <1>4, <2>1 DEF ApprTypeOK
<1>7. ApprClientOK'
  <2>1. apprBy # 0 => /\ apprBy \notin apprOpen' /\ apprRows'[apprBy].phase # "none"
                      /\ apprRows'[apprBy].choice = apprRows[apprBy].choice
    BY <1>1, <1>2, <1>3 DEF ApprClientOK, ApprKept
  <2> QED  BY <1>1, <2>1 DEF ApprClientOK, ApprChosen
<1>8. ApprOffersOK'
  <2>1. ASSUME NEW y \in Rooms, apprRoute'[y] # 0
        PROVE  apprRows'[apprRoute'[y]].room = y /\ apprRows'[apprRoute'[y]].phase # "none"
    <3>1. CASE y = x
      BY <1>2, <1>4, <3>1
    <3>2. CASE y # x
      BY <1>2, <1>4, <2>1, <3>2, ApprRouted DEF ApprKept
    <3> QED  BY <3>1, <3>2
  <2>2. \A y \in Rooms : apprOffer'[y] # "none" => y \in apprFollow'
    BY <1>1, <1>4, <1>5 DEF ApprOffersOK
  <2>3. \A y \in Rooms : apprOffer'[y] \in {"calling", "asking"} => apprReq' # "none" /\ apprAsk' # "none"
    BY <1>5
  <2>4. ASSUME apprWinner # NoRoom
        PROVE  /\ apprOffer'[apprWinner] = apprOffer[apprWinner]
               /\ apprRoute'[apprWinner] = apprRoute[apprWinner]
    BY <1>1, <1>4, <1>5, <2>4 DEF ApprTypeOK
  <2> QED  BY <1>1, <2>1, <2>2, <2>3, <2>4 DEF ApprOffersOK
<1>9. ASSUME NEW s \in apprOpen'
      PROVE  /\ apprRows'[s].phase = "pending" /\ s \in ApprIds
             /\ s # r => s \in apprOpen /\ apprRows'[s] = apprRows[s]
  BY <1>1, <1>2, <1>3, <1>9 DEF ApprCardsOK
<1>10. ASSUME NEW s \in apprOpen', s \notin apprLeft'
       PROVE  /\ apprRows'[s].key = apprConn
              /\ apprAsk = "open" => apprOffer'[apprRows'[s].room] = "asking"
              /\ apprRoute'[apprRows'[s].room] = s /\ apprRows'[s].room \in apprFollow
  <2>1. CASE s = r
    BY <1>2, <1>4, <1>5, <2>1
  <2>2. CASE s # r
    <3>1. s \in apprOpen \ apprLeft /\ apprRows'[s] = apprRows[s]
      BY <1>9, <1>10, <2>2
    <3>2. apprRows[s].key = apprConn /\ apprRows[s].room # x /\ apprRows[s].room \in apprFollow
      BY <1>1, <1>2, <2>2, <3>1 DEF ApprCardsOK, ApprCardsCurrent
    <3>3. apprRows[s].room \in Rooms
      BY <1>1, <3>2 DEF ApprTypeOK
    <3> QED  BY <1>1, <1>4, <3>1, <3>2, <3>3 DEF ApprCardsOK, ApprCardsCurrent
  <2> QED  BY <2>1, <2>2
<1>11. \A s, t \in apprOpen' : apprRows'[s].room = apprRows'[t].room /\ apprRows'[s].key = apprRows'[t].key => s = t
  BY <1>1, <1>2, <1>9 DEF ApprCardsOK
<1>12. ApprCardsOK'
  BY <1>9, <1>10, <1>11 DEF ApprCardsOK
<1>13. ApprCardsCurrent'
  BY <1>5, <1>10 DEF ApprCardsCurrent
<1>14. ApprConfirmedOK'
  BY <1>1, <1>2 DEF ApprConfirmedOK
<1>15. ApprFinal /\ \A s \in ApprIds : ApprRowOK(apprRows'[s])
  BY <1>2, ApprKeepsFinal DEF ApprKept
<1> QED  BY <1>6, <1>7, <1>8, <1>12, <1>13, <1>14, <1>15 DEF ApprInv, ApprStep

LEMMA ApprCalledStep ==
  ASSUME ApprInv, NEW x \in Rooms, ApprCalled(x)
  PROVE  ApprStep
<1>1. /\ apprOffer[x] = "calling"
      /\ UNCHANGED <<apprNative, apprTook, apprWire, apprConn, apprFollow>>
      /\ UNCHANGED <<apprWinner, apprLate, apprBy>>
  BY DEF ApprCalled, apprCodexVars
<1>2. CASE \E r \in ApprIds :
          /\ ApprMakes(x, apprConn, r)
          /\ apprRoute' = [apprRoute EXCEPT ![x] = r]
          /\ apprLeft' = apprLeft \ {r}
          /\ apprOffer' = [apprOffer EXCEPT ![x] = "asking"]
          /\ UNCHANGED <<apprAsk, apprReq, apprSeen, apprFaults>>
  BY <1>1, <1>2, ApprCalledMadeStep
<1>3. CASE /\ ApprFault
           /\ apprOffer' = [apprOffer EXCEPT ![x] = "done"]
           /\ ApprRetire(apprOffer')
           /\ UNCHANGED <<apprRoute, apprRows, apprOpen, apprLeft>>
  <2>1. ApprTypeOK /\ ApprOffersOK /\ ApprCardsOK /\ ApprCardsCurrent
    BY DEF ApprInv
  <2>2. /\ apprOffer' \in [Rooms -> {"none", "calling", "asking", "done"}]
        /\ apprFaults' \in 0..MaxApprFaults
        /\ \A y \in Rooms : y # x => apprOffer'[y] = apprOffer[y]
    BY <1>3, <2>1, ApprFaultCounted DEF ApprTypeOK
  <2>3. x \in apprFollow /\ apprWinner # x
    BY <1>1, <2>1, ApprAssumption DEF ApprOffersOK
  <2>4. \A r \in ApprIds : ApprIdle(r)
    BY <1>3, ApprRowsUnchanged
  <2>5. \A r \in apprOpen \ apprLeft : apprRows[r].room = x => apprAsk # "open"
    BY <1>1, <2>1 DEF ApprCardsOK
  <2>6. \/ UNCHANGED <<apprAsk, apprReq, apprSeen>>
        \/ /\ apprAsk = "open" /\ apprAsk' = "none" /\ apprReq' = "none" /\ apprSeen' = FALSE
           /\ apprWire = "none" /\ apprWinner = NoRoom
           /\ \A y \in Rooms : apprOffer'[y] \notin {"calling", "asking"}
    BY <1>3, <2>2, ApprRetireEffect
  <2>7. \/ UNCHANGED <<apprAsk, apprReq, apprSeen>>
        \/ /\ apprAsk' = "none" /\ apprReq' = "none" /\ apprSeen' \in BOOLEAN
           /\ apprWire # "none" => apprSeen'
           /\ \A y \in Rooms : apprOffer'[y] \notin {"calling", "asking"}
           /\ apprOpen' \ apprLeft' = {} /\ apprWinner' = NoRoom
    <3>1. ASSUME apprAsk = "open", \A y \in Rooms : apprOffer'[y] \notin {"calling", "asking"},
                 NEW r \in apprOpen \ apprLeft
          PROVE  FALSE
      <4>1. apprOffer[apprRows[r].room] = "asking" /\ apprRows[r].room # x /\ apprRows[r].room \in Rooms
        BY <2>1, <2>5, <3>1 DEF ApprCardsOK, ApprCardsCurrent, ApprTypeOK
      <4> QED  BY <2>2, <3>1, <4>1
    <3> QED  BY <1>1, <1>3, <2>6, <3>1
  <2>8. apprRows' \in [ApprIds -> ApprRow] /\ apprRoute' \in [Rooms -> 0..MaxApprRows]
        /\ apprLate' \in [Rooms -> [key : Nat, routed : BOOLEAN]] /\ apprLeft' \subseteq ApprIds
    BY <1>1, <1>3, <2>1 DEF ApprTypeOK
  <2>9. \A r \in ApprIds : /\ ApprKept(r) /\ apprRows'[r].choice = apprRows[r].choice
                           /\ apprRows'[r].phase = apprRows[r].phase
    BY <2>4 DEF ApprIdle
  <2>10. \A r \in apprOpen' : apprRows'[r].phase = apprRows[r].phase
    BY <1>3
  <2> QED  BY <1>1, <1>3, <2>2, <2>3, <2>5, <2>7, <2>8, <2>9, <2>10, ApprRoomStep
<1> QED  BY <1>1, <1>2, <1>3 DEF ApprCalled, apprRoomVars

\* The card of an offer that has ended: it decides nothing for the present request, and
\* is not mistaken for the one of the offer that was chosen.
LEMMA ApprCalledLateStep ==
  ASSUME ApprInv, NEW x \in Rooms, ApprCalledLate(x)
  PROVE  ApprStep
<1>1. /\ UNCHANGED <<apprNative, apprTook, apprWire, apprReq, apprSeen, apprConn>>
      /\ UNCHANGED <<apprFollow, apprAsk, apprWinner, apprOffer, apprBy, apprFaults>>
      /\ apprLate' = [apprLate EXCEPT ![x] = ApprNotLate]
  BY DEF ApprCalledLate, apprCodexVars, apprClientVars
<1>2. ApprTypeOK /\ ApprClientOK /\ ApprOffersOK /\ ApprCardsOK /\ ApprCardsCurrent /\ ApprConfirmedOK
  BY DEF ApprInv
<1>3. /\ apprOpen \subseteq ApprIds /\ apprBy \in 0..MaxApprRows /\ (apprBy # 0 => apprBy \in ApprIds)
      /\ 0 \notin ApprIds /\ ApprIds \subseteq 0..MaxApprRows
  BY <1>2, ApprAssumption DEF ApprTypeOK, ApprIds
<1>4. /\ apprLate' \in [Rooms -> [key : Nat, routed : BOOLEAN]]
      /\ ~apprLate'[x].routed /\ \A y \in Rooms : y # x => apprLate'[y] = apprLate[y]
  <2>1. ApprNotLate \in [key : Nat, routed : BOOLEAN] /\ ~ApprNotLate.routed
    BY DEF ApprNotLate
  <2> QED  BY <1>1, <1>2, <2>1 DEF ApprTypeOK
<1> DEFINE Cards == /\ apprRows' \in [ApprIds -> ApprRow] /\ \A s \in ApprIds : ApprKept(s)
                    /\ \A s \in ApprIds : apprRows[s].phase # "none" => apprRows'[s].choice = apprRows[s].choice
                    /\ \A s \in ApprIds : apprRows'[s].phase = "confirmed" => apprRows[s].phase = "confirmed"
           Open  == /\ apprOpen' \subseteq ApprIds /\ apprLeft' \subseteq ApprIds
                    /\ \A s \in apprOpen' : apprRows'[s].phase = "pending"
                    /\ \A s \in apprOpen' \ apprLeft' : s \in apprOpen \ apprLeft /\ apprRows'[s] = apprRows[s]
                    /\ \A s, t \in apprOpen' : apprRows'[s].room = apprRows'[t].room /\ apprRows'[s].key = apprRows'[t].key => s = t
                    /\ apprBy # 0 => apprBy \notin apprOpen'
           Route == /\ apprRoute' \in [Rooms -> 0..MaxApprRows]
                    /\ \A y \in Rooms : y # x => apprRoute'[y] = apprRoute[y]
                    /\ \/ apprRoute'[x] = apprRoute[x]
                       \/ /\ apprRoute[x] = 0 /\ apprLate[x].routed /\ apprRoute'[x] \in ApprIds
                          /\ apprRows'[apprRoute'[x]].room = x /\ apprRows'[apprRoute'[x]].phase # "none"
<1>5. Cards /\ Open /\ Route
  <2>1. CASE UNCHANGED <<apprRoute, apprRows, apprOpen, apprLeft>>
    <3>1. \A s \in ApprIds : ApprIdle(s)
      BY <2>1, ApprRowsUnchanged
    <3>2. Cards
      BY <1>2, <2>1, <3>1 DEF ApprIdle, ApprTypeOK
    <3>3. Open
      BY <1>2, <2>1 DEF ApprTypeOK, ApprCardsOK, ApprClientOK
    <3>4. Route
      BY <1>2, <2>1 DEF ApprTypeOK
    <3> QED  BY <3>2, <3>3, <3>4
  <2>2. CASE \E r \in ApprIds :
               /\ ApprMakes(x, apprLate[x].key, r)
               /\ IF apprLate[x].routed /\ apprRoute[x] = 0
                  THEN apprRoute' = [apprRoute EXCEPT ![x] = r] ELSE UNCHANGED apprRoute
               /\ apprLeft' = IF r \in apprOpen THEN apprLeft ELSE apprLeft \cup {r}
    <3> DEFINE key == apprLate[x].key
    <3>1. PICK r \in ApprIds :
            /\ ApprMakes(x, key, r)
            /\ IF apprLate[x].routed /\ apprRoute[x] = 0
               THEN apprRoute' = [apprRoute EXCEPT ![x] = r] ELSE apprRoute' = apprRoute
            /\ apprLeft' = IF r \in apprOpen THEN apprLeft ELSE apprLeft \cup {r}
      BY <2>2
    <3>2. key \in Nat
      BY <1>2 DEF ApprTypeOK
    <3> HIDE DEF key
    <3>3. /\ apprRows' \in [ApprIds -> ApprRow]
          /\ \A s \in ApprIds : ApprKept(s) /\ (s # r => apprRows'[s] = apprRows[s])
          /\ \A s \in ApprIds : apprRows[s].phase # "none" => apprRows'[s].choice = apprRows[s].choice
          /\ apprRows'[r].room = x /\ apprRows'[r].key = key /\ apprRows'[r].phase = "pending"
          /\ apprOpen' = apprOpen \cup {r}
          /\ \A s \in apprOpen : s # r => apprRows[s].room # x \/ apprRows[s].key # key
          /\ (r \in apprOpen /\ apprRows' = apprRows) \/ (r \notin apprOpen /\ apprRows[r].phase = "none")
      BY <3>1, <3>2, ApprMakesEffect
    <3>4. Cards
      BY <3>3
    <3>5. Open
      <4>1. apprOpen' \subseteq ApprIds /\ apprLeft' \subseteq ApprIds
        BY <1>2, <1>3, <3>1, <3>3 DEF ApprTypeOK
      <4>2. \A s \in apprOpen' : apprRows'[s].phase = "pending" /\ (s # r => s \in apprOpen /\ apprRows'[s] = apprRows[s])
        BY <1>2, <1>3, <3>3 DEF ApprCardsOK
      <4>3. \A s \in apprOpen' \ apprLeft' : s \in apprOpen \ apprLeft /\ apprRows'[s] = apprRows[s]
        BY <3>1, <3>3, <4>2
      <4>4. \A s, t \in apprOpen' : apprRows'[s].room = apprRows'[t].room /\ apprRows'[s].key = apprRows'[t].key => s = t
        BY <1>2, <3>3, <4>2 DEF ApprCardsOK
      <4>5. apprBy # 0 => apprBy \notin apprOpen'
        BY <1>2, <3>3 DEF ApprClientOK
      <4> QED  BY <4>1, <4>2, <4>3, <4>4, <4>5
    <3>6. Route
      <4>1. CASE apprLate[x].routed /\ apprRoute[x] = 0
        <5>1. apprRoute' \in [Rooms -> 0..MaxApprRows] /\ apprRoute'[x] = r
              /\ \A y \in Rooms : y # x => apprRoute'[y] = apprRoute[y]
          BY <1>2, <1>3, <3>1, <4>1 DEF ApprTypeOK
        <5> QED  BY <3>3, <4>1, <5>1
      <4>2. CASE ~(apprLate[x].routed /\ apprRoute[x] = 0)
        BY <1>2, <3>1, <4>2 DEF ApprTypeOK
      <4> QED  BY <4>1, <4>2
    <3> QED  BY <3>4, <3>5, <3>6
  <2> QED  BY <2>1, <2>2 DEF ApprCalledLate, apprRoomVars
<1>6. ApprTypeOK'
  BY <1>1, <1>2, <1>4, <1>5 DEF ApprTypeOK
<1>7. ApprClientOK'
  <2>1. apprBy # 0 => /\ apprBy \notin apprOpen' /\ apprRows'[apprBy].phase # "none"
                      /\ apprRows'[apprBy].choice = apprRows[apprBy].choice
    BY <1>2, <1>3, <1>5 DEF ApprClientOK, ApprKept
  <2> QED  BY <1>1, <1>2, <2>1 DEF ApprClientOK, ApprChosen
<1>8. ApprOffersOK'
  <2>1. ASSUME NEW y \in Rooms, apprRoute'[y] # 0
        PROVE  apprRows'[apprRoute'[y]].room = y /\ apprRows'[apprRoute'[y]].phase # "none"
    <3>1. CASE apprRoute'[y] = apprRoute[y]
      BY <1>5, <2>1, <3>1, ApprRouted DEF ApprKept
    <3>2. CASE apprRoute'[y] # apprRoute[y]
      BY <1>5, <3>2
    <3> QED  BY <3>1, <3>2
  <2>2. ASSUME apprWinner # NoRoom
        PROVE  IF apprRoute'[apprWinner] = 0 THEN ~apprLate'[apprWinner].routed
               ELSE apprRoute'[apprWinner] = apprBy
    <3>1. /\ apprWinner \in Rooms
          /\ IF apprRoute[apprWinner] = 0 THEN ~apprLate[apprWinner].routed
             ELSE apprRoute[apprWinner] = apprBy
      BY <1>2, <2>2 DEF ApprOffersOK, ApprTypeOK
    <3> QED  BY <1>4, <1>5, <3>1
  <2> QED  BY <1>1, <1>2, <2>1, <2>2 DEF ApprOffersOK
<1>9. ASSUME NEW s \in apprOpen', s \notin apprLeft'
      PROVE  /\ apprRows'[s].key = apprConn
             /\ apprAsk = "open" => apprOffer[apprRows'[s].room] = "asking"
             /\ apprRoute'[apprRows'[s].room] = s /\ apprRows'[s].room \in apprFollow
             /\ apprReq # "none" /\ apprAsk # "none"
  <2>1. s \in apprOpen \ apprLeft /\ apprRows'[s] = apprRows[s] /\ s # 0
    BY <1>3, <1>5, <1>9
  <2>2. /\ apprRows[s].key = apprConn /\ (apprAsk = "open" => apprOffer[apprRows[s].room] = "asking")
        /\ apprRoute[apprRows[s].room] = s /\ apprRows[s].room \in apprFollow
        /\ apprReq # "none" /\ apprAsk # "none"
    BY <1>2, <2>1 DEF ApprCardsOK, ApprCardsCurrent
  <2>3. apprRows[s].room \in Rooms
    BY <1>2, <2>2 DEF ApprTypeOK
  <2> QED  BY <1>5, <2>1, <2>2, <2>3
<1>10. ApprCardsOK'
  BY <1>1, <1>5, <1>9 DEF ApprCardsOK
<1>11. ApprCardsCurrent'
  BY <1>1, <1>9 DEF ApprCardsCurrent
<1>12. ApprConfirmedOK'
  BY <1>1, <1>2, <1>5 DEF ApprConfirmedOK
<1>13. ApprFinal /\ \A s \in ApprIds : ApprRowOK(apprRows'[s])
  BY <1>5, ApprKeepsFinal DEF ApprKept
<1> QED  BY <1>6, <1>7, <1>8, <1>10, <1>11, <1>12, <1>13 DEF ApprInv, ApprStep

\* A room stops following: its card is closed, or no longer counts for the request.
LEMMA ApprLeavesStep ==
  ASSUME ApprInv, NEW x \in Rooms, ApprLeaves(x)
  PROVE  ApprStep
<1> DEFINE told == IF apprRoute[x] # 0 /\ apprRows[apprRoute[x]].choice # "none"
                   THEN "failed" ELSE "withdrawn"
           res == [y \in Rooms |-> told]
           offers == [apprOffer EXCEPT ![x] = "none"]
<1>1. /\ x \in apprFollow /\ apprFollow' = apprFollow \ {x} /\ apprOffer' = offers
      /\ apprWinner' = IF apprWinner = x THEN NoRoom ELSE apprWinner
      /\ \/ /\ ApprReport({x}, res, 1) /\ apprLate' = ApprLateFrom({x}, FALSE) /\ apprLeft' = apprLeft
         \/ /\ apprLeft' = apprLeft \cup {r \in apprOpen : apprRows[r].room = x}
            /\ apprLate' = ApprLateFrom({x}, TRUE)
            /\ ApprFault /\ UNCHANGED <<apprRoute, apprRows, apprOpen>>
      /\ IF apprFollow' = {}
         THEN apprAsk' = "none" /\ apprReq' = "none" /\ apprSeen' = (apprReq # "asking" /\ apprSeen)
         ELSE ApprRetire(offers)
      /\ UNCHANGED <<apprNative, apprTook, apprWire, apprConn, apprBy>>
  BY DEF ApprLeaves, apprCodexVars
<1>2. ApprTypeOK /\ ApprClientOK /\ ApprOffersOK /\ ApprCardsOK /\ ApprCardsCurrent
  BY DEF ApprInv
<1>3. res \in [Rooms -> ApprResults] /\ res[x] # "confirmed"
  BY DEF ApprResults
<1>4. /\ offers \in [Rooms -> {"none", "calling", "asking", "done"}] /\ offers[x] = "none"
      /\ \A y \in Rooms : y # x => offers[y] = apprOffer[y]
  BY <1>2 DEF ApprTypeOK
<1> HIDE DEF res, told, offers
<1> DEFINE Rows == /\ apprFaults' \in 0..MaxApprFaults
                   /\ apprRows' \in [ApprIds -> ApprRow] /\ \A r \in ApprIds : ApprKept(r)
                   /\ \A r \in ApprIds : r \notin apprOpen => apprRows'[r].choice = apprRows[r].choice
                   /\ \A r \in ApprIds : apprRows'[r].phase = "confirmed" => apprRows[r].phase = "confirmed"
           Open == /\ apprOpen' \subseteq apprOpen /\ \A r \in apprOpen' : apprRows'[r].phase = apprRows[r].phase
                   /\ apprLeft' \subseteq ApprIds
                   /\ \A r \in apprOpen' \ apprLeft' : r \in apprOpen /\ r \notin apprLeft /\ apprRows[r].room # x
           Route == /\ apprRoute' \in [Rooms -> 0..MaxApprRows] /\ apprRoute'[x] \in {0, apprRoute[x]}
                    /\ \A y \in Rooms : y # x => apprRoute'[y] = apprRoute[y] /\ apprLate'[y] = apprLate[y]
                    /\ apprLate' \in [Rooms -> [key : Nat, routed : BOOLEAN]]
<1>5. Rows /\ Open /\ Route
  <2>1. CASE ApprReport({x}, res, 1) /\ apprLate' = ApprLateFrom({x}, FALSE) /\ apprLeft' = apprLeft
    <3>1. /\ apprFaults' \in 0..MaxApprFaults
          /\ apprRows' \in [ApprIds -> ApprRow]
          /\ \A r \in ApprIds :
               /\ ApprKept(r)
               /\ r \notin apprOpen => apprRows'[r].choice = apprRows[r].choice
               /\ \/ apprRows'[r].phase = apprRows[r].phase
                  \/ \E y \in {x} : apprRoute[y] = r /\ apprRows'[r].phase = res[y]
          /\ apprOpen' \subseteq apprOpen
          /\ \A r \in apprOpen' : \A y \in {x} : apprRoute[y] = r => res[y] = "confirmed"
          /\ apprRoute' = [y \in Rooms |-> IF y \in {x} THEN 0 ELSE apprRoute[y]]
      <4> DEFINE one == {x}
                 cost == 1
      <4>1. one \in SUBSET Rooms /\ cost \in Nat /\ ApprReport(one, res, cost)
        BY <2>1
      <4> HIDE DEF one, cost
      <4>2. /\ apprFaults' \in 0..MaxApprFaults
            /\ apprRows' \in [ApprIds -> ApprRow]
            /\ \A r \in ApprIds :
                 /\ ApprKept(r)
                 /\ r \notin apprOpen => apprRows'[r].choice = apprRows[r].choice
                 /\ \/ apprRows'[r].phase = apprRows[r].phase
                    \/ \E y \in one : apprRoute[y] = r /\ apprRows'[r].phase = res[y]
            /\ apprOpen' \subseteq apprOpen
            /\ \A r \in apprOpen' : \A y \in one : apprRoute[y] = r => res[y] = "confirmed"
            /\ apprRoute' = [y \in Rooms |-> IF y \in one THEN 0 ELSE apprRoute[y]]
        BY <1>3, <4>1, ApprReportEffect
      <4> QED  BY <4>2 DEF one
    <3>2. Rows
      BY <1>3, <3>1
    <3>3. \A r \in apprOpen' : r \in ApprIds /\ apprRoute[x] # r
      BY <1>2, <1>3, <3>1 DEF ApprTypeOK
    <3>4. Open
      <4>1. \A r \in apprOpen' \ apprLeft' : apprRows[r].room # x
        BY <1>2, <2>1, <3>1, <3>3 DEF ApprCardsCurrent
      <4> QED  BY <1>2, <2>1, <3>1, <3>3, <4>1 DEF ApprTypeOK
    <3>5. /\ apprLate' \in [Rooms -> [key : Nat, routed : BOOLEAN]]
          /\ \A y \in Rooms : y # x => apprLate'[y] = apprLate[y]
      <4> DEFINE one == {x}
                 routed == FALSE
      <4>1. one \in SUBSET Rooms /\ routed \in BOOLEAN /\ apprLate' = ApprLateFrom(one, routed)
        BY <2>1
      <4> HIDE DEF one, routed
      <4>2. /\ apprLate' \in [Rooms -> [key : Nat, routed : BOOLEAN]]
            /\ \A y \in Rooms : y \notin one => apprLate'[y] = apprLate[y]
        BY <1>2, <4>1, ApprLateTyped
      <4> QED  BY <4>2 DEF one
    <3>6. Route
      BY <1>2, <3>1, <3>5, ApprAssumption DEF ApprTypeOK
    <3> QED  BY <3>2, <3>4, <3>6
  <2>2. CASE /\ apprLeft' = apprLeft \cup {r \in apprOpen : apprRows[r].room = x}
             /\ apprLate' = ApprLateFrom({x}, TRUE)
             /\ ApprFault /\ UNCHANGED <<apprRoute, apprRows, apprOpen>>
    <3>1. \A r \in ApprIds : ApprIdle(r)
      BY <2>2, ApprRowsUnchanged
    <3>2. Rows
      BY <1>2, <2>2, <3>1, ApprFaultCounted DEF ApprIdle, ApprTypeOK
    <3>3. Open
      BY <1>2, <2>2 DEF ApprTypeOK
    <3>4. /\ apprLate' \in [Rooms -> [key : Nat, routed : BOOLEAN]]
          /\ \A y \in Rooms : y # x => apprLate'[y] = apprLate[y]
      <4> DEFINE one == {x}
                 routed == TRUE
      <4>1. one \in SUBSET Rooms /\ routed \in BOOLEAN /\ apprLate' = ApprLateFrom(one, routed)
        BY <2>2
      <4> HIDE DEF one, routed
      <4>2. /\ apprLate' \in [Rooms -> [key : Nat, routed : BOOLEAN]]
            /\ \A y \in Rooms : y \notin one => apprLate'[y] = apprLate[y]
        BY <1>2, <4>1, ApprLateTyped
      <4> QED  BY <4>2 DEF one
    <3>5. Route
      BY <1>2, <2>2, <3>4 DEF ApprTypeOK
    <3> QED  BY <3>2, <3>3, <3>5
  <2> QED  BY <1>1, <2>1, <2>2
<1>6. apprWinner' \in {apprWinner, NoRoom} /\ apprWinner' # x
  BY <1>1, ApprAssumption
<1>7. \/ UNCHANGED <<apprAsk, apprReq, apprSeen>>
      \/ /\ apprAsk' = "none" /\ apprReq' = "none" /\ apprSeen' \in BOOLEAN
         /\ apprWire # "none" => apprSeen'
         /\ \A y \in Rooms : apprOffer'[y] \notin {"calling", "asking"}
         /\ apprOpen' \ apprLeft' = {} /\ apprWinner' = NoRoom
  <2>1. CASE apprFollow' = {}
    <3>1. apprAsk' = "none" /\ apprReq' = "none" /\ apprSeen' = (apprReq # "asking" /\ apprSeen)
      BY <1>1, <2>1
    <3>2. \A y \in apprFollow : y = x
      BY <1>1, <2>1
    <3>3. \A y \in Rooms : apprOffer'[y] \notin {"calling", "asking"}
      BY <1>1, <1>2, <1>4, <3>2 DEF ApprOffersOK
    <3>4. apprOpen' \ apprLeft' = {}
      BY <1>2, <1>5, <3>2 DEF ApprCardsCurrent
    <3>5. apprWinner' = NoRoom
      BY <1>1, <1>2, <3>2 DEF ApprOffersOK
    <3>6. apprWire # "none" => apprSeen'
      BY <1>2, <3>1 DEF ApprClientOK
    <3>7. apprSeen' \in BOOLEAN
      BY <3>1
    <3> QED  BY <3>1, <3>3, <3>4, <3>5, <3>6, <3>7
  <2>2. CASE apprFollow' # {}
    <3>1. \/ UNCHANGED <<apprAsk, apprReq, apprSeen>>
          \/ /\ apprAsk = "open" /\ apprAsk' = "none" /\ apprReq' = "none" /\ apprSeen' = FALSE
             /\ apprWire = "none" /\ apprWinner = NoRoom
             /\ \A y \in Rooms : offers[y] \notin {"calling", "asking"}
      BY <1>1, <1>4, <2>2, ApprRetireEffect
    <3>2. ASSUME apprAsk = "open", \A y \in Rooms : offers[y] \notin {"calling", "asking"},
                 NEW r \in apprOpen' \ apprLeft'
          PROVE  FALSE
      <4>1. r \in apprOpen \ apprLeft /\ apprRows[r].room # x
        BY <1>5, <3>2
      <4>2. apprOffer[apprRows[r].room] = "asking" /\ apprRows[r].room \in Rooms
        BY <1>2, <3>2, <4>1 DEF ApprCardsOK, ApprCardsCurrent, ApprTypeOK
      <4> QED  BY <1>4, <3>2, <4>1, <4>2
    <3>3. apprWinner = NoRoom => apprWinner' = NoRoom
      BY <1>6
    <3> QED  BY <1>1, <3>1, <3>2, <3>3
  <2> QED  BY <2>1, <2>2
<1>8. apprFollow' \in {apprFollow, apprFollow \ {x}} /\ apprOffer' = [apprOffer EXCEPT ![x] = "none"]
  BY <1>1 DEF offers
<1>9. \A r \in apprOpen' \ apprLeft' :
        /\ r \notin apprLeft
        /\ apprRows[r].room = x => apprAsk # "open" /\ apprRoute'[x] = apprRoute[x] /\ x \in apprFollow'
  BY <1>5
<1>10. /\ apprWinner' = x => /\ x \in apprFollow'
                            /\ \/ apprRoute'[x] = 0 /\ ~apprLate'[x].routed
                               \/ apprRoute'[x] = apprRoute[x] /\ apprLate'[x] = apprLate[x]
       /\ UNCHANGED <<apprNative, apprTook, apprWire, apprConn, apprBy>>
  BY <1>1, <1>6
<1> QED
  <2> DEFINE end == "none"
  <2>1. end \in {"none", "done"} /\ (x \notin apprFollow' => end = "none") /\ (end = "done" => x \in apprFollow)
    OBVIOUS
  <2>2. apprOffer' = [apprOffer EXCEPT ![x] = end]
    BY <1>8
  <2> HIDE DEF end
  <2> QED  BY <1>5, <1>6, <1>7, <1>8, <1>9, <1>10, <2>1, <2>2, ApprRoomStep

\* A choice, or the refusal of a card that timed out.
LEMMA ApprDecidedStep ==
  ASSUME ApprInv, NEW r \in ApprIds, NEW choice \in ApprAnswers, ApprDecided(r, choice)
  PROVE  ApprStep
<1> DEFINE x == apprRows[r].room
           row == apprRows[r]
           chosen == [[row EXCEPT !.phase = "unconfirmed"] EXCEPT !.choice = choice]
           first == apprOffer[x] = "asking" /\ apprRoute[x] = r /\ apprAsk = "open"
           away == x \notin apprFollow /\ apprRoute[x] = r
           put == IF away THEN ApprToldRow(chosen, "withdrawn", FALSE) ELSE chosen
<1>1. /\ r \in apprOpen /\ apprOpen' = apprOpen \ {r}
      /\ \/ apprRows' = [apprRows EXCEPT ![r] = put] /\ apprFaults' = apprFaults
         \/ ApprFault /\ choice = "decline" /\ apprRows' = apprRows
      /\ apprRoute' = [apprRoute EXCEPT ![x] = IF away THEN 0 ELSE @]
      /\ IF first
         THEN /\ apprAsk' = choice /\ apprWinner' = x
              /\ apprReq' = "submitted" /\ apprWire' = choice /\ apprBy' = r
         ELSE UNCHANGED <<apprAsk, apprWinner, apprReq, apprWire, apprBy>>
      /\ apprOffer' = [apprOffer EXCEPT ![x] = IF apprRoute[x] = r /\ @ = "asking" THEN "done" ELSE @]
      /\ UNCHANGED <<apprNative, apprTook, apprSeen, apprConn, apprFollow, apprLate, apprLeft>>
  BY DEF ApprDecided, ApprUnrecordedDecides
<1>2. ApprTypeOK /\ ApprClientOK /\ ApprOffersOK /\ ApprCardsOK /\ ApprCardsCurrent /\ ApprConfirmedOK
  BY DEF ApprInv
<1>3. /\ row \in ApprRow /\ ApprRowOK(row) /\ row.phase = "pending" /\ x \in Rooms
      /\ apprRows \in [ApprIds -> ApprRow]
  <2>1. row \in ApprRow /\ ApprRowOK(row) /\ row.phase = "pending" /\ apprRows \in [ApprIds -> ApprRow]
    BY <1>1, <1>2 DEF ApprInv, ApprTypeOK, ApprCardsOK
  <2> QED  BY <2>1 DEF ApprRowOK
<1>4. /\ apprOpen \subseteq ApprIds /\ apprBy \in 0..MaxApprRows /\ (apprBy # 0 => apprBy \in ApprIds)
      /\ 0 \notin ApprIds /\ r \in 0..MaxApprRows
  BY <1>2, ApprAssumption DEF ApprTypeOK, ApprIds
<1>5. /\ put \in ApprRow /\ ApprRowOK(put) /\ put.room = x /\ put.key = row.key
      /\ put.phase \in {"unconfirmed", "withdrawn"} /\ put.known = row.known /\ put.choice = choice
  <2> DEFINE mid == [row EXCEPT !.phase = "unconfirmed"]
  <2>1. /\ mid \in ApprRow /\ mid.phase = "unconfirmed" /\ mid.room = x /\ mid.key = row.key
        /\ mid.known = row.known /\ mid.card = row.card /\ mid.flight = row.flight
        /\ mid.delivery = row.delivery
    BY <1>3 DEF ApprRow
  <2> HIDE DEF mid
  <2>2. chosen = [mid EXCEPT !.choice = choice]
    BY DEF mid
  <2>3. /\ chosen \in ApprRow /\ chosen.phase = "unconfirmed" /\ chosen.room = x /\ chosen.key = row.key
        /\ chosen.known = row.known /\ chosen.card = row.card /\ chosen.flight = row.flight
        /\ chosen.delivery = row.delivery /\ chosen.choice = choice
    BY <2>1, <2>2 DEF ApprRow
  <2> HIDE DEF chosen
  <2>4. ApprRowOK(chosen)
    BY <1>3, <2>3 DEF ApprRowOK
  <2>5. CASE away
    <3> DEFINE new == ApprToldRow(chosen, "withdrawn", FALSE)
    <3>1. /\ new \in ApprRow /\ ApprRowOK(new) /\ new.room = chosen.room /\ new.key = chosen.key
          /\ new.phase \in {chosen.phase, "withdrawn"} /\ new.known = chosen.known /\ new.choice = chosen.choice
      <4>1. "withdrawn" \in ApprResults /\ FALSE \in BOOLEAN /\ chosen.phase # "none"
        BY <2>3 DEF ApprResults
      <4> DEFINE shut == FALSE
                 result == "withdrawn"
      <4>2. new = ApprToldRow(chosen, result, shut) /\ shut \in BOOLEAN /\ ~shut
            /\ result \in ApprResults /\ result = "withdrawn"
        BY <4>1
      <4> HIDE DEF new, shut, result
      <4> QED  BY <2>3, <2>4, <4>1, <4>2, ApprRowTold
    <3>2. put = new
      BY <2>5
    <3> HIDE DEF new, put
    <3> QED  BY <2>3, <3>1, <3>2
  <2>6. CASE ~away
    BY <2>3, <2>4, <2>6
  <2> QED  BY <2>5, <2>6
<1> HIDE DEF put
<1>6. /\ apprRows' \in [ApprIds -> ApprRow] /\ \A s \in ApprIds : s # r => apprRows'[s] = apprRows[s]
      /\ apprRows'[r].room = x /\ apprRows'[r].key = row.key
      /\ apprRows'[r].phase \in {"pending", "unconfirmed", "withdrawn"}
      /\ apprRows'[r].known = row.known /\ ApprRowOK(apprRows'[r]) /\ apprRows'[r] \in ApprRow
      /\ choice = "accept" => apprRows'[r].choice = "accept"
  <2>1. CASE apprRows' = [apprRows EXCEPT ![r] = put]
    <3>1. apprRows' \in [ApprIds -> ApprRow] /\ apprRows'[r] = put /\ \A s \in ApprIds : s # r => apprRows'[s] = apprRows[s]
      BY <1>3, <1>5, <2>1
    <3> QED  BY <1>5, <3>1
  <2>2. CASE choice = "decline" /\ apprRows' = apprRows
    BY <1>3, <2>2
  <2> QED  BY <1>1, <2>1, <2>2
<1>7. \A s \in ApprIds : ApprKept(s)
  <2>1. \A s \in ApprIds : apprRows[s] \in ApprRow /\ ApprRowOK(apprRows[s])
    BY <1>3 DEF ApprInv
  <2>2. ApprKept(r)
    BY <1>3, <1>6 DEF ApprKept
  <2>3. \A s \in ApprIds : s # r => ApprKept(s)
    BY <1>6, <2>1 DEF ApprKept
  <2> QED  BY <2>2, <2>3
<1>8. apprFaults' \in 0..MaxApprFaults
  BY <1>1, <1>2, ApprFaultCounted DEF ApprTypeOK
<1>9. /\ apprOffer' \in [Rooms -> {"none", "calling", "asking", "done"}]
      /\ apprOffer'[x] = IF apprRoute[x] = r /\ apprOffer[x] = "asking" THEN "done" ELSE apprOffer[x]
      /\ \A y \in Rooms : y # x => apprOffer'[y] = apprOffer[y]
  BY <1>1, <1>2, <1>3 DEF ApprTypeOK
<1>10. /\ apprRoute' \in [Rooms -> 0..MaxApprRows]
       /\ apprRoute'[x] = IF away THEN 0 ELSE apprRoute[x]
       /\ \A y \in Rooms : y # x => apprRoute'[y] = apprRoute[y]
  <2> DEFINE to == IF away THEN 0 ELSE apprRoute[x]
  <2>1. apprRoute' = [apprRoute EXCEPT ![x] = to] /\ to \in 0..MaxApprRows
    BY <1>1, <1>2, <1>3, ApprAssumption DEF ApprTypeOK
  <2> HIDE DEF to
  <2>2. apprRoute' \in [Rooms -> 0..MaxApprRows] /\ apprRoute'[x] = to
        /\ \A y \in Rooms : y # x => apprRoute'[y] = apprRoute[y]
    BY <1>2, <1>3, <2>1 DEF ApprTypeOK
  <2> QED  BY <2>2 DEF to
<1>11. first => /\ apprAsk = "open" /\ apprReq = "asking" /\ apprSeen /\ apprWire = "none" /\ apprTook = "none"
                /\ x \in apprFollow /\ ~away /\ apprOffer'[x] = "done" /\ apprRoute'[x] = r
                /\ \A s \in ApprIds : apprRows[s].phase # "confirmed"
  <2>1. ASSUME first
        PROVE  /\ apprAsk = "open" /\ apprReq = "asking" /\ apprSeen /\ apprWire = "none"
               /\ x \in apprFollow /\ apprRoute[x] = r /\ apprOffer[x] = "asking"
    BY <1>2, <1>3, <2>1 DEF ApprClientOK, ApprOffersOK
  <2>2. first => apprTook = "none"
    BY <1>2, <2>1 DEF ApprClientOK
  <2>3. first => \A s \in ApprIds : apprRows[s].phase # "confirmed"
    BY <1>2, <2>1 DEF ApprConfirmedOK
  <2> QED  BY <1>9, <1>10, <2>1, <2>2, <2>3
<1> HIDE DEF first, away, x, row
<1>12. ApprTypeOK'
  <2>1. /\ apprAsk' \in {"none", "open"} \cup ApprAnswers /\ apprWinner' \in Rooms \cup {NoRoom}
        /\ apprReq' \in {"none", "asking", "submitted"} /\ apprBy' \in 0..MaxApprRows
        /\ {apprTook', apprWire'} \subseteq ApprAnswers \cup {"none"}
    BY <1>1, <1>2, <1>3, <1>4 DEF ApprTypeOK
  <2>2. apprOpen' \subseteq ApprIds
    BY <1>1, <1>4
  <2> QED  BY <1>1, <1>2, <1>6, <1>8, <1>9, <1>10, <2>1, <2>2 DEF ApprTypeOK
<1>13. ApprClientOK'
  <2>1. CASE first
    <3>1. /\ apprReq' = "submitted" /\ apprAsk' = choice /\ apprWire' = choice /\ apprBy' = r
          /\ apprSeen' /\ apprTook' = "none" /\ apprNative' = apprNative /\ r \notin apprOpen'
      BY <1>1, <1>11, <2>1
    <3>2. apprRows'[r].phase # "none" /\ r # 0 /\ choice \in ApprAnswers
      BY <1>4, <1>6
    <3> QED  BY <1>6, <3>1, <3>2 DEF ApprClientOK, ApprChosen, ApprAnswers
  <2>2. CASE ~first
    <3>1. apprBy # 0 => /\ apprBy # r /\ apprBy \notin apprOpen' /\ apprRows'[apprBy] = apprRows[apprBy]
      BY <1>1, <1>2, <1>4, <1>6 DEF ApprClientOK
    <3> QED  BY <1>1, <1>2, <2>2, <3>1 DEF ApprClientOK, ApprChosen
  <2> QED  BY <2>1, <2>2
<1>14. ApprOffersOK'
  <2>1. ASSUME NEW y \in Rooms, apprRoute'[y] # 0
        PROVE  apprRows'[apprRoute'[y]].room = y /\ apprRows'[apprRoute'[y]].phase # "none"
    <3>1. apprRoute'[y] = apprRoute[y]
      BY <1>10, <2>1
    <3> QED  BY <1>7, <2>1, <3>1, ApprRouted DEF ApprKept
  <2>2. \A y \in Rooms : apprOffer'[y] # "none" => y \in apprFollow'
    BY <1>1, <1>2, <1>9 DEF ApprOffersOK
  <2>3. \A y \in Rooms : apprOffer'[y] \in {"calling", "asking"} => apprReq' # "none" /\ apprAsk' # "none"
    <3>1. \A y \in Rooms : apprOffer'[y] \in {"calling", "asking"} => apprOffer[y] = apprOffer'[y]
      BY <1>9
    <3>2. (apprReq # "none" => apprReq' # "none") /\ (apprAsk # "none" => apprAsk' # "none")
      BY <1>1, <1>2 DEF ApprAnswers
    <3> QED  BY <1>2, <3>1, <3>2 DEF ApprOffersOK
  <2>4. ASSUME apprWinner' # NoRoom
        PROVE  /\ apprWinner' \in apprFollow' /\ apprAsk' \in ApprAnswers
               /\ apprOffer'[apprWinner'] \notin {"calling", "asking"}
               /\ IF apprRoute'[apprWinner'] = 0 THEN ~apprLate'[apprWinner'].routed
                  ELSE apprRoute'[apprWinner'] = apprBy'
    <3>1. CASE first
      BY <1>1, <1>4, <1>11, <3>1
    <3>2. CASE ~first
      <4>1. /\ apprWinner' = apprWinner /\ apprAsk' = apprAsk /\ apprWinner \in Rooms /\ apprBy' = apprBy
            /\ apprWinner \in apprFollow /\ apprAsk \in ApprAnswers
            /\ apprOffer[apprWinner] \notin {"calling", "asking"}
            /\ IF apprRoute[apprWinner] = 0 THEN ~apprLate[apprWinner].routed
               ELSE apprRoute[apprWinner] = apprBy
        BY <1>1, <1>2, <2>4, <3>2 DEF ApprOffersOK, ApprTypeOK
      <4>2. CASE apprWinner = x
        <5>1. ~away
          BY <4>1, <4>2 DEF away
        <5> QED  BY <1>1, <1>9, <1>10, <4>1, <4>2, <5>1
      <4>3. CASE apprWinner # x
        BY <1>1, <1>9, <1>10, <4>1, <4>3
      <4> QED  BY <4>2, <4>3
    <3> QED  BY <3>1, <3>2
  <2> QED  BY <2>1, <2>2, <2>3, <2>4 DEF ApprOffersOK
<1>15. ASSUME NEW s \in apprOpen'
       PROVE  s \in apprOpen /\ s # r /\ s \in ApprIds /\ apprRows'[s] = apprRows[s] /\ apprRows[s].phase = "pending"
  BY <1>1, <1>2, <1>4, <1>6, <1>15 DEF ApprCardsOK
<1>16. ASSUME NEW s \in apprOpen', s \notin apprLeft'
       PROVE  /\ apprRows[s].key = apprConn /\ apprRoute'[apprRows[s].room] = s
              /\ apprRows[s].room \in apprFollow /\ apprReq' # "none" /\ apprAsk' # "none"
              /\ apprAsk' = "open" => apprOffer'[apprRows[s].room] = "asking"
  <2>1. /\ apprRows[s].key = apprConn /\ apprRoute[apprRows[s].room] = s
        /\ apprRows[s].room \in apprFollow /\ apprReq # "none" /\ apprAsk # "none"
        /\ apprAsk = "open" => apprOffer[apprRows[s].room] = "asking"
    BY <1>1, <1>2, <1>15, <1>16 DEF ApprCardsOK, ApprCardsCurrent
  <2>2. apprRows[s].room \in Rooms
    BY <1>2, <2>1 DEF ApprTypeOK
  <2>3. /\ apprRoute'[apprRows[s].room] = s
        /\ apprOffer'[apprRows[s].room] = apprOffer[apprRows[s].room]
    <3>1. CASE apprRows[s].room = x
      BY <1>9, <1>10, <1>15, <2>1, <3>1 DEF away
    <3>2. CASE apprRows[s].room # x
      BY <1>9, <1>10, <2>1, <2>2, <3>2
    <3> QED  BY <3>1, <3>2
  <2>4. apprReq' # "none" /\ apprAsk' # "none" /\ (apprAsk' = "open" => apprAsk = "open")
    BY <1>1, <1>2, <2>1 DEF ApprAnswers
  <2> QED  BY <2>1, <2>3, <2>4
<1>17. ApprCardsOK'
  BY <1>1, <1>2, <1>15, <1>16 DEF ApprCardsOK
<1>18. ApprCardsCurrent'
  BY <1>1, <1>15, <1>16 DEF ApprCardsCurrent
<1>19. ApprConfirmedOK'
  <2>1. \A s \in ApprIds : apprRows'[s].phase = "confirmed" => s # r /\ apprRows[s].phase = "confirmed"
    BY <1>6
  <2>2. CASE first
    BY <1>11, <2>1, <2>2 DEF ApprConfirmedOK
  <2>3. CASE ~first
    BY <1>1, <1>2, <2>1, <2>3 DEF ApprConfirmedOK
  <2> QED  BY <2>2, <2>3
<1>20. ApprFinal /\ \A s \in ApprIds : ApprRowOK(apprRows'[s])
  BY <1>7, ApprKeepsFinal DEF ApprKept
<1> QED  BY <1>12, <1>13, <1>14, <1>17, <1>18, <1>19, <1>20 DEF ApprInv, ApprStep

LEMMA ApprStutters ==
  ASSUME ApprInv, UNCHANGED apprVars
  PROVE  ApprStep
<1>1. ApprRowsOnly /\ apprRows' = apprRows /\ apprFaults' = apprFaults
  BY DEF apprVars, ApprRowsOnly, apprCodexVars, apprClientVars, apprFanoutVars
<1>2. \A r \in ApprIds : ApprIdle(r)
  BY <1>1, ApprRowsUnchanged
<1>3. apprRows' \in [ApprIds -> ApprRow] /\ apprFaults' \in 0..MaxApprFaults
  BY <1>1 DEF ApprInv, ApprTypeOK
<1> QED  BY <1>1, <1>2, <1>3, ApprRowsStep

LEMMA ApprNextStep ==
  ASSUME ApprInv, [ApprNext]_apprVars
  PROVE  ApprStep
<1>1. CASE ApprAsked
  BY <1>1, ApprAskedStep
<1>2. CASE ApprAnswered
  BY <1>2, ApprAnsweredStep
<1>3. CASE ApprElsewhere
  BY <1>3, ApprElsewhereStep
<1>4. CASE ApprResolved
  BY <1>4, ApprResolvedStep
<1>5. CASE ApprTurnEnds
  BY <1>5, ApprTurnEndsStep
<1>6. CASE ApprLineLost
  BY <1>6, ApprLineLostStep
<1>7. CASE ApprCrash
  BY <1>7, ApprCrashStep
<1>8. ASSUME NEW x \in Rooms, ApprCalled(x) \/ ApprCalledLate(x) \/ ApprJoins(x)
      PROVE  ApprStep
  BY <1>8, ApprCalledStep, ApprCalledLateStep, ApprJoinsStep
<1>9. ASSUME NEW x \in Rooms, ApprLeaves(x) \/ ApprRoomRestarts(x)
      PROVE  ApprStep
  BY <1>9, ApprLeavesStep, ApprRoomRestartsStep
<1>10. ASSUME NEW r \in ApprIds, ApprCardSent(r) \/ ApprNotice(r) \/ ApprNoticed(r)
       PROVE  ApprStep
  BY <1>10, ApprCardSentStep, ApprNoticeStep, ApprNoticedStep
<1>11. ASSUME NEW r \in ApprIds, NEW choice \in ApprAnswers, ApprDecided(r, choice)
       PROVE  ApprStep
  BY <1>11, ApprDecidedStep
<1>12. CASE UNCHANGED apprVars
  BY <1>12, ApprStutters
<1> QED  BY <1>1, <1>2, <1>3, <1>4, <1>5, <1>6, <1>7, <1>8, <1>9, <1>10, <1>11, <1>12 DEF ApprNext

LEMMA ApprStarts ==
  ASSUME ApprInit
  PROVE  ApprInv
<1>1. /\ NoApprRow \in ApprRow /\ NoApprRow.phase = "none" /\ NoApprRow.card = "none"
      /\ NoApprRow.outcome = "none" /\ NoApprRow.flight = "none" /\ NoApprRow.delivery = "ready"
      /\ ~NoApprRow.known
  BY ApprAssumption DEF NoApprRow, ApprRow
<1>2. ApprNotLate \in [key : Nat, routed : BOOLEAN]
  BY DEF ApprNotLate
<1>3. /\ apprRows \in [ApprIds -> ApprRow]
      /\ \A r \in ApprIds : apprRows[r] = NoApprRow
      /\ apprLate \in [Rooms -> [key : Nat, routed : BOOLEAN]]
      /\ apprRoute \in [Rooms -> 0..MaxApprRows]
      /\ apprOffer \in [Rooms -> {"none", "calling", "asking", "done"}]
  <2>1. 0 \in 0..MaxApprRows
    BY ApprAssumption
  <2> QED  BY <1>1, <1>2, <2>1 DEF ApprInit
<1>4. /\ apprNative = "open" /\ apprTook = "none" /\ apprWire = "none" /\ apprReq = "none"
      /\ apprSeen = FALSE /\ apprConn = 1 /\ apprFollow \subseteq Rooms /\ apprAsk = "none"
      /\ apprWinner = NoRoom /\ apprOpen = {} /\ apprLeft = {} /\ apprBy = 0 /\ apprFaults = 0
      /\ \A x \in Rooms : apprOffer[x] = "none" /\ apprRoute[x] = 0
  BY DEF ApprInit
<1>5. ApprTypeOK
  <2>1. 0 \in 0..MaxApprRows /\ 0 \in 0..MaxApprFaults
    BY ApprAssumption
  <2>2. apprTook \in ApprAnswers \cup {"none"} /\ apprWire \in ApprAnswers \cup {"none"} /\ apprConn \in Nat
    BY <1>4
  <2>3. apprOpen \subseteq ApprIds /\ apprLeft \subseteq ApprIds
    BY <1>4
  <2> QED  BY <1>3, <1>4, <2>1, <2>2, <2>3 DEF ApprTypeOK
<1>6. \A r \in ApprIds : ApprRowOK(apprRows[r])
  BY <1>1, <1>3 DEF ApprRowOK
<1>7. ApprClientOK /\ ApprOffersOK
  BY <1>4 DEF ApprClientOK, ApprOffersOK, ApprChosen
<1>8. ApprCardsOK /\ ApprCardsCurrent
  BY <1>4 DEF ApprCardsOK, ApprCardsCurrent
<1>9. ApprConfirmedOK
  BY <1>1, <1>3 DEF ApprConfirmedOK
<1> QED  BY <1>5, <1>6, <1>7, <1>8, <1>9 DEF ApprInv

\* The rows, routes and offers of the rooms agree with what the fanout and the client
\* know of the request, in every state that the code reaches.
THEOREM ApprInvariant == ApprSpec => []ApprInv
<1>1. ApprInit => ApprInv
  BY ApprStarts
<1>2. ApprInv /\ [ApprNext]_apprVars => ApprInv'
  BY ApprNextStep DEF ApprStep
<1> QED  BY <1>1, <1>2, PTL DEF ApprSpec

\* An approval is granted only by the choice of a user that is on record, only the room
\* whose answer was sent hears that it is confirmed, a card decides only while its
\* request waits, and a notice that closes a card has closed it.
THEOREM ApprovalsKept == ApprSpec => ApprPromise
<1>1. ApprInv => /\ ApprTypeOK /\ ApprAuthorised /\ ApprConfirmedRight
                 /\ ApprCardsCurrent /\ ApprCardsClosed
  <2>1. ApprInv => ApprAuthorised
    BY DEF ApprInv, ApprClientOK, ApprChosen, ApprAuthorised
  <2>2. ApprInv => ApprConfirmedRight
    BY DEF ApprInv, ApprConfirmedOK, ApprConfirmedRight
  <2>3. ApprInv => ApprCardsClosed
    BY DEF ApprInv, ApprRowOK, ApprCardsClosed
  <2> QED  BY <2>1, <2>2, <2>3 DEF ApprInv
<1>2. ApprInv /\ [ApprNext]_apprVars => [ApprFinal]_apprVars
  BY ApprNextStep DEF ApprStep
<1> QED  BY <1>1, <1>2, ApprInvariant, PTL DEF ApprSpec, ApprPromise
=============================================================================
