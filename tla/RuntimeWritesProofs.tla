------------------------- MODULE RuntimeWritesProofs -------------------------
(***************************************************************************)
(* Proofs about RuntimeWrites for every set of operations, requests and    *)
(* resources and any number of failed saves and restarts.                  *)
(*                                                                         *)
(* The invariant speaks of one operation, of one call, and of who holds    *)
(* the gate.  What makes it inductive is that whatever a restart may read  *)
(* back (file) fits the writes made so far as well as what is remembered   *)
(* (mem) does, and that only the one call holding an operation, or a call  *)
(* that finds it unsent, changes it.                                       *)
(***************************************************************************)
EXTENDS RuntimeWrites, TLAPS

Final == {"confirmed", "partial", "not-sent", "inactive"}

\* A record claims no more than the writes allow.
RecordFits(o, r) ==
  /\ r.phase \in {"none", "not-sent", "inactive"} => sent[o] = 0
  /\ r.phase = "confirmed" => sent[o] = 1
  /\ started[o] > 0 => r.created
  /\ r.phase = "partial" /\ adapter = "tui" => started[o] = 0

\* The file may run ahead of an open record, never of a closed one.
FileFollows(o) ==
  /\ mem[o].phase \in {"confirmed", "partial", "inactive", "unknown"} => file[o] = mem[o]
  /\ mem[o].phase = "not-sent" => file[o] = mem[o] \/ (kind[o] = "interrupt" /\ file[o].phase = "writing")
  /\ mem[o].phase = "none" => file[o].phase \in {"none", "writing"}
  /\ mem[o].phase = "writing" => file[o].phase # "none"

ToldFits(o) == \A phase \in told[o] \cap Final :
  mem[o].phase = phase /\ (phase = "not-sent" => kind[o] # "interrupt")

OpInv(o) ==
  /\ sent[o] \in {0, 1} /\ started[o] \in {0, 1} /\ started[o] <= sent[o]
  /\ RecordFits(o, mem[o]) /\ RecordFits(o, file[o])
  /\ FileFollows(o)
  /\ ToldFits(o)

\* What the writes and records of its operation are while a call holds the gate.
CallInv(c) == LET o == call[c].op IN
  /\ call[c].stage # "idle" => o \in Ops /\ call[c].input \in Inputs
  /\ call[c].stage = "inspecting" => kind[o] = "interrupt"
  /\ call[c].stage \in Holding => mem[o].phase = "writing" /\ file[o].phase = "writing"
  /\ call[c].stage \in Holding => sent[o] = IF call[c].stage = "preparing" THEN 0 ELSE 1
  /\ call[c].stage \in Holding => started[o] = IF call[c].stage = "launched" THEN 1 ELSE 0
  /\ call[c].created <=> call[c].stage \in {"launching", "launched", "verifying"}
  /\ call[c].stage \in {"launching", "launched"} => mem[o].created /\ file[o].created
  /\ call[c].stage = "verifying" => adapter = "app"

\* No two calls work on one operation.
OneHolder == \A c, d \in Calls :
  c # d /\ {call[c].stage, call[d].stage} \subseteq Holding => call[c].op # call[d].op

\* The gate holds the keys of the calls between intent and outcome, each once.
KeysExclude ==
  /\ \A c, d \in Calls : (c # d /\ {call[c].stage, call[d].stage} \subseteq Holding) => Key(c) # Key(d)
  /\ gate = {Key(c) : c \in {d \in Calls : call[d].stage \in Holding}}

IInv ==
  /\ TypeOK
  /\ \A o \in Ops : OpInv(o)
  /\ \A c \in Calls : CallInv(c)
  /\ OneHolder
  /\ KeysExclude

\* A step about operation o and call c; saving o may bring the file back to memory
\* for the others of its journal.
OpFrame(o) ==
  /\ UNCHANGED fixed
  /\ \A p \in Ops \ {o} :
       /\ mem'[p] = mem[p] /\ file'[p] \in {file[p], mem[p]}
       /\ sent'[p] = sent[p] /\ started'[p] = started[p] /\ told'[p] = told[p]

CallFrame(c) == \A d \in Calls \ {c} : call'[d] = call[d]

-----------------------------------------------------------------------------
(* Saving, calls and the gate.                                              *)

LEMMA SaveEffect ==
  ASSUME TypeOK, NEW o \in Ops, NEW r \in Record, NEW ok \in BOOLEAN, Save(o, r, ok)
  PROVE  /\ mem' \in [Ops -> Record] /\ file' \in [Ops -> Record] /\ faults' \in Nat
         /\ ok => mem'[o] = r /\ file'[o] = r
         /\ ~ok => mem' = mem /\ file'[o] \in {file[o], r}
         /\ \A p \in Ops \ {o} : mem'[p] = mem[p] /\ file'[p] \in {file[p], mem[p]}
<1>1. faults' \in Nat
  BY DEF TypeOK, Save
<1>2. Rewritten(o, r) \in [Ops -> Record] /\ Rewritten(o, r)[o] = r
  BY DEF TypeOK, Rewritten
<1>3. \A p \in Ops \ {o} : Rewritten(o, r)[p] \in {file[p], mem[p]}
  BY DEF TypeOK, Rewritten
<1> HIDE DEF Record
<1>4. CASE ok
  BY <1>1, <1>2, <1>3, <1>4 DEF TypeOK, Save
<1>5. CASE ~ok
  BY <1>1, <1>2, <1>3, <1>5 DEF TypeOK, Save
<1> QED
  BY <1>4, <1>5

LEMMA CallType ==
  ASSUME TypeOK, NEW c \in Calls
  PROVE  /\ call[c] \in [stage: Stages, op: Ops \union {NoOp}, input: Inputs \union {NoInput}, created: BOOLEAN]
         /\ Idle \in [stage: Stages, op: Ops \union {NoOp}, input: Inputs \union {NoInput}, created: BOOLEAN]
  BY DEF TypeOK, Idle, Stages

LEMMA GotoEffect ==
  ASSUME TypeOK, NEW c \in Calls, NEW s \in Stages, Goto(c, s)
  PROVE  /\ CallFrame(c)
         /\ call'[c] = [call[c] EXCEPT !.stage = s]
         /\ call' \in [Calls -> [stage: Stages, op: Ops \union {NoOp}, input: Inputs \union {NoInput}, created: BOOLEAN]]
<1>1. [call[c] EXCEPT !.stage = s] \in [stage: Stages, op: Ops \union {NoOp}, input: Inputs \union {NoInput}, created: BOOLEAN]
  BY CallType
<1> QED
  BY <1>1 DEF TypeOK, Goto, CallFrame

LEMMA EndEffect ==
  ASSUME TypeOK, NEW c \in Calls, End(c)
  PROVE  /\ CallFrame(c)
         /\ call'[c] = Idle
         /\ call' \in [Calls -> [stage: Stages, op: Ops \union {NoOp}, input: Inputs \union {NoInput}, created: BOOLEAN]]
  BY CallType DEF TypeOK, End, CallFrame

LEMMA GateKept ==
  ASSUME KeysExclude, NEW c \in Calls, CallFrame(c), UNCHANGED <<kind, target, adapter, gate>>,
         call'[c].stage \in Holding <=> call[c].stage \in Holding,
         call[c].stage \in Holding => call'[c].op = call[c].op /\ call'[c].input = call[c].input
  PROVE  KeysExclude'
<1>1. \A d \in Calls : call'[d].stage \in Holding <=> call[d].stage \in Holding
  BY DEF CallFrame
<1>2. \A d \in Calls : call[d].stage \in Holding => Key(d)' = Key(d)
  BY DEF CallFrame, Key, fixed
<1> HIDE DEF Holding, Key
<1>3. {Key(d) : d \in {e \in Calls : call[e].stage \in Holding}}' = {Key(d) : d \in {e \in Calls : call[e].stage \in Holding}}
  BY <1>1, <1>2
<1> QED
  BY <1>1, <1>2, <1>3 DEF KeysExclude

LEMMA GateTaken ==
  ASSUME KeysExclude, NEW c \in Calls, CallFrame(c), UNCHANGED fixed,
         call[c].stage \notin Holding, call'[c].stage \in Holding,
         call'[c].op = call[c].op, call'[c].input = call[c].input,
         Key(c) \notin gate, gate' = gate \union {Key(c)}
  PROVE  KeysExclude'
<1>1. \A d \in Calls : call'[d].stage \in Holding <=> (d = c \/ call[d].stage \in Holding)
  BY DEF CallFrame
<1>2. \A d \in Calls : Key(d)' = Key(d)
  BY DEF CallFrame, Key, fixed
<1> HIDE DEF Holding, Key
<1>3. \A d \in Calls : call[d].stage \in Holding => Key(d) # Key(c)
  BY DEF KeysExclude
<1>4. gate' = {Key(d) : d \in {e \in Calls : call[e].stage \in Holding}}'
  BY <1>1, <1>2 DEF KeysExclude
<1> QED
  BY <1>1, <1>2, <1>3, <1>4 DEF KeysExclude

LEMMA GateGivenBack ==
  ASSUME KeysExclude, NEW c \in Calls, CallFrame(c), UNCHANGED fixed,
         call[c].stage \in Holding, call'[c].stage \notin Holding, gate' = gate \ {Key(c)}
  PROVE  KeysExclude'
<1>1. \A d \in Calls : call'[d].stage \in Holding <=> (d # c /\ call[d].stage \in Holding)
  BY DEF CallFrame
<1>2. \A d \in Calls : d # c => Key(d)' = Key(d)
  BY DEF CallFrame, Key, fixed
<1> HIDE DEF Holding, Key
<1>3. \A d \in Calls : d # c /\ call[d].stage \in Holding => Key(d) # Key(c)
  BY DEF KeysExclude
<1>4. gate' = {Key(d) : d \in {e \in Calls : call[e].stage \in Holding}}'
  BY <1>1, <1>2, <1>3 DEF KeysExclude
<1> QED
  BY <1>1, <1>2, <1>3, <1>4 DEF KeysExclude

-----------------------------------------------------------------------------
(* The shape of every preservation proof below.                             *)

\* The records of the other operations, and the calls that hold them, are kept.
LEMMA OthersKept ==
  ASSUME IInv, NEW o \in Ops, OpFrame(o)
  PROVE  \A p \in Ops \ {o} : OpInv(p)'
  BY DEF IInv, OpFrame, fixed, OpInv, RecordFits, FileFollows, ToldFits, Final

LEMMA OtherCallKept ==
  ASSUME IInv, NEW o \in Ops, OpFrame(o), NEW d \in Calls, call'[d] = call[d],
         call[d].stage \in Holding => call[d].op # o
  PROVE  CallInv(d)'
<1>1. CallInv(d)
  BY DEF IInv
<1>2. CASE call[d].stage \notin Holding
  BY <1>1, <1>2 DEF CallInv, OpFrame, fixed, Holding
<1>3. CASE call[d].stage \in Holding
  <2>1. call[d].op \in Ops \ {o}
    BY <1>1, <1>3 DEF CallInv, Holding
  <2> QED
    BY <1>1, <2>1 DEF CallInv, OpFrame, fixed, Holding
<1> QED
  BY <1>2, <1>3

\* A step about an operation by the call that holds it, or by one that finds it not
\* being written.
LEMMA StepKeeps ==
  ASSUME IInv, NEW c \in Calls, NEW o \in Ops, call[c].op = o,
         call[c].stage \in Holding \/ mem[o].phase # "writing",
         OpFrame(o), CallFrame(c), call'[c].stage \in Holding => call'[c].op = o,
         TypeOK', OpInv(o)', CallInv(c)', KeysExclude'
  PROVE  IInv'
<1>1. \A d \in Calls \ {c} : call[d].stage \in Holding => call[d].op # o
  BY DEF IInv, CallInv, OneHolder, Holding
<1>2. \A d \in Calls \ {c} : CallInv(d)'
  BY <1>1, OtherCallKept DEF CallFrame
<1>3. OneHolder'
  BY <1>1 DEF IInv, OneHolder, CallFrame
<1> QED
  BY <1>2, <1>3, OthersKept DEF IInv

\* A step of a call that holds nothing and touches no record.
LEMMA CallOnly ==
  ASSUME IInv, NEW c \in Calls, CallFrame(c), UNCHANGED <<kind, target, adapter, mem, file, gate, sent, started>>,
         call[c].stage \notin Holding, call'[c].stage \notin Holding,
         \A o \in Ops : ToldFits(o)', CallInv(c)', TypeOK'
  PROVE  IInv'
<1>1. \A o \in Ops : OpInv(o)'
  BY DEF IInv, OpInv, RecordFits, FileFollows
<1>2. \A d \in Calls : CallInv(d)'
  BY DEF IInv, CallInv, CallFrame
<1>3. OneHolder'
  BY DEF IInv, OneHolder, CallFrame
<1>4. KeysExclude'
  BY GateKept DEF IInv
<1> QED
  BY <1>1, <1>2, <1>3, <1>4 DEF IInv

-----------------------------------------------------------------------------
(* Requests that touch no record.                                           *)

LEMMA ArriveKeeps ==
  ASSUME IInv, NEW c \in Calls, NEW o \in Ops, NEW i \in Inputs, Arrive(c, o, i)
  PROVE  IInv'
<1> DEFINE new == [Idle EXCEPT !.stage = "checking", !.op = o, !.input = i]
<1>1. new \in [stage: Stages, op: Ops \union {NoOp}, input: Inputs \union {NoInput}, created: BOOLEAN]
  BY DEF Idle, Stages
<1>2. new.stage = "checking" /\ new.op = o /\ new.input = i /\ ~new.created
  BY DEF Idle
<1>3. call' = [call EXCEPT ![c] = new] /\ TypeOK /\ call[c].stage = "idle"
  BY DEF Arrive, IInv
<1>4. UNCHANGED <<kind, target, adapter, mem, file, gate, sent, started, told, access, faults>>
  BY DEF Arrive, fixed, records
<1> HIDE DEF new
<1>5. call'[c] = new /\ CallFrame(c) /\ TypeOK'
  BY <1>1, <1>3, <1>4 DEF TypeOK, CallFrame
<1>6. CallInv(c)'
  BY <1>2, <1>5 DEF CallInv, Holding
<1>7. \A p \in Ops : ToldFits(p)'
  BY <1>4 DEF IInv, OpInv, ToldFits
<1> QED
  BY <1>2, <1>3, <1>4, <1>5, <1>6, <1>7, CallOnly DEF Holding

\* A call that ends before it holds anything.
LEMMA EndKeeps ==
  ASSUME IInv, NEW c \in Calls, End(c), call[c].stage \notin Holding,
         UNCHANGED <<kind, target, adapter, mem, file, gate, access, sent, started, faults>>,
         told' \in [Ops -> SUBSET (Phases \ {"none", "writing"})],
         \A o \in Ops : ToldFits(o)'
  PROVE  IInv'
<1>1. CallFrame(c) /\ call'[c] = Idle /\ TypeOK'
  BY EndEffect DEF IInv, TypeOK
<1>2. CallInv(c)' /\ call'[c].stage \notin Holding
  BY <1>1 DEF CallInv, Idle, Holding
<1> QED
  BY <1>1, <1>2, CallOnly

LEMMA RepeatedKeeps ==
  ASSUME IInv, NEW c \in Calls, NEW o \in Ops, Repeated(c, o), call[c].stage \notin Holding,
         UNCHANGED <<kind, target, adapter, access, sent, started>>
  PROVE  IInv'
<1>1. /\ mem[o].phase # "none" /\ End(c) /\ UNCHANGED <<mem, file, faults, gate>>
      /\ told' = told \/ told' = [told EXCEPT ![o] = @ \union {Answer(o)}]
  BY DEF Repeated, Tell, records
<1>2. mem[o].phase \in Phases /\ told \in [Ops -> SUBSET (Phases \ {"none", "writing"})]
  BY DEF IInv, TypeOK, Record
<1>3. Answer(o) \in Phases \ {"none", "writing"}
  BY <1>1, <1>2 DEF Answer, Seen, Phases
<1>4. Answer(o) \in Final => mem[o].phase = Answer(o) /\ (Answer(o) = "not-sent" => kind[o] # "interrupt")
  BY DEF Answer, Seen, Final
<1>5. told' \in [Ops -> SUBSET (Phases \ {"none", "writing"})]
  BY <1>1, <1>2, <1>3
<1>6. \A p \in Ops : ToldFits(p)'
  BY <1>1, <1>2, <1>4 DEF IInv, OpInv, ToldFits
<1> QED
  BY <1>1, <1>5, <1>6, EndKeeps

LEMMA SameTold ==
  ASSUME IInv, UNCHANGED <<kind, mem, told>>
  PROVE  /\ told' \in [Ops -> SUBSET (Phases \ {"none", "writing"})]
         /\ \A o \in Ops : ToldFits(o)'
  BY DEF IInv, TypeOK, OpInv, ToldFits

-----------------------------------------------------------------------------
(* The intent.                                                              *)

LEMMA IntentFits ==
  ASSUME TypeOK, NEW c \in Calls, call[c].input \in Inputs
  PROVE  /\ Intent(c) \in Record
         /\ Intent(c).phase = "writing" /\ ~Intent(c).created
  BY DEF Intent, NoRecord, Record, Phases

\* Only an operation without a record, or an unsent interrupt, gets an intent.
Beginnable(o) == mem[o].phase = "none" \/ (mem[o].phase = "not-sent" /\ kind[o] = "interrupt")

LEMMA BeginnableUnsent ==
  ASSUME IInv, NEW o \in Ops, Beginnable(o)
  PROVE  /\ sent[o] = 0 /\ started[o] = 0 /\ mem[o].phase # "writing" /\ file[o].phase \in {"none", "writing", "not-sent"}
         /\ told[o] \cap Final = {}
<1>1. OpInv(o) /\ sent[o] \in Nat
  BY DEF IInv, TypeOK
<1> QED
  BY <1>1 DEF OpInv, RecordFits, FileFollows, ToldFits, Beginnable, Final

\* A save about the operation of a call moves no other record.
LEMMA SaveFrame ==
  ASSUME TypeOK, NEW o \in Ops, NEW r \in Record, NEW ok \in BOOLEAN, Save(o, r, ok),
         UNCHANGED fixed, UNCHANGED <<sent, started>>,
         \A p \in Ops \ {o} : told'[p] = told[p]
  PROVE  OpFrame(o)
  BY SaveEffect DEF OpFrame

\* The intent is saved, or it is not and the call ends.
LEMMA AdmitKeeps ==
  ASSUME IInv, NEW c \in Calls, NEW o \in Ops, call[c].op = o, call[c].input \in Inputs,
         call[c].stage \notin Holding, ~call[c].created, Beginnable(o), Key(c) \notin gate, Admit(c, o),
         UNCHANGED fixed, UNCHANGED <<access, sent, started, told>>
  PROVE  IInv'
<1> DEFINE r == Intent(c)
<1>1. r \in Record /\ r.phase = "writing" /\ ~r.created
  BY IntentFits DEF IInv
<1>2. PICK ok \in BOOLEAN : /\ Save(o, r, ok)
                            /\ ok => Goto(c, "preparing") /\ gate' = gate \union {Key(c)}
                            /\ ~ok => End(c) /\ UNCHANGED gate
  BY DEF Admit
<1> HIDE DEF r
<1>3. TypeOK /\ OpInv(o) /\ KeysExclude
  BY DEF IInv
<1>4. OpFrame(o)
  BY <1>1, <1>2, <1>3, SaveFrame
<1>5. /\ mem' \in [Ops -> Record] /\ file' \in [Ops -> Record] /\ faults' \in Nat
      /\ ok => mem'[o] = r /\ file'[o] = r
      /\ ~ok => mem' = mem /\ file'[o] \in {file[o], r}
  BY <1>1, <1>2, <1>3, SaveEffect
<1>6. /\ sent[o] = 0 /\ started[o] = 0 /\ mem[o].phase # "writing" /\ file[o].phase \in {"none", "writing", "not-sent"}
      /\ told[o] \cap Final = {}
  BY BeginnableUnsent
<1>7. OpInv(o)'
  <2>1. CASE ok
    BY <1>1, <1>3, <1>5, <1>6, <2>1 DEF OpInv, RecordFits, FileFollows, ToldFits
  <2>2. CASE ~ok
    BY <1>1, <1>3, <1>5, <1>6, <2>2 DEF OpInv, RecordFits, FileFollows, ToldFits, Beginnable, fixed
  <2> QED
    BY <2>1, <2>2
<1>8. gate \subseteq BOOLEAN \X Resources /\ Key(c) \in BOOLEAN \X Resources
  <2>1. target[call[c].input] \in Resources
    BY <1>3 DEF TypeOK
  <2>2. (kind[call[c].op] = "create") \in BOOLEAN
    OBVIOUS
  <2> QED
    BY <1>3, <2>1, <2>2, Zenon DEF TypeOK, Key
<1>9. CASE ok
  <2>1. Goto(c, "preparing") /\ gate' = gate \union {Key(c)}
    BY <1>2, <1>9
  <2>2. CallFrame(c) /\ call'[c] = [call[c] EXCEPT !.stage = "preparing"] /\ TypeOK'
    <3>1. "preparing" \in Stages
      BY DEF Stages
    <3>2. gate' \subseteq BOOLEAN \X Resources
      BY <1>8, <2>1
    <3> QED
      BY <1>3, <1>5, <2>1, <3>1, <3>2, GotoEffect DEF TypeOK, fixed
  <2>3. call'[c].stage = "preparing" /\ call'[c].op = o /\ call'[c].input = call[c].input /\ ~call'[c].created
    BY <1>3, <2>2, CallType
  <2>4. KeysExclude'
    BY <1>3, <2>1, <2>2, <2>3, GateTaken DEF Holding, fixed
  <2>5. CallInv(c)'
    BY <1>1, <1>5, <1>6, <1>9, <2>3, <2>2 DEF CallInv, Holding, TypeOK
  <2> QED
    BY <1>4, <1>6, <1>7, <2>2, <2>3, <2>4, <2>5, StepKeeps
<1>10. CASE ~ok
  <2>1. End(c) /\ UNCHANGED gate
    BY <1>2, <1>10
  <2>2. CallFrame(c) /\ call'[c] = Idle /\ TypeOK'
    BY <1>3, <1>5, <2>1, EndEffect DEF TypeOK, fixed
  <2>3. CallInv(c)' /\ call'[c].stage \notin Holding
    BY <2>2 DEF CallInv, Idle, Holding
  <2>4. KeysExclude'
    BY <1>3, <2>1, <2>2, <2>3, GateKept DEF fixed
  <2> QED
    BY <1>4, <1>6, <1>7, <2>2, <2>3, <2>4, StepKeeps
<1> QED
  BY <1>9, <1>10

LEMMA EnterKeeps ==
  ASSUME IInv, NEW c \in Calls, Enter(c)
  PROVE  IInv'
<1> DEFINE o == call[c].op
<1>1. /\ call[c].stage = "checking" /\ UNCHANGED fixed /\ UNCHANGED <<access, sent, started>>
  BY DEF Enter
<1>2. o \in Ops /\ call[c].input \in Inputs /\ call[c].stage \notin Holding /\ ~call[c].created
  BY <1>1 DEF IInv, CallInv, Holding
<1>3. \/ Repeated(c, o)
      \/ mem[o].phase = "none" /\ End(c) /\ UNCHANGED <<records, gate, told>>
      \/ mem[o].phase = "none" /\ Key(c) \notin gate /\ Admit(c, o) /\ UNCHANGED told
  BY DEF Enter
<1>4. CASE Repeated(c, o)
  BY <1>1, <1>2, <1>4, RepeatedKeeps DEF fixed
<1>5. CASE mem[o].phase = "none" /\ End(c) /\ UNCHANGED <<records, gate, told>>
  BY <1>1, <1>2, <1>5, SameTold, EndKeeps DEF fixed, records
<1>6. CASE mem[o].phase = "none" /\ Key(c) \notin gate /\ Admit(c, o) /\ UNCHANGED told
  BY <1>1, <1>2, <1>6, AdmitKeeps DEF Beginnable
<1> QED
  BY <1>3, <1>4, <1>5, <1>6

LEMMA CheckInterruptKeeps ==
  ASSUME IInv, NEW c \in Calls, CheckInterrupt(c)
  PROVE  IInv'
<1> DEFINE o == call[c].op
<1>1. /\ call[c].stage = "checking" /\ UNCHANGED fixed /\ UNCHANGED <<access, sent, started>> /\ kind[o] = "interrupt"
  BY DEF CheckInterrupt
<1>2. o \in Ops /\ call[c].input \in Inputs /\ call[c].stage \notin Holding /\ ~call[c].created
  BY <1>1 DEF IInv, CallInv, Holding
<1>3. CASE Repeated(c, o)
  BY <1>1, <1>2, <1>3, RepeatedKeeps DEF fixed
<1>4. CASE Goto(c, "inspecting") /\ UNCHANGED <<records, gate, told>>
  <2>1. CallFrame(c) /\ call'[c] = [call[c] EXCEPT !.stage = "inspecting"] /\ TypeOK'
    <3>1. "inspecting" \in Stages /\ TypeOK
      BY DEF Stages, IInv
    <3> QED
      BY <1>1, <1>4, <3>1, GotoEffect DEF TypeOK, fixed, records
  <2>2. call'[c].stage = "inspecting" /\ call'[c].op = o /\ call'[c].input = call[c].input /\ ~call'[c].created
    BY <1>2, <2>1, CallType DEF IInv
  <2>3. CallInv(c)' /\ call'[c].stage \notin Holding
    BY <1>1, <1>2, <2>2 DEF CallInv, Holding, fixed
  <2>4. \A p \in Ops : ToldFits(p)'
    BY <1>1, <1>4, SameTold DEF fixed, records
  <2> QED
    BY <1>1, <1>2, <1>4, <2>1, <2>3, <2>4, CallOnly DEF fixed, records
<1> QED
  BY <1>3, <1>4 DEF CheckInterrupt

\* The intent of an interrupt that finds the gate taken is withdrawn.
LEMMA WithdrawnKeeps ==
  ASSUME IInv, NEW c \in Calls, NEW o \in Ops, call[c].op = o, call[c].input \in Inputs,
         call[c].stage \notin Holding, Beginnable(o), kind[o] = "interrupt",
         mem' \in [Ops -> Record], file' \in [Ops -> Record], faults' \in Nat,
         mem'[o].phase \in {"none", "writing", "not-sent"},
         mem'[o].phase = "none" => mem[o].phase = "none",
         file'[o].phase \in {"none", "writing", "not-sent"},
         mem'[o].phase = "none" => file'[o].phase \in {"none", "writing"},
         mem'[o].phase = "writing" => file'[o].phase # "none",
         mem'[o].phase = "not-sent" => file'[o] = mem'[o] \/ file'[o].phase = "writing",
         OpFrame(o), End(c), UNCHANGED fixed, UNCHANGED <<access, sent, started, told, gate>>
  PROVE  IInv'
<1>1. TypeOK /\ OpInv(o) /\ KeysExclude
  BY DEF IInv
<1>2. CallFrame(c) /\ call'[c] = Idle /\ TypeOK'
  BY <1>1, EndEffect DEF TypeOK, fixed
<1>3. CallInv(c)' /\ call'[c].stage \notin Holding
  BY <1>2 DEF CallInv, Idle, Holding
<1>4. sent[o] = 0 /\ started[o] = 0 /\ mem[o].phase # "writing" /\ told[o] \cap Final = {}
  BY BeginnableUnsent
<1>5. OpInv(o)'
  BY <1>1, <1>4 DEF OpInv, RecordFits, FileFollows, ToldFits, fixed
<1>6. KeysExclude'
  BY <1>1, <1>2, <1>3, GateKept DEF fixed
<1> QED
  BY <1>2, <1>3, <1>4, <1>5, <1>6, StepKeeps

LEMMA BeginInterruptKeeps ==
  ASSUME IInv, NEW c \in Calls, BeginInterrupt(c)
  PROVE  IInv'
<1> DEFINE o == call[c].op
           r == Intent(c)
           refused == [Intent(c) EXCEPT !.phase = "not-sent"]
<1>1. /\ call[c].stage = "inspecting" /\ UNCHANGED fixed /\ UNCHANGED <<access, sent, started>>
  BY DEF BeginInterrupt
<1>2. /\ o \in Ops /\ call[c].input \in Inputs /\ call[c].stage \notin Holding /\ ~call[c].created
      /\ kind[o] = "interrupt" /\ TypeOK /\ OpInv(o)
  BY <1>1 DEF IInv, CallInv, Holding
<1>3. CASE Repeated(c, o)
  BY <1>1, <1>2, <1>3, RepeatedKeeps DEF fixed
<1>4. CASE Beginnable(o) /\ Begun(c, o) /\ UNCHANGED told
  <2>1. CASE Key(c) \notin gate /\ Admit(c, o)
    BY <1>1, <1>2, <1>4, <2>1, AdmitKeeps
  <2>2. r \in Record /\ r.phase = "writing" /\ refused \in Record /\ refused.phase = "not-sent"
    BY <1>2, IntentFits DEF Record, Phases
  <2>3. mem[o].phase \in {"none", "not-sent"} /\ file[o].phase \in {"none", "writing", "not-sent"}
    BY <1>2, <1>4, BeginnableUnsent DEF Beginnable
  <2> HIDE DEF r, refused
  <2>4. CASE Save(o, r, FALSE) /\ End(c) /\ UNCHANGED gate
    <3>1. /\ mem' \in [Ops -> Record] /\ file' \in [Ops -> Record] /\ faults' \in Nat
          /\ mem' = mem /\ file'[o] \in {file[o], r}
      BY <1>2, <2>2, <2>4, SaveEffect
    <3>2. OpFrame(o)
      BY <1>1, <1>2, <1>4, <2>2, <2>4, SaveFrame
    <3> QED
      BY <1>1, <1>2, <1>4, <2>2, <2>3, <2>4, <3>1, <3>2, WithdrawnKeeps DEF OpInv, FileFollows
  <2>5. CASE Save(o, refused, TRUE) /\ End(c) /\ UNCHANGED gate
    <3>1. /\ mem' \in [Ops -> Record] /\ file' \in [Ops -> Record] /\ faults' \in Nat
          /\ mem'[o] = refused /\ file'[o] = refused
      BY <1>2, <2>2, <2>5, SaveEffect
    <3>2. OpFrame(o)
      BY <1>1, <1>2, <1>4, <2>2, <2>5, SaveFrame
    <3> QED
      BY <1>1, <1>2, <1>4, <2>2, <2>5, <3>1, <3>2, WithdrawnKeeps
  <2>6. CASE /\ faults' = faults + 1 /\ mem' = [mem EXCEPT ![o] = r]
             /\ file' \in {Rewritten(o, r), Rewritten(o, refused)}
             /\ End(c) /\ UNCHANGED gate
    <3>1. /\ Rewritten(o, r) \in [Ops -> Record] /\ Rewritten(o, r)[o] = r
          /\ Rewritten(o, refused) \in [Ops -> Record] /\ Rewritten(o, refused)[o] = refused
      BY <1>2, <2>2 DEF TypeOK, Rewritten
    <3>2. \A p \in Ops \ {o} : Rewritten(o, r)[p] \in {file[p], mem[p]} /\ Rewritten(o, refused)[p] \in {file[p], mem[p]}
      BY DEF Rewritten
    <3> HIDE DEF Record
    <3>3. /\ mem' \in [Ops -> Record] /\ file' \in [Ops -> Record] /\ faults' \in Nat
          /\ mem'[o] = r /\ file'[o] \in {r, refused}
      BY <1>2, <2>2, <2>6, <3>1 DEF TypeOK
    <3>4. OpFrame(o)
      BY <1>1, <1>2, <1>4, <2>6, <3>2 DEF OpFrame, TypeOK
    <3> QED
      BY <1>1, <1>2, <1>4, <2>2, <2>6, <3>3, <3>4, WithdrawnKeeps
  <2> QED
    BY <1>4, <2>1, <2>4, <2>5, <2>6 DEF Begun, r, refused
<1> QED
  BY <1>2, <1>3, <1>4 DEF BeginInterrupt, Beginnable

-----------------------------------------------------------------------------
(* The adapter.                                                             *)

\* What a call that holds the gate knows of its operation.
LEMMA HolderKnows ==
  ASSUME IInv, NEW c \in Calls, call[c].stage \in Holding
  PROVE  /\ call[c].op \in Ops /\ call[c].input \in Inputs /\ TypeOK /\ OpInv(call[c].op) /\ KeysExclude
         /\ mem[call[c].op].phase = "writing" /\ file[call[c].op].phase = "writing"
         /\ told[call[c].op] \cap Final = {}
         /\ call[c].created <=> call[c].stage \in {"launching", "launched", "verifying"}
         /\ sent[call[c].op] = IF call[c].stage = "preparing" THEN 0 ELSE 1
         /\ started[call[c].op] = IF call[c].stage = "launched" THEN 1 ELSE 0
<1>1. CallInv(c) /\ TypeOK /\ KeysExclude
  BY DEF IInv
<1>2. call[c].op \in Ops /\ mem[call[c].op].phase = "writing"
  BY <1>1 DEF CallInv, Holding
<1>3. OpInv(call[c].op)
  BY <1>2 DEF IInv
<1>4. told[call[c].op] \cap Final = {}
  BY <1>2, <1>3 DEF OpInv, ToldFits, Final
<1> QED
  BY <1>1, <1>2, <1>3, <1>4 DEF CallInv, Holding

LEMMA SettleKeeps ==
  ASSUME IInv, NEW c \in Calls, NEW phase \in Phases \ {"none", "writing"},
         call[c].stage \in Holding, Settle(c, phase),
         UNCHANGED fixed, UNCHANGED <<access, sent, started>>,
         phase \in {"not-sent", "inactive"} => call[c].stage = "preparing",
         phase = "confirmed" => call[c].stage # "preparing",
         phase = "partial" => call[c].stage # "launched"
  PROVE  IInv'
<1>0. PICK o \in Ops : o = call[c].op
  BY HolderKnows
<1>1. /\ o = call[c].op /\ call[c].input \in Inputs /\ TypeOK /\ OpInv(o) /\ KeysExclude
      /\ mem[o].phase = "writing" /\ file[o].phase = "writing" /\ told[o] \cap Final = {}
      /\ call[c].created <=> call[c].stage \in {"launching", "launched", "verifying"}
      /\ sent[o] = IF call[c].stage = "preparing" THEN 0 ELSE 1
      /\ started[o] = IF call[c].stage = "launched" THEN 1 ELSE 0
  BY <1>0, HolderKnows
<1>2. PICK r \in Record : r = Outcome(c, phase) /\ r.phase = phase /\ r.created = call[c].created
  <2>1. call[c].created \in BOOLEAN
    BY <1>1, CallType
  <2>2. Intent(c) \in Record
    BY <1>1, IntentFits
  <2>3. /\ Outcome(c, phase) \in Record
        /\ Outcome(c, phase).phase = phase /\ Outcome(c, phase).created = call[c].created
    BY <2>1, <2>2 DEF Outcome, Record
  <2> QED
    BY <2>3
<1>3. PICK ok \in BOOLEAN :
        /\ Save(o, r, ok)
        /\ \/ told' = told
           \/ ok /\ told' = [told EXCEPT ![o] = @ \union {phase}] /\ (phase = "not-sent" => kind[o] # "interrupt")
  BY <1>1, <1>2 DEF Settle, Tell
<1>4. gate' = gate \ {Key(c)} /\ End(c)
  BY DEF Settle
<1>5. /\ mem' \in [Ops -> Record] /\ file' \in [Ops -> Record] /\ faults' \in Nat
      /\ ok => mem'[o] = r /\ file'[o] = r
      /\ ~ok => mem' = mem /\ file'[o] \in {file[o], r}
  BY <1>1, <1>2, <1>3, SaveEffect
<1>6. /\ told' \in [Ops -> SUBSET (Phases \ {"none", "writing"})]
      /\ \A p \in Ops \ {o} : told'[p] = told[p]
      /\ told'[o] = told[o] \/ (ok /\ told'[o] = told[o] \union {phase} /\ (phase = "not-sent" => kind[o] # "interrupt"))
  BY <1>1, <1>3 DEF TypeOK
<1>7. OpFrame(o)
  BY <1>1, <1>2, <1>3, <1>6, SaveFrame
<1>8. RecordFits(o, r)'
  BY <1>1, <1>2 DEF RecordFits, fixed
<1>9. OpInv(o)'
  <2>1. CASE ok
    BY <1>1, <1>2, <1>5, <1>6, <1>8, <2>1 DEF OpInv, RecordFits, FileFollows, ToldFits, fixed, Final
  <2>2. CASE ~ok
    BY <1>1, <1>2, <1>5, <1>6, <1>8, <2>2 DEF OpInv, RecordFits, FileFollows, ToldFits, fixed, Final
  <2> QED
    BY <2>1, <2>2
<1>10. CallFrame(c) /\ call'[c] = Idle /\ TypeOK'
  BY <1>1, <1>4, <1>5, <1>6, EndEffect DEF TypeOK, fixed
<1>11. CallInv(c)' /\ call'[c].stage \notin Holding
  BY <1>10 DEF CallInv, Idle, Holding
<1>12. KeysExclude'
  BY <1>1, <1>4, <1>10, <1>11, GateGivenBack
<1> QED
  BY <1>1, <1>7, <1>9, <1>10, <1>11, <1>12, StepKeeps

LEMMA FailureFits ==
  ASSUME NEW c \in Calls, NEW crossed \in BOOLEAN, NEW error \in Errors,
         call[c].stage = "launched" => error = "unknown",
         call[c].stage = "waiting" => error = "unknown",
         call[c].stage \in {"launching", "launched", "verifying"} => call[c].created
  PROVE  LET phase == Failure(c, crossed, error) IN
         /\ phase \in Phases \ {"none", "writing", "confirmed", "inactive"}
         /\ phase = "not-sent" => call[c].stage \notin {"waiting", "launching", "launched", "verifying"}
         /\ phase = "partial" => call[c].stage # "launched"
  BY DEF Failure, Phases, Errors

LEMMA AdapterEnds ==
  ASSUME IInv, NEW c \in Calls,
         PrepareFails(c) \/ NothingToStop(c) \/ ClosedAtWrite(c) \/ Confirmed(c) \/ WriteUnanswered(c) \/ VerifyFails(c)
  PROVE  IInv'
<1>1. PICK phase \in Phases \ {"none", "writing"} :
        /\ Settle(c, phase) /\ call[c].stage \in Holding
        /\ phase \in {"not-sent", "inactive"} => call[c].stage = "preparing"
        /\ phase = "confirmed" => call[c].stage # "preparing"
        /\ phase = "partial" => call[c].stage # "launched"
  <2>0. call[c].stage \in Holding => (call[c].created <=> call[c].stage \in {"launching", "launched", "verifying"})
    BY HolderKnows
  <2>1. CASE PrepareFails(c)
    <3>1. PICK error \in Errors : Settle(c, Failure(c, call[c].created, error))
      BY <2>1 DEF PrepareFails
    <3>2. call[c].stage \in {"preparing", "launching"} /\ call[c].created \in BOOLEAN
      BY <2>1, CallType DEF PrepareFails, IInv
    <3> QED
      BY <2>0, <3>1, <3>2, FailureFits DEF Holding
  <2>2. CASE NothingToStop(c)
    BY <2>2 DEF NothingToStop, Phases, Holding
  <2>3. CASE ClosedAtWrite(c)
    <3>1. call[c].stage \in {"preparing", "launching"} /\ Settle(c, Failure(c, TRUE, "not-sent")) /\ "not-sent" \in Errors
      BY <2>3 DEF ClosedAtWrite, Errors
    <3> QED
      BY <2>0, <3>1, FailureFits DEF Holding
  <2>4. CASE Confirmed(c)
    BY <2>4 DEF Confirmed, Phases, Holding
  <2>5. CASE WriteUnanswered(c)
    <3>1. call[c].stage \in {"waiting", "launched"} /\ Settle(c, Failure(c, TRUE, "unknown")) /\ "unknown" \in Errors
      BY <2>5 DEF WriteUnanswered, Errors
    <3> QED
      BY <2>0, <3>1, FailureFits DEF Holding
  <2>6. CASE VerifyFails(c)
    <3>1. PICK error \in Errors : Settle(c, Failure(c, TRUE, error))
      BY <2>6 DEF VerifyFails
    <3>2. call[c].stage = "verifying"
      BY <2>6 DEF VerifyFails
    <3> QED
      BY <2>0, <3>1, <3>2, FailureFits DEF Holding
  <2> QED
    BY <2>1, <2>2, <2>3, <2>4, <2>5, <2>6
<1>2. UNCHANGED fixed /\ UNCHANGED <<access, sent, started>>
  BY DEF PrepareFails, NothingToStop, ClosedAtWrite, Confirmed, WriteUnanswered, VerifyFails
<1> QED
  BY <1>1, <1>2, SettleKeeps

LEMMA WriteKeeps ==
  ASSUME IInv, NEW c \in Calls, Write(c)
  PROVE  IInv'
<1>0. call[c].stage = "preparing" /\ call[c].stage \in Holding
  BY DEF Write, Holding
<1>1. PICK o \in Ops : o = call[c].op
  BY <1>0, HolderKnows
<1>2. /\ call[c].input \in Inputs /\ TypeOK /\ OpInv(o) /\ KeysExclude /\ ~call[c].created
      /\ mem[o].phase = "writing" /\ file[o].phase = "writing" /\ sent[o] = 0 /\ started[o] = 0
  BY <1>0, <1>1, HolderKnows
<1>3. /\ UNCHANGED fixed /\ UNCHANGED <<mem, file, faults, gate, access, started, told>>
      /\ Goto(c, "waiting") /\ sent' = [sent EXCEPT ![o] = @ + 1]
  BY <1>1 DEF Write, records
<1>4. sent' \in [Ops -> Nat] /\ sent'[o] = 1 /\ \A p \in Ops \ {o} : sent'[p] = sent[p]
  BY <1>2, <1>3 DEF TypeOK
<1>5. OpFrame(o)
  BY <1>3, <1>4 DEF OpFrame
<1>6. CallFrame(c) /\ call'[c] = [call[c] EXCEPT !.stage = "waiting"] /\ TypeOK'
  <2>1. "waiting" \in Stages
    BY DEF Stages
  <2> QED
    BY <1>2, <1>3, <1>4, <2>1, GotoEffect DEF TypeOK, fixed
<1>7. call'[c].stage = "waiting" /\ call'[c].op = o /\ call'[c].input = call[c].input /\ ~call'[c].created
  BY <1>1, <1>2, <1>6, CallType
<1>8. OpInv(o)'
  BY <1>2, <1>3, <1>4 DEF OpInv, RecordFits, FileFollows, ToldFits, fixed
<1>9. CallInv(c)'
  BY <1>2, <1>3, <1>4, <1>7 DEF CallInv, Holding
<1>10. KeysExclude'
  BY <1>0, <1>1, <1>2, <1>3, <1>6, <1>7, GateKept DEF Holding, fixed
<1> QED
  BY <1>0, <1>1, <1>5, <1>6, <1>7, <1>8, <1>9, <1>10, StepKeeps

LEMMA LaunchKeeps ==
  ASSUME IInv, NEW c \in Calls, Launch(c)
  PROVE  IInv'
<1>0. call[c].stage = "launching" /\ call[c].stage \in Holding
  BY DEF Launch, Holding
<1>1. PICK o \in Ops : o = call[c].op
  BY <1>0, HolderKnows
<1>2. /\ call[c].input \in Inputs /\ TypeOK /\ OpInv(o) /\ KeysExclude /\ call[c].created
      /\ mem[o].phase = "writing" /\ file[o].phase = "writing" /\ sent[o] = 1 /\ started[o] = 0
      /\ mem[o].created /\ file[o].created
  BY <1>0, <1>1, HolderKnows DEF IInv, CallInv
<1>3. /\ UNCHANGED fixed /\ UNCHANGED <<mem, file, faults, gate, access, sent, told>>
      /\ Goto(c, "launched") /\ started' = [started EXCEPT ![o] = @ + 1]
  BY <1>1 DEF Launch, records
<1>4. started' \in [Ops -> Nat] /\ started'[o] = 1 /\ \A p \in Ops \ {o} : started'[p] = started[p]
  BY <1>2, <1>3 DEF TypeOK
<1>5. OpFrame(o)
  BY <1>3, <1>4 DEF OpFrame
<1>6. CallFrame(c) /\ call'[c] = [call[c] EXCEPT !.stage = "launched"] /\ TypeOK'
  <2>1. "launched" \in Stages
    BY DEF Stages
  <2> QED
    BY <1>2, <1>3, <1>4, <2>1, GotoEffect DEF TypeOK, fixed
<1>7. call'[c].stage = "launched" /\ call'[c].op = o /\ call'[c].input = call[c].input /\ call'[c].created
  BY <1>1, <1>2, <1>6, CallType
<1>8. OpInv(o)'
  BY <1>2, <1>3, <1>4 DEF OpInv, RecordFits, FileFollows, ToldFits, fixed
<1>9. CallInv(c)'
  BY <1>2, <1>3, <1>4, <1>7 DEF CallInv, Holding
<1>10. KeysExclude'
  BY <1>0, <1>1, <1>2, <1>3, <1>6, <1>7, GateKept DEF Holding, fixed
<1> QED
  BY <1>0, <1>1, <1>5, <1>6, <1>7, <1>8, <1>9, <1>10, StepKeeps

\* The created resource is on record, or the create has ended.
LEMMA CreatedKeeps ==
  ASSUME IInv, NEW c \in Calls, Created(c)
  PROVE  IInv'
<1>0. call[c].stage = "waiting" /\ call[c].stage \in Holding
  BY DEF Created, Holding
<1>1. PICK o \in Ops : o = call[c].op
  BY <1>0, HolderKnows
<1>2. /\ call[c].input \in Inputs /\ TypeOK /\ OpInv(o) /\ KeysExclude /\ ~call[c].created
      /\ mem[o].phase = "writing" /\ file[o].phase = "writing" /\ sent[o] = 1 /\ started[o] = 0
      /\ told[o] \cap Final = {}
  BY <1>0, <1>1, HolderKnows
<1>3. PICK row \in Record : row = [Intent(c) EXCEPT !.created = TRUE] /\ row.phase = "writing" /\ row.created
  <2>1. [Intent(c) EXCEPT !.created = TRUE] \in Record
    BY <1>2, IntentFits DEF Record
  <2>2. [Intent(c) EXCEPT !.created = TRUE].phase = "writing" /\ [Intent(c) EXCEPT !.created = TRUE].created
    BY <1>2, IntentFits DEF Record
  <2> QED
    BY <2>1, <2>2
<1>4. PICK lost \in Record : lost = [row EXCEPT !.phase = "unknown"] /\ lost.phase = "unknown" /\ lost.created
  <2>1. [row EXCEPT !.phase = "unknown"] \in Record
    BY <1>3 DEF Record, Phases
  <2>2. [row EXCEPT !.phase = "unknown"].phase = "unknown" /\ [row EXCEPT !.phase = "unknown"].created
    BY <1>3 DEF Record
  <2> QED
    BY <2>1, <2>2
<1>5. UNCHANGED fixed /\ UNCHANGED <<access, sent, started>>
  BY DEF Created
<1>6. /\ Rewritten(o, row) \in [Ops -> Record] /\ Rewritten(o, row)[o] = row
      /\ Rewritten(o, lost) \in [Ops -> Record] /\ Rewritten(o, lost)[o] = lost
      /\ \A p \in Ops \ {o} : Rewritten(o, row)[p] \in {file[p], mem[p]} /\ Rewritten(o, lost)[p] \in {file[p], mem[p]}
  BY <1>2 DEF TypeOK, Rewritten
<1>7. CASE /\ Save(o, row, TRUE)
           /\ call' = [call EXCEPT ![c].created = TRUE, ![c].stage = IF adapter = "tui" THEN "launching" ELSE "verifying"]
           /\ UNCHANGED <<gate, told>>
  <2>1. /\ mem' \in [Ops -> Record] /\ file' \in [Ops -> Record] /\ faults' \in Nat
        /\ mem'[o] = row /\ file'[o] = row
    BY <1>2, <1>7, SaveEffect
  <2>2. OpFrame(o)
    BY <1>2, <1>5, <1>7, SaveFrame
  <2> DEFINE s == IF adapter = "tui" THEN "launching" ELSE "verifying"
  <2>3. s \in Stages /\ s \in Holding
    BY DEF Stages, Holding
  <2>4. PICK new : new = [call[c] EXCEPT !.created = TRUE, !.stage = s]
    OBVIOUS
  <2>5. /\ new \in [stage: Stages, op: Ops \union {NoOp}, input: Inputs \union {NoInput}, created: BOOLEAN]
        /\ new.stage = s /\ new.created /\ new.op = o /\ new.input = call[c].input
    BY <1>1, <1>2, <2>3, <2>4, CallType
  <2>6. call' = [call EXCEPT ![c] = new]
    BY <1>7, <2>4
  <2>7. call'[c] = new /\ CallFrame(c) /\ call' \in [Calls -> [stage: Stages, op: Ops \union {NoOp}, input: Inputs \union {NoInput}, created: BOOLEAN]]
    BY <1>2, <2>5, <2>6 DEF TypeOK, CallFrame
  <2>8. TypeOK'
    BY <1>2, <1>5, <1>7, <2>1, <2>7 DEF TypeOK, fixed
  <2>9. OpInv(o)'
    BY <1>2, <1>3, <1>5, <1>7, <2>1 DEF OpInv, RecordFits, FileFollows, ToldFits, fixed
  <2>10. adapter' = adapter /\ adapter \in {"tui", "app"}
    BY <1>2, <1>5 DEF TypeOK, fixed
  <2>11. CallInv(c)'
    BY <1>2, <1>3, <1>5, <2>1, <2>5, <2>7, <2>10 DEF CallInv, Holding
  <2>12. KeysExclude'
    BY <1>0, <1>1, <1>2, <1>5, <1>7, <2>3, <2>5, <2>7, GateKept DEF fixed
  <2> QED
    BY <1>0, <1>1, <2>2, <2>5, <2>7, <2>8, <2>9, <2>11, <2>12, StepKeeps
<1>8. CASE /\ gate' = gate \ {Key(c)} /\ End(c)
           /\ \/ /\ faults' = faults + 1
                 /\ mem' = [mem EXCEPT ![o] = lost]
                 /\ file' = Rewritten(o, lost)
                 /\ Tell(o, "unknown")
              \/ /\ faults' = faults + 2
                 /\ file' \in {file, Rewritten(o, row), Rewritten(o, lost)}
                 /\ UNCHANGED <<mem, told>>
  <2>1. /\ mem' \in [Ops -> Record] /\ file' \in [Ops -> Record] /\ faults' \in Nat
        /\ \/ mem'[o] = lost /\ file'[o] = lost
           \/ mem'[o] = mem[o] /\ file'[o] \in {file[o], row, lost}
        /\ \A p \in Ops \ {o} : mem'[p] = mem[p] /\ file'[p] \in {file[p], mem[p]}
    <3> HIDE DEF Record
    <3> QED
      BY <1>2, <1>6, <1>8 DEF TypeOK
  <2>2. /\ told' \in [Ops -> SUBSET (Phases \ {"none", "writing"})]
        /\ \A p \in Ops \ {o} : told'[p] = told[p]
        /\ told'[o] \in {told[o], told[o] \union {"unknown"}}
    <3>1. "unknown" \in Phases \ {"none", "writing"}
      BY DEF Phases
    <3> QED
      BY <1>2, <1>8, <3>1 DEF TypeOK, Tell
  <2>3. OpFrame(o)
    BY <1>5, <2>1, <2>2 DEF OpFrame
  <2>4. OpInv(o)'
    <3>1. told'[o] \cap Final = {}
      BY <1>2, <2>2 DEF Final
    <3> QED
      BY <1>2, <1>3, <1>4, <1>5, <2>1, <3>1 DEF OpInv, RecordFits, FileFollows, ToldFits, fixed
  <2>5. CallFrame(c) /\ call'[c] = Idle /\ TypeOK'
    BY <1>2, <1>5, <1>8, <2>1, <2>2, EndEffect DEF TypeOK, fixed
  <2>6. CallInv(c)' /\ call'[c].stage \notin Holding
    BY <2>5 DEF CallInv, Idle, Holding
  <2>7. KeysExclude'
    BY <1>0, <1>2, <1>5, <1>8, <2>5, <2>6, GateGivenBack
  <2> QED
    BY <1>0, <1>1, <2>3, <2>4, <2>5, <2>6, <2>7, StepKeeps
<1> QED
  BY <1>1, <1>3, <1>4, <1>7, <1>8 DEF Created

-----------------------------------------------------------------------------
(* The rest of the next-state relation.                                     *)

LEMMA AccessKeeps ==
  ASSUME IInv, NEW o \in Ops, AccessChanges(o)
  PROVE  IInv'
<1>1. UNCHANGED <<kind, target, adapter, mem, file, faults, gate, call, sent, started, told>>
  BY DEF AccessChanges, fixed, records
<1>2. access' \subseteq Ops
  BY DEF AccessChanges, IInv, TypeOK
<1> QED
  BY <1>1, <1>2 DEF IInv, TypeOK, OpInv, RecordFits, FileFollows, ToldFits, CallInv, OneHolder, KeysExclude, Key

\* What a restart reads fits what was written and told.
LEMMA RestartKeeps ==
  ASSUME IInv, Restart
  PROVE  IInv'
<1>1. /\ mem' = file /\ gate' = {} /\ call' = [c \in Calls |-> Idle] /\ faults' = faults + 1
      /\ UNCHANGED <<kind, target, adapter, file, access, sent, started, told>>
  BY DEF Restart, fixed
<1>2. Idle \in [stage: Stages, op: Ops \union {NoOp}, input: Inputs \union {NoInput}, created: BOOLEAN]
  BY DEF Idle, Stages
<1>3. TypeOK'
  BY <1>1, <1>2 DEF IInv, TypeOK
<1>4. \A c \in Calls : call'[c].stage = "idle" /\ ~call'[c].created
  BY <1>1 DEF Idle
<1>5. \A c \in Calls : CallInv(c)'
  BY <1>4 DEF CallInv, Holding
<1>6. OneHolder' /\ KeysExclude'
  BY <1>1, <1>4 DEF OneHolder, KeysExclude, Holding
<1>7. ASSUME NEW o \in Ops
      PROVE  OpInv(o)'
  <2>1. OpInv(o) /\ file[o].phase \in Phases
    BY DEF IInv, TypeOK, Record
  <2>2. ToldFits(o)'
    BY <1>1, <2>1 DEF OpInv, FileFollows, ToldFits, Final
  <2> QED
    BY <1>1, <2>1, <2>2 DEF OpInv, RecordFits, FileFollows, Phases
<1> QED
  BY <1>3, <1>5, <1>6, <1>7 DEF IInv

LEMMA StutterKeeps ==
  ASSUME IInv, UNCHANGED vars
  PROVE  IInv'
  BY DEF vars, IInv, TypeOK, OpInv, RecordFits, FileFollows, ToldFits, CallInv, OneHolder, KeysExclude, Key

LEMMA InitHolds ==
  ASSUME Init
  PROVE  IInv
<1>1. NoRecord \in Record /\ NoRecord.phase = "none"
  BY DEF NoRecord, Record, Phases
<1>2. Idle \in [stage: Stages, op: Ops \union {NoOp}, input: Inputs \union {NoInput}, created: BOOLEAN] /\ Idle.stage = "idle" /\ ~Idle.created
  BY DEF Idle, Stages
<1>3. TypeOK
  BY <1>1, <1>2 DEF Init, TypeOK
<1>4. ASSUME NEW o \in Ops
      PROVE  OpInv(o)
  <2>1. mem[o] = NoRecord /\ file[o] = NoRecord /\ sent[o] = 0 /\ started[o] = 0 /\ told[o] = {}
    BY DEF Init
  <2> QED
    BY <1>1, <2>1 DEF OpInv, RecordFits, FileFollows, ToldFits
<1>5. \A c \in Calls : CallInv(c)
  BY <1>2 DEF Init, CallInv, Holding
<1>6. OneHolder /\ KeysExclude
  BY <1>2 DEF Init, OneHolder, KeysExclude, Holding
<1> QED
  BY <1>3, <1>4, <1>5, <1>6 DEF IInv

\* The records, the calls and the gate stay consistent.
THEOREM Inductive == Spec => []IInv
<1>1. Init => IInv
  BY InitHolds
<1>2. IInv /\ [Next]_vars => IInv'
  <2> SUFFICES ASSUME IInv, [Next]_vars
               PROVE  IInv'
    OBVIOUS
  <2>1. ASSUME NEW c \in Calls, NEW o \in Ops, NEW i \in Inputs, Arrive(c, o, i)
        PROVE  IInv'
    BY <2>1, ArriveKeeps
  <2>2. ASSUME NEW c \in Calls, CallStep(c)
        PROVE  IInv'
    <3>1. CASE Revoked(c) \/ InspectFails(c)
      <4>1. /\ call[c].stage \notin Holding /\ End(c)
            /\ UNCHANGED <<kind, target, adapter, mem, file, faults, gate, access, sent, started, told>>
        BY <3>1 DEF Revoked, InspectFails, Holding, fixed, records
      <4> QED
        BY <4>1, SameTold, EndKeeps
    <3> QED
      BY <2>2, <3>1, EnterKeeps, CheckInterruptKeeps, BeginInterruptKeeps, AdapterEnds, WriteKeeps, CreatedKeeps,
         LaunchKeeps DEF CallStep
  <2>3. ASSUME NEW o \in Ops, AccessChanges(o)
        PROVE  IInv'
    BY <2>3, AccessKeeps
  <2> QED
    BY <2>1, <2>2, <2>3, RestartKeeps, StutterKeeps DEF Next
<1> QED
  BY <1>1, <1>2, PTL DEF Spec

-----------------------------------------------------------------------------
(* The properties.                                                          *)

\* Every variable keeps its type.
THEOREM TypeCorrect == Spec => []TypeOK
  BY Inductive, PTL DEF IInv

\* What a requester was told of a write is what a restart reads back.
THEOREM ToldDurable == Spec => []ToldIsDurable
<1>1. IInv => ToldIsDurable
  BY DEF IInv, OpInv, FileFollows, ToldFits, Final, ToldIsDurable
<1> QED
  BY <1>1, Inductive, PTL

\* One write at a time to a resource, and no gate without its holder.
THEOREM HandoffsExclude == Spec => []OneHandoff
<1>1. ASSUME KeysExclude PROVE OneHandoff
  <2>1. ASSUME NEW c \in Calls, NEW d \in Calls, c # d, Writing(c), Writing(d), Target(c) = Target(d)
        PROVE  Creates(c) # Creates(d)
    BY <1>1, <2>1 DEF KeysExclude, Writing, Target, Creates, Key
  <2>2. ASSUME NEW r \in Resources, NEW create \in BOOLEAN, <<create, r>> \in gate
        PROVE  \E c \in Calls : Writing(c) /\ Target(c) = r
    BY <1>1, <2>2 DEF KeysExclude, Writing, Target, Key
  <2> QED  BY <2>1, <2>2 DEF OneHandoff
<1> QED
  BY <1>1, Inductive, PTL DEF IInv

\* The calls at work hold exactly the well-formed keys of the gate.
THEOREM HandoffsWellFormed == Spec => []HandoffIsExclusive
<1>1. TypeOK /\ OneHandoff => HandoffIsExclusive
  BY DEF HandoffIsExclusive
<1> QED
  BY TypeCorrect, HandoffsExclude, <1>1, PTL

\* A program is started once, in a pane that is on record.
THEOREM TopologyDurable == Spec => []TopologyIsDurable
<1>1. IInv => TopologyIsDurable
  BY DEF IInv, OpInv, RecordFits, TopologyIsDurable
<1> QED
  BY <1>1, Inductive, PTL

\* A record of a program that was not started is right where the start is a write.
THEOREM PartialIsRight == Spec => []PartialNotStarted
<1>1. IInv => PartialNotStarted
  BY DEF IInv, OpInv, RecordFits, PartialNotStarted
<1> QED
  BY <1>1, Inductive, PTL

\* The record of an interrupted create is right about both of its writes.
THEOREM CreationOnRecord == Spec => []CreateIsRecorded
<1>1. TopologyIsDurable /\ PartialNotStarted => CreateIsRecorded
  BY DEF CreateIsRecorded
<1> QED
  BY TopologyDurable, PartialIsRight, <1>1, PTL

-----------------------------------------------------------------------------
(* The journals implement AtMostOnce.                                       *)

\* How a record may change while nothing is written.
RecordStep(o) ==
  \/ mem'[o] = mem[o]
  \/ Beginnable(o) /\ (mem'[o].phase = "writing" \/ (mem'[o].phase = "not-sent" /\ kind[o] = "interrupt"))
  \/ mem[o].phase = "writing" /\ mem'[o].phase # "none"

LEMMA SaveStep ==
  ASSUME TypeOK, NEW o \in Ops, NEW r \in Record, NEW ok \in BOOLEAN, Save(o, r, ok),
         \/ Beginnable(o) /\ (r.phase = "writing" \/ (r.phase = "not-sent" /\ kind[o] = "interrupt"))
         \/ mem[o].phase = "writing" /\ r.phase # "none"
  PROVE  \A p \in Ops : RecordStep(p)
<1>1. /\ ok => mem'[o] = r
      /\ ~ok => mem' = mem
      /\ \A p \in Ops \ {o} : mem'[p] = mem[p]
  BY SaveEffect
<1> QED
  BY <1>1 DEF RecordStep

\* Every step of a call but the write itself.
LEMMA CallRecords ==
  ASSUME IInv, NEW c \in Calls, CallStep(c), ~Write(c)
  PROVE  sent' = sent /\ \A p \in Ops : RecordStep(p)
<1>0. TypeOK /\ (call[c].stage # "idle" => call[c].op \in Ops /\ call[c].input \in Inputs)
  BY DEF IInv, CallInv
<1>1. CASE mem' = mem /\ sent' = sent
  BY <1>1 DEF RecordStep
<1>2. CASE Enter(c)
  <2>1. PICK o \in Ops : o = call[c].op
    BY <1>0, <1>2 DEF Enter
  <2>2. sent' = sent /\ call[c].input \in Inputs
    BY <1>0, <1>2 DEF Enter
  <2>3. mem' = mem \/ (mem[o].phase = "none" /\ \E ok \in BOOLEAN : Save(o, Intent(c), ok))
    BY <1>2, <2>1 DEF Enter, Repeated, Admit, records
  <2> QED
    BY <1>0, <1>1, <2>2, <2>3, IntentFits, SaveStep DEF Beginnable
<1>3. CASE BeginInterrupt(c)
  <2>1. PICK o \in Ops : o = call[c].op
    BY <1>0, <1>3 DEF BeginInterrupt
  <2>2. sent' = sent /\ call[c].input \in Inputs /\ kind[o] = "interrupt"
    BY <1>0, <1>3, <2>1 DEF BeginInterrupt, IInv, CallInv
  <2>3. CASE Repeated(c, o)
    BY <1>1, <2>2, <2>3 DEF Repeated, records
  <2>4. CASE Beginnable(o) /\ Begun(c, o)
    <3>1. Intent(c) \in Record /\ Intent(c).phase = "writing"
      BY <1>0, <2>2, IntentFits
    <3>2. PICK refused \in Record : refused = [Intent(c) EXCEPT !.phase = "not-sent"] /\ refused.phase = "not-sent"
      <4>1. [Intent(c) EXCEPT !.phase = "not-sent"] \in Record /\ [Intent(c) EXCEPT !.phase = "not-sent"].phase = "not-sent"
        BY <3>1 DEF Record, Phases
      <4> QED
        BY <4>1
    <3>3. \/ \E ok \in BOOLEAN : Save(o, Intent(c), ok)
          \/ Save(o, refused, TRUE)
          \/ mem' = [mem EXCEPT ![o] = Intent(c)]
      BY <2>4, <3>2 DEF Begun, Admit
    <3>4. CASE mem' = [mem EXCEPT ![o] = Intent(c)]
      <4>1. mem'[o] = Intent(c) /\ \A p \in Ops \ {o} : mem'[p] = mem[p]
        BY <1>0, <3>4 DEF TypeOK
      <4> QED
        BY <2>2, <2>4, <3>1, <4>1 DEF RecordStep
    <3> QED
      BY <1>0, <2>2, <2>4, <3>1, <3>2, <3>3, <3>4, SaveStep
  <2> QED
    BY <1>3, <2>1, <2>2, <2>3, <2>4 DEF BeginInterrupt, Beginnable
<1>4. CASE PrepareFails(c) \/ NothingToStop(c) \/ ClosedAtWrite(c) \/ Confirmed(c) \/ WriteUnanswered(c) \/ VerifyFails(c)
  <2>1. call[c].stage \in Holding /\ sent' = sent
    BY <1>4 DEF PrepareFails, NothingToStop, ClosedAtWrite, Confirmed, WriteUnanswered, VerifyFails, Holding
  <2>2. PICK o \in Ops : o = call[c].op /\ mem[o].phase = "writing"
    BY <2>1, HolderKnows
  <2>3. PICK phase \in Phases \ {"none", "writing"} : Settle(c, phase)
    <3>1. "not-sent" \in Errors /\ "unknown" \in Errors /\ {"inactive", "confirmed"} \subseteq Phases \ {"none", "writing"}
      BY DEF Errors, Phases
    <3>2. \A crossed \in BOOLEAN, error \in Errors : Failure(c, crossed, error) \in Phases \ {"none", "writing"}
      BY DEF Failure, Errors, Phases
    <3>3. call[c].created \in BOOLEAN
      BY <1>0, CallType
    <3> QED
      BY <1>4, <3>1, <3>2, <3>3 DEF PrepareFails, NothingToStop, ClosedAtWrite, Confirmed, WriteUnanswered, VerifyFails
  <2>4. Outcome(c, phase) \in Record /\ Outcome(c, phase).phase = phase
    <3>1. Intent(c) \in Record /\ call[c].created \in BOOLEAN
      BY <1>0, <2>1, HolderKnows, IntentFits, CallType
    <3> QED
      BY <3>1 DEF Outcome, Record
  <2>5. \E ok \in BOOLEAN : Save(o, Outcome(c, phase), ok)
    BY <2>2, <2>3 DEF Settle
  <2> QED
    BY <1>0, <2>1, <2>2, <2>4, <2>5, SaveStep
<1>5. CASE Created(c)
  <2>1. call[c].stage \in Holding /\ sent' = sent
    BY <1>5 DEF Created, Holding
  <2>2. PICK o \in Ops : o = call[c].op /\ mem[o].phase = "writing"
    BY <2>1, HolderKnows
  <2>3. PICK row \in Record : row = [Intent(c) EXCEPT !.created = TRUE] /\ row.phase = "writing"
    <3>1. Intent(c) \in Record /\ Intent(c).phase = "writing"
      BY <1>0, <2>1, HolderKnows, IntentFits
    <3>2. [Intent(c) EXCEPT !.created = TRUE] \in Record /\ [Intent(c) EXCEPT !.created = TRUE].phase = "writing"
      BY <3>1 DEF Record
    <3> QED
      BY <3>2
  <2>4. PICK lost \in Record : lost = [row EXCEPT !.phase = "unknown"] /\ lost.phase = "unknown"
    <3>1. [row EXCEPT !.phase = "unknown"] \in Record /\ [row EXCEPT !.phase = "unknown"].phase = "unknown"
      BY <2>3 DEF Record, Phases
    <3> QED
      BY <3>1
  <2>5. Save(o, row, TRUE) \/ mem' = mem \/ mem' = [mem EXCEPT ![o] = lost]
    BY <1>5, <2>2, <2>3, <2>4 DEF Created
  <2>6. CASE mem' = [mem EXCEPT ![o] = lost]
    <3>1. mem'[o] = lost /\ \A p \in Ops \ {o} : mem'[p] = mem[p]
      BY <1>0, <2>6 DEF TypeOK
    <3> QED
      BY <2>1, <2>2, <2>4, <3>1 DEF RecordStep
  <2> QED
    BY <1>0, <1>1, <2>1, <2>2, <2>3, <2>5, <2>6, SaveStep
<1>6. CASE Revoked(c) \/ CheckInterrupt(c) \/ InspectFails(c) \/ Launch(c)
  BY <1>1, <1>6 DEF Revoked, CheckInterrupt, InspectFails, Launch, Repeated, records
<1> QED
  BY <1>2, <1>3, <1>4, <1>5, <1>6 DEF CallStep

\* A record that changes so moves its report as AtMostOnce allows.
LEMMA RecordMoves ==
  ASSUME IInv, IInv', NEW o \in Ops, kind' = kind, sent' = sent, RecordStep(o)
  PROVE  \/ ReportOf(mem'[o]) = ReportOf(mem[o])
         \/ ReportOf(mem[o]) = "none" /\ ReportOf(mem'[o]) = "unknown"
         \/ sent[o] = 0 /\ ReportOf(mem[o]) \in {"none", "unknown"} /\ ReportOf(mem'[o]) = "not-sent"
         \/ sent[o] = 1 /\ ReportOf(mem[o]) = "unknown" /\ ReportOf(mem'[o]) = "confirmed"
         \/ kind[o] = "interrupt" /\ ReportOf(mem[o]) = "not-sent" /\ ReportOf(mem'[o]) = "unknown"
<1>1. OpInv(o) /\ OpInv(o)'
  BY DEF IInv
<1>2. RecordFits(o, mem[o]) /\ RecordFits(o, mem[o])' /\ sent[o] \in {0, 1}
  BY <1>1 DEF OpInv
<1>3. mem[o].phase \in Phases /\ mem'[o].phase \in Phases
  BY DEF IInv, TypeOK, Record
<1>4. CASE mem'[o] = mem[o]
  BY <1>4
<1>5. CASE Beginnable(o) /\ (mem'[o].phase = "writing" \/ (mem'[o].phase = "not-sent" /\ kind[o] = "interrupt"))
  BY <1>2, <1>5 DEF Beginnable, ReportOf, RecordFits
<1>6. CASE mem[o].phase = "writing" /\ mem'[o].phase # "none"
  BY <1>2, <1>3, <1>6 DEF ReportOf, RecordFits, Phases
<1> QED
  BY <1>4, <1>5, <1>6 DEF RecordStep

\* So does the record a restart finds.
LEMMA RestartMoves ==
  ASSUME IInv, NEW o \in Ops, Restart
  PROVE  \/ ReportOf(mem'[o]) = ReportOf(mem[o])
         \/ ReportOf(mem[o]) = "none" /\ ReportOf(mem'[o]) = "unknown"
         \/ sent[o] = 0 /\ ReportOf(mem[o]) = "unknown" /\ ReportOf(mem'[o]) = "not-sent"
         \/ sent[o] = 1 /\ ReportOf(mem[o]) = "unknown" /\ ReportOf(mem'[o]) = "confirmed"
         \/ kind[o] = "interrupt" /\ ReportOf(mem[o]) = "not-sent" /\ ReportOf(mem'[o]) = "unknown"
<1>1. OpInv(o) /\ mem' = file /\ mem[o].phase \in Phases /\ file[o].phase \in Phases
  BY DEF IInv, TypeOK, Record, Restart
<1> QED
  BY <1>1 DEF OpInv, RecordFits, FileFollows, ReportOf, Phases

LEMMA MovesAllowed ==
  ASSUME IInv, IInv', UNCHANGED fixed, sent' = sent,
         \A o \in Ops : \/ ReportOf(mem'[o]) = ReportOf(mem[o])
                        \/ ReportOf(mem[o]) = "none" /\ ReportOf(mem'[o]) = "unknown"
                        \/ sent[o] = 0 /\ ReportOf(mem[o]) \in {"none", "unknown"} /\ ReportOf(mem'[o]) = "not-sent"
                        \/ sent[o] = 1 /\ ReportOf(mem[o]) = "unknown" /\ ReportOf(mem'[o]) = "confirmed"
                        \/ kind[o] = "interrupt" /\ ReportOf(mem[o]) = "not-sent" /\ ReportOf(mem'[o]) = "unknown"
  PROVE  Promise!ANext
<1>1. UNCHANGED {o \in Ops : kind[o] = "interrupt"}
  BY DEF fixed
<1>2. sent \in [Ops -> Nat] /\ sent' \in [Ops -> Nat]
  BY DEF IInv, TypeOK
<1>3. \A o \in Ops : ReportOf(mem'[o]) \in Promise!Reports
  BY DEF ReportOf, Promise!Reports
<1>4. \A o \in Ops : Promise!Move(o)
  BY DEF Promise!Move, Promise!Reported
<1> HIDE DEF ReportOf
<1> QED
  BY <1>1, <1>2, <1>3, <1>4 DEF Promise!ANext

\* The journals of sends, interrupts and lifecycle operations implement AtMostOnce:
\* however often an operation is repeated and whatever is lost, it is written at most
\* once and no record claims more than is known.
THEOREM WrittenAtMostOnce == Spec => WritesAtMostOnce
<1>1. Init => Promise!AInit
  <2> SUFFICES ASSUME Init PROVE Promise!AInit
    OBVIOUS
  <2>1. \A o \in Ops : ReportOf(mem[o]) = "none"
    BY DEF Init, NoRecord, ReportOf
  <2> QED
    BY <2>1 DEF Init, Promise!AInit
<1>2. IInv /\ IInv' /\ [Next]_vars => [Promise!ANext]_(Promise!aVars)
  <2> SUFFICES ASSUME IInv, IInv', [Next]_vars
               PROVE  [Promise!ANext]_(Promise!aVars)
    OBVIOUS
  <2>1. CASE UNCHANGED <<kind, mem, sent>>
    BY <2>1 DEF Promise!aVars
  <2>2. ASSUME NEW c \in Calls, CallStep(c), ~Write(c)
        PROVE  Promise!ANext
    <3>1. UNCHANGED fixed
      BY <2>2 DEF CallStep, Revoked, Enter, CheckInterrupt, InspectFails, BeginInterrupt, PrepareFails, NothingToStop,
                  ClosedAtWrite, Confirmed, Created, Launch, WriteUnanswered, VerifyFails
    <3>2. sent' = sent /\ \A o \in Ops : RecordStep(o)
      BY <2>2, CallRecords
    <3>3. kind' = kind
      BY <3>1 DEF fixed
    <3> QED
      BY <3>1, <3>2, <3>3, RecordMoves, MovesAllowed
  <2>3. ASSUME NEW c \in Calls, Write(c)
        PROVE  Promise!ANext
    <3>1. PICK o \in Ops : o = call[c].op
      BY <2>3, HolderKnows DEF Write, Holding
    <3>2. /\ mem[o].phase = "writing" /\ sent[o] = 0 /\ mem' = mem /\ kind' = kind
          /\ sent' = [sent EXCEPT ![o] = @ + 1]
      BY <2>3, <3>1, HolderKnows DEF Write, Holding, fixed, records
    <3>3. sent \in [Ops -> Nat] /\ sent' \in [Ops -> Nat]
      BY DEF IInv, TypeOK
    <3>4. ReportOf(mem[o]) = "unknown"
      BY <3>2 DEF ReportOf
    <3>5. \A p \in Ops : ReportOf(mem[p]) \in Promise!Reports
      BY DEF ReportOf, Promise!Reports
    <3> HIDE DEF ReportOf
    <3>6. \A p \in Ops : Promise!Move(p)
      BY <3>2, <3>3, <3>4 DEF Promise!Move, Promise!Reported
    <3> QED
      BY <3>2, <3>3, <3>5, <3>6 DEF Promise!ANext
  <2>4. CASE Restart
    <3>1. UNCHANGED fixed /\ sent' = sent
      BY <2>4 DEF Restart
    <3> QED
      BY <2>4, <3>1, RestartMoves, MovesAllowed
  <2>5. ASSUME NEW c \in Calls, NEW o \in Ops, NEW i \in Inputs, Arrive(c, o, i)
        PROVE  UNCHANGED <<kind, mem, sent>>
    BY <2>5 DEF Arrive, fixed, records
  <2>6. ASSUME NEW o \in Ops, AccessChanges(o)
        PROVE  UNCHANGED <<kind, mem, sent>>
    BY <2>6 DEF AccessChanges, fixed, records
  <2>7. CASE UNCHANGED vars
    BY <2>1, <2>7 DEF vars
  <2> QED
    BY <2>1, <2>2, <2>3, <2>4, <2>5, <2>6, <2>7 DEF Next
<1> QED
  BY <1>1, <1>2, Inductive, PTL DEF Spec, WritesAtMostOnce, Promise!ASpec

\* Nothing is written twice, nothing recorded as unsent was sent, and everything
\* recorded as confirmed was.
THEOREM NeverMisreported == Spec => []Promise!WrittenOnce
<1>1. IInv => Promise!WrittenOnce
  <2> SUFFICES ASSUME IInv, NEW o \in Ops
               PROVE  /\ sent[o] <= 1
                      /\ ReportOf(mem[o]) \in {"none", "not-sent"} => sent[o] = 0
                      /\ ReportOf(mem[o]) = "confirmed" => sent[o] = 1
    BY DEF Promise!WrittenOnce
  <2>1. OpInv(o)
    BY DEF IInv
  <2> QED
    BY <2>1 DEF OpInv, RecordFits, ReportOf
<1> QED
  BY <1>1, Inductive, PTL

===============================================================================
