------------------------------ MODULE Approvals ------------------------------
(***************************************************************************)
(* One approval that a task asks for, and the rooms that may answer it:     *)
(* src/codex/interaction-fanout.ts between the App Server client            *)
(* (src/codex/app-server-runner.ts) and, in every room, the controller      *)
(* src/bridge/approval.ts with its journal and its notices.                 *)
(*                                                                         *)
(* The client offers the request to every room that follows the thread.     *)
(* The first answer that is still current is sent to Codex; whatever ends   *)
(* the request is then told to all rooms, which close their cards.  Codex   *)
(* asks again when a client comes back and nothing was answered.            *)
(*                                                                         *)
(* A room is the Gateway itself or, through a Connector, another one; the   *)
(* calls between them are made at once, and a line that drops is a room     *)
(* that stops following.  The journal replaces its file before its memory:  *)
(* a save that fails changes neither, so one value stands for both.         *)
(***************************************************************************)
EXTENDS Naturals, FiniteSets

CONSTANTS Rooms, NoRoom,
          MaxNotices,   \* MAX_ATTEMPTS to close a card
          MaxApprRows,      \* bound: cards ever made
          MaxApprFaults     \* bound: lost connections, failed saves and sends, rooms
                            \* that leave or restart

ASSUME ApprAssumption ==
  /\ IsFiniteSet(Rooms) /\ NoRoom \notin Rooms
  /\ MaxNotices \in Nat \ {0} /\ MaxApprRows \in Nat
  /\ MaxApprFaults \in Nat

VARIABLES
  apprNative,  \* Codex: open, answered by the client (ours), or ended otherwise (gone)
  apprTook,    \* the answer Codex took from the client
  apprWire,    \* the answer on its way to Codex
  apprReq,     \* the client: the entry in approvalRequests
  apprSeen,    \* the client: observedApprovalIds has the request
  apprConn,    \* the connection, part of the native key
  apprFollow,   \* the fanout: its consumers
  apprAsk,     \* the fanout: its entry for the request, undecided (open) or decided
  apprWinner,  \* the fanout: the room whose offer was chosen
  apprOffer,   \* the fanout: calling a room, asking its user, or done
  apprLate,    \* calls to a room that are still on when its offer is not
  apprRoute,   \* the row a result of the present request is reported to
  apprRows,    \* the journals, a row for each card
  apprOpen,    \* the rows whose card still decides (ChannelApprovalController.pending)
  apprLeft,    \* history: open rows whose room left, or that were made too late
  apprBy,      \* history: the row whose answer was sent last
  apprFaults   \* failures so far

apprVars == <<apprNative, apprTook, apprWire, apprReq, apprSeen, apprConn, apprFollow, apprAsk,
              apprWinner, apprOffer, apprLate, apprRoute, apprRows, apprOpen, apprLeft,
              apprBy, apprFaults>>

apprCodexVars == <<apprNative, apprTook, apprWire>>
apprClientVars == <<apprReq, apprSeen, apprConn>>
apprFanoutVars == <<apprFollow, apprAsk, apprWinner, apprOffer, apprLate>>
apprRoomVars == <<apprRoute, apprRows, apprOpen, apprLeft>>

ApprAnswers == {"accept", "decline"}
ApprIds == 1..MaxApprRows

\* A row of the journal with its notice.  delivery "retry" is "unconfirmed" with a
\* retryAt; known is messageId; stuck is persistenceFailures; here says that the
\* service that made the card still runs, card what the room's members see.
ApprRow == [room : Rooms \cup {NoRoom}, key : Nat,
            phase : {"none", "pending", "unconfirmed", "confirmed", "failed", "withdrawn"},
            choice : ApprAnswers \cup {"none"},
            outcome : {"none", "confirmed", "failed", "withdrawn"},
            delivery : {"ready", "pending", "delivered", "unconfirmed", "retry"},
            tries : 0..MaxNotices, known : BOOLEAN, stuck : BOOLEAN, here : BOOLEAN,
            card : {"none", "sending", "unsent", "open", "closed"},
            flight : {"none", "text", "card"}]

NoApprRow == [room |-> NoRoom, key |-> 0, phase |-> "none", choice |-> "none",
              outcome |-> "none", delivery |-> "ready", tries |-> 0, known |-> FALSE,
              stuck |-> FALSE, here |-> FALSE, card |-> "none", flight |-> "none"]

ApprNotLate == [key |-> 0, routed |-> FALSE]

ApprInit ==
  /\ apprNative = "open" /\ apprTook = "none" /\ apprWire = "none"
  /\ apprReq = "none" /\ apprSeen = FALSE /\ apprConn = 1
  /\ apprFollow \in SUBSET Rooms \ {{}} /\ apprAsk = "none" /\ apprWinner = NoRoom
  /\ apprOffer = [x \in Rooms |-> "none"]
  /\ apprLate = [x \in Rooms |-> ApprNotLate]
  /\ apprRoute = [x \in Rooms |-> 0]
  /\ apprRows = [r \in ApprIds |-> NoApprRow]
  /\ apprOpen = {} /\ apprLeft = {}
  /\ apprBy = 0
  /\ apprFaults = 0

ApprFaults(n) == apprFaults + n <= MaxApprFaults /\ apprFaults' = apprFaults + n
ApprFault == ApprFaults(1)

-----------------------------------------------------------------------------
(* The controller of a room.                                               *)

\* settle(): without the audit record nothing is authorised, while a refusal
\* still releases the native request.
ApprUnrecordedDecides(choice) == choice = "decline"

\* reportResult() of a row.  An open card is refused first.
ApprToldRow(row, result, open) ==
  IF row.phase \in {"confirmed", result} THEN row
  ELSE [row EXCEPT !.phase = result, !.choice = IF open THEN "decline" ELSE @,
                   !.outcome = result, !.delivery = "ready", !.tries = 0]

\* The rooms x \in told hear result[x] of the request; a room whose card is still being
\* prepared has no notice yet and does nothing.  Each route serves once.
ApprReport(told, result, cost) ==
  LET hit(r) == \E x \in told : apprRoute[x] = r
      said(r) == result[apprRows[r].room]
  IN /\ \E unsaved \in SUBSET {x \in told : apprRoute[x] # 0} :
          /\ ApprFaults(cost + Cardinality(unsaved))
          /\ apprRows' = [r \in ApprIds |->
               IF hit(r) /\ apprRows[r].room \notin unsaved
               THEN ApprToldRow(apprRows[r], said(r), r \in apprOpen) ELSE apprRows[r]]
     /\ apprOpen' = {r \in apprOpen : ~(hit(r) /\ said(r) # "confirmed")}
     /\ apprRoute' = [x \in Rooms |-> IF x \in told THEN 0 ELSE apprRoute[x]]

-----------------------------------------------------------------------------
(* The fanout.                                                             *)

\* retireUnanswered(): nobody is left who might answer.  The client forgets the
\* request and has it sent again.
ApprRetire(offers) ==
  IF apprAsk = "open" /\ \A x \in Rooms : offers[x] \notin {"calling", "asking"}
  THEN apprAsk' = "none" /\ apprReq' = "none" /\ apprSeen' = FALSE
  ELSE UNCHANGED <<apprAsk, apprReq, apprSeen>>

\* An offer that ends while its room is still preparing the card.
ApprLateFrom(gone, routed) ==
  [x \in Rooms |-> IF x \in gone /\ apprOffer[x] = "calling"
                   THEN [key |-> apprConn, routed |-> routed]
                   ELSE IF x \in gone /\ ~routed THEN [apprLate[x] EXCEPT !.routed = FALSE]
                   ELSE apprLate[x]]

\* Mutant: every room that answered hears that its own answer was confirmed.
ApprHeardEach(x, result) == result

\* What finish() tells a room: a confirmation is for the offer that was chosen.
ApprHeard(x, result) ==
  IF result \in {"confirmed", "failed"} /\ x # apprWinner THEN "withdrawn" ELSE result

\* resolveApproval() and finish(): the request is over for the client.  After "failed"
\* the fanout keeps the entry, and with it the answer.
ApprFinish(result, cost) ==
  /\ apprReq' = "none"
  /\ IF result = "failed" THEN UNCHANGED <<apprAsk, apprWinner>>
     ELSE apprAsk' = "none" /\ apprWinner' = NoRoom
  /\ apprOffer' = [x \in Rooms |-> "none"]
  /\ apprLate' = ApprLateFrom(apprFollow, FALSE)
  /\ ApprReport(apprFollow, [x \in Rooms |-> ApprHeard(x, result)], cost)
  /\ UNCHANGED <<apprFollow, apprLeft, apprBy>>

\* The request arrives, or arrives again, at the client.  An entry the fanout kept
\* answers it with the answer it has.
ApprAsked ==
  /\ apprNative = "open" /\ apprReq = "none" /\ ~apprSeen /\ apprFollow # {}
  /\ apprSeen' = TRUE
  /\ apprRoute' = [x \in Rooms |-> 0]
  /\ apprLate' = [x \in Rooms |-> [apprLate[x] EXCEPT !.routed = FALSE]]
  /\ \/ /\ apprAsk = "none"
        /\ apprReq' = "asking" /\ apprAsk' = "open" /\ apprWinner' = NoRoom
        /\ apprOffer' = [x \in Rooms |-> IF x \in apprFollow THEN "calling" ELSE "none"]
        /\ UNCHANGED apprWire
     \/ /\ apprAsk \in ApprAnswers
        /\ apprReq' = "submitted" /\ apprWire' = apprAsk
        /\ UNCHANGED <<apprAsk, apprWinner, apprOffer>>
  /\ UNCHANGED <<apprNative, apprTook, apprConn, apprFollow, apprRows, apprOpen,
                 apprLeft, apprBy, apprFaults>>

\* request() of the controller: a card, or the one it has for the same native key.
ApprMakes(x, key, r) ==
  \/ /\ r \in apprOpen /\ apprRows[r].room = x /\ apprRows[r].key = key
     /\ UNCHANGED <<apprRows, apprOpen>>
  \/ /\ \A s \in apprOpen : apprRows[s].room # x \/ apprRows[s].key # key
     /\ apprRows[r].phase = "none" /\ \A s \in 1..r-1 : apprRows[s].phase # "none"
     /\ apprRows' = [apprRows EXCEPT ![r] = [NoApprRow EXCEPT !.room = x, !.key = key,
                       !.phase = "pending", !.here = TRUE, !.card = "sending"]]
     /\ apprOpen' = apprOpen \cup {r}

\* requestApproval() of an offered room, after the progress card was updated; the
\* room may turn out to be unavailable, or unable to record the request.
ApprCalled(x) ==
  /\ apprOffer[x] = "calling"
  /\ \/ \E r \in ApprIds :
          /\ ApprMakes(x, apprConn, r)
          /\ apprRoute' = [apprRoute EXCEPT ![x] = r]
          /\ apprLeft' = apprLeft \ {r}
          /\ apprOffer' = [apprOffer EXCEPT ![x] = "asking"]
          /\ UNCHANGED <<apprAsk, apprReq, apprSeen, apprFaults>>
     \/ /\ ApprFault
        /\ apprOffer' = [apprOffer EXCEPT ![x] = "done"]
        /\ ApprRetire(apprOffer')
        /\ UNCHANGED apprRoomVars
  /\ UNCHANGED <<apprCodexVars, apprConn, apprFollow, apprWinner, apprLate, apprBy>>

\* The same of a room whose offer has ended meanwhile.
ApprCalledLate(x) ==
  /\ apprLate[x] # ApprNotLate
  /\ \/ \E r \in ApprIds :
          /\ ApprMakes(x, apprLate[x].key, r)
          /\ IF apprLate[x].routed /\ apprRoute[x] = 0
             THEN apprRoute' = [apprRoute EXCEPT ![x] = r] ELSE UNCHANGED apprRoute
          /\ apprLeft' = IF r \in apprOpen THEN apprLeft ELSE apprLeft \cup {r}
     \/ UNCHANGED apprRoomVars
  /\ apprLate' = [apprLate EXCEPT ![x] = ApprNotLate]
  /\ UNCHANGED <<apprCodexVars, apprClientVars, apprFollow, apprAsk, apprWinner, apprOffer,
                 apprBy, apprFaults>>

\* add(): a room follows the thread again and is offered an undecided request.
ApprJoins(x) ==
  /\ x \notin apprFollow
  /\ apprFollow' = apprFollow \cup {x}
  /\ apprOffer' = [apprOffer EXCEPT ![x] = IF apprAsk = "open" THEN "calling" ELSE @]
  /\ UNCHANGED <<apprCodexVars, apprClientVars, apprAsk, apprWinner, apprLate, apprRoomVars,
                 apprBy, apprFaults>>

\* remove(): a room stops following.  A Gateway across a line that closed is told;
\* one that unfollows is not.  With the last room the client gives the request up.
ApprLeaves(x) ==
  LET offers == [apprOffer EXCEPT ![x] = "none"]
      told == IF apprRoute[x] # 0 /\ apprRows[apprRoute[x]].choice # "none"
              THEN "failed" ELSE "withdrawn"
  IN /\ x \in apprFollow
     /\ apprFollow' = apprFollow \ {x}
     /\ apprOffer' = offers
     /\ apprWinner' = IF apprWinner = x THEN NoRoom ELSE apprWinner
     /\ \/ ApprReport({x}, [y \in Rooms |-> told], 1)
           /\ apprLate' = ApprLateFrom({x}, FALSE)
           /\ UNCHANGED apprLeft
        \/ /\ apprLeft' = apprLeft \cup {r \in apprOpen : apprRows[r].room = x}
           /\ apprLate' = ApprLateFrom({x}, TRUE)
           /\ ApprFault /\ UNCHANGED <<apprRoute, apprRows, apprOpen>>
     /\ IF apprFollow' = {}
        THEN /\ apprAsk' = "none" /\ apprReq' = "none"
             /\ apprSeen' = (apprReq # "asking" /\ apprSeen)
        ELSE ApprRetire(offers)
     /\ UNCHANGED <<apprCodexVars, apprConn, apprBy>>

\* decide(), or the card times out and refuses.  The choice goes through the promise
\* of the request to the fanout and the client, unless it is no longer waited for;
\* a room that does not follow the thread any more is told so instead.
ApprDecided(r, choice) ==
  LET x == apprRows[r].room
      row == [apprRows[r] EXCEPT !.phase = "unconfirmed", !.choice = choice]
      first == apprOffer[x] = "asking" /\ apprRoute[x] = r /\ apprAsk = "open"
      away == x \notin apprFollow /\ apprRoute[x] = r
  IN /\ r \in apprOpen
     /\ apprOpen' = apprOpen \ {r}
     /\ \/ apprRows' = [apprRows EXCEPT ![r] =
             IF away THEN ApprToldRow(row, "withdrawn", FALSE) ELSE row]
           /\ UNCHANGED apprFaults
        \/ ApprFault /\ ApprUnrecordedDecides(choice) /\ UNCHANGED apprRows
     /\ apprRoute' = [apprRoute EXCEPT ![x] = IF away THEN 0 ELSE @]
     /\ IF first
        THEN /\ apprAsk' = choice /\ apprWinner' = x
             /\ apprReq' = "submitted" /\ apprWire' = choice /\ apprBy' = r
        ELSE UNCHANGED <<apprAsk, apprWinner, apprReq, apprWire, apprBy>>
     /\ apprOffer' = [apprOffer EXCEPT ![x] =
          IF apprRoute[x] = r /\ @ = "asking" THEN "done" ELSE @]
     /\ UNCHANGED <<apprNative, apprTook, apprSeen, apprConn, apprFollow, apprLate, apprLeft>>

-----------------------------------------------------------------------------
(* Codex and the connection to it.                                         *)

ApprTaken == /\ apprWire # "none" /\ apprWire' = "none"
             /\ IF apprNative = "open" THEN apprNative' = "ours" /\ apprTook' = apprWire
                ELSE UNCHANGED <<apprNative, apprTook>>

ApprAnswered ==
  ApprTaken /\ UNCHANGED <<apprClientVars, apprFanoutVars, apprRoomVars, apprBy, apprFaults>>

ApprElsewhere ==
  /\ apprNative = "open" /\ apprNative' = "gone"
  /\ UNCHANGED <<apprTook, apprWire, apprClientVars, apprFanoutVars, apprRoomVars,
                 apprBy, apprFaults>>

\* serverRequest/resolved.
ApprResolved ==
  /\ apprNative # "open" /\ apprReq # "none"
  /\ ApprFinish(IF apprReq = "submitted" THEN "confirmed" ELSE "withdrawn", 0)
  /\ apprSeen' = (apprReq = "submitted")
  /\ UNCHANGED <<apprCodexVars, apprConn>>

\* turn/completed.
ApprTurnEnds ==
  /\ apprReq # "none"
  /\ apprNative' = IF apprNative = "open" THEN "gone" ELSE apprNative
  /\ ApprFinish(IF apprReq = "submitted" THEN "failed" ELSE "withdrawn", 0)
  /\ apprSeen' = (apprReq = "submitted")
  /\ UNCHANGED <<apprTook, apprWire, apprConn>>

\* failTransport(): what was on its way arrives or not, and a new connection asks again.
ApprNewLine ==
  /\ apprConn' = apprConn + 1 /\ apprSeen' = FALSE
  /\ ApprTaken \/ (apprWire' = "none" /\ UNCHANGED <<apprNative, apprTook>>)

ApprLineLost ==
  /\ ApprNewLine
  /\ IF apprReq = "none"
     THEN ApprFault /\ UNCHANGED <<apprReq, apprFanoutVars, apprRoomVars, apprBy>>
     ELSE ApprFinish(IF apprReq = "submitted" THEN "failed" ELSE "withdrawn", 1)

-----------------------------------------------------------------------------
(* Cards and notices, and the services that send them.                     *)

ApprPut(r, row) == apprRows' = [apprRows EXCEPT ![r] = row]

ApprRowsOnly == UNCHANGED <<apprCodexVars, apprClientVars, apprFanoutVars,
                            apprRoute, apprOpen, apprLeft, apprBy>>

\* The first card reaches the room or not; its acknowledgement is remembered by the
\* service that sent it, also when the request is over already.
ApprCardSent(r) ==
  LET row == apprRows[r]
      seen == [row EXCEPT !.card = "open"]
  IN /\ row.card = "sending"
     /\ \/ /\ row.here /\ ~row.stuck
           /\ ApprPut(r, [seen EXCEPT !.known = TRUE, !.delivery = "ready", !.tries = 0])
           /\ UNCHANGED apprFaults
        \/ ~row.here /\ ApprPut(r, seen) /\ UNCHANGED apprFaults
        \/ row.here /\ ApprFault /\ apprRows' \in {[apprRows EXCEPT ![r] = seen],
                                                [apprRows EXCEPT ![r].card = "unsent"]}
     /\ ApprRowsOnly

\* deliver(): the attempt is recorded before the provider is called.
ApprNotice(r) ==
  LET row == apprRows[r]
  IN /\ row.outcome # "none" /\ row.flight = "none" /\ ~row.stuck
     /\ row.delivery \in {"ready", "retry"} /\ row.tries < MaxNotices
     /\ \/ /\ ApprPut(r, [row EXCEPT !.delivery = "pending", !.tries = @ + 1,
                                 !.flight = IF row.known THEN "card" ELSE "text"])
           /\ UNCHANGED apprFaults
        \/ ApprFault /\ ApprPut(r, [row EXCEPT !.stuck = TRUE])
     /\ ApprRowsOnly

\* The first card was acknowledged while the notice was sent as a text.
ApprOvertaken(row) == row.known /\ row.flight = "text"

\* The provider answered or not, and took the change or not.  Only closing a card may be
\* tried again; the result of a notice that a card overtook is not recorded.
ApprNoticed(r) ==
  LET row == apprRows[r]
      shown == [row EXCEPT !.flight = "none",
                           !.card = IF row.flight = "card" THEN "closed" ELSE @]
      lost == {[row EXCEPT !.flight = "none"], shown}
      after(w, result) == IF ApprOvertaken(row) THEN w
        ELSE [w EXCEPT !.delivery = result, !.known = (row.flight = "card")]
      again == IF row.flight = "card" /\ row.tries < MaxNotices
               THEN {"retry", "unconfirmed"} ELSE {"unconfirmed"}
  IN /\ row.flight # "none"
     /\ \/ ApprPut(r, after(shown, "delivered")) /\ UNCHANGED apprFaults
        \/ ApprFault /\ \E w \in lost, result \in again : ApprPut(r, after(w, result))
        \/ ApprFault /\ ~ApprOvertaken(row) /\ ApprPut(r, [shown EXCEPT !.stuck = TRUE])
     /\ ApprRowsOnly

\* A new service over the journal: an attempt that was on is unconfirmed, and a card it
\* was to close is closed again.
ApprReloaded(row) ==
  {[row EXCEPT !.here = FALSE, !.stuck = FALSE, !.flight = "none", !.card = shown,
               !.delivery = IF @ # "pending" THEN @
                            ELSE IF row.known /\ row.tries < MaxNotices THEN "retry"
                            ELSE "unconfirmed"]
     : shown \in {row.card, IF row.flight = "card" THEN "closed" ELSE row.card}}

ApprServicesStop(stopped) ==
  LET mine == {r \in ApprIds : apprRows[r].room \in stopped}
  IN /\ apprRows' \in {rows \in [ApprIds -> UNION {ApprReloaded(apprRows[r]) : r \in mine}
                                           \cup {apprRows[r] : r \in ApprIds}] :
          \A r \in ApprIds : IF r \in mine THEN rows[r] \in ApprReloaded(apprRows[r])
                             ELSE rows[r] = apprRows[r]}
     /\ apprOpen' = apprOpen \ mine
     /\ apprRoute' = [x \in Rooms |-> IF x \in stopped THEN 0 ELSE apprRoute[x]]
     /\ apprLate' = [x \in Rooms |-> IF x \in stopped THEN ApprNotLate ELSE apprLate[x]]

\* close() of a room's controller, and a new one: its user is asked again only when
\* Codex asks again.
ApprRoomRestarts(x) ==
  /\ ApprFault
  /\ ApprServicesStop({x})
  /\ apprOffer' = [apprOffer EXCEPT ![x] = IF @ = "none" THEN @ ELSE "done"]
  /\ ApprRetire(apprOffer')
  /\ UNCHANGED <<apprCodexVars, apprConn, apprFollow, apprWinner, apprLeft, apprBy>>

\* The process dies with everything in it.
ApprCrash ==
  /\ ApprFault
  /\ ApprNewLine
  /\ ApprServicesStop(Rooms)
  /\ apprReq' = "none" /\ apprAsk' = "none" /\ apprWinner' = NoRoom
  /\ apprOffer' = [x \in Rooms |-> "none"]
  /\ UNCHANGED <<apprFollow, apprLeft, apprBy>>

ApprNext ==
  \/ ApprAsked \/ ApprAnswered \/ ApprElsewhere \/ ApprResolved \/ ApprTurnEnds
  \/ ApprLineLost \/ ApprCrash
  \/ \E x \in Rooms : \/ ApprCalled(x) \/ ApprCalledLate(x) \/ ApprJoins(x) \/ ApprLeaves(x)
                      \/ ApprRoomRestarts(x)
  \/ \E r \in ApprIds : ApprCardSent(r) \/ ApprNotice(r) \/ ApprNoticed(r)
  \/ \E r \in ApprIds, choice \in ApprAnswers : ApprDecided(r, choice)

ApprSpec == ApprInit /\ [][ApprNext]_apprVars

-----------------------------------------------------------------------------
(* What it promises.                                                       *)

ApprTypeOK ==
  /\ apprNative \in {"open", "ours", "gone"}
  /\ {apprTook, apprWire} \subseteq ApprAnswers \cup {"none"}
  /\ apprReq \in {"none", "asking", "submitted"} /\ apprSeen \in BOOLEAN
  /\ apprConn \in Nat /\ apprFollow \subseteq Rooms
  /\ apprAsk \in {"none", "open"} \cup ApprAnswers /\ apprWinner \in Rooms \cup {NoRoom}
  /\ apprOffer \in [Rooms -> {"none", "calling", "asking", "done"}]
  /\ apprLate \in [Rooms -> [key : Nat, routed : BOOLEAN]]
  /\ apprRoute \in [Rooms -> 0..MaxApprRows]
  /\ apprRows \in [ApprIds -> ApprRow]
  /\ apprOpen \subseteq ApprIds /\ apprLeft \subseteq ApprIds /\ apprBy \in 0..MaxApprRows
  /\ apprFaults \in 0..MaxApprFaults

\* Nothing is authorised that a user did not choose on a card, with the choice on
\* record: no timeout, closing, lost line or restart becomes a grant.
ApprAuthorised ==
  "accept" \in {apprTook, apprWire} => apprBy # 0 /\ apprRows[apprBy].choice = "accept"

\* Only the room whose answer was sent is told that it is confirmed, once the request
\* is over; the others are told that it was withdrawn.
ApprConfirmedRight == \A r \in ApprIds : apprRows[r].phase = "confirmed" =>
  r = apprBy /\ apprNative # "open"

\* A card decides only while its request waits for an answer, or for the result of
\* another room's; cards of rooms that left, and cards made late, excepted.
ApprCardsCurrent == \A r \in apprOpen \ apprLeft :
  LET x == apprRows[r].room
  IN apprRoute[x] = r /\ x \in apprFollow /\ apprReq # "none" /\ apprAsk # "none"

\* A notice counts as delivered only if the card, once known, is closed: also
\* when the card is acknowledged while a text is sent in its place.
ApprCardsClosed == \A r \in ApprIds :
  apprRows[r].delivery = "delivered" /\ apprRows[r].known => apprRows[r].card = "closed"

\* A confirmation stands, and a known card stays known.
ApprFinal == \A r \in ApprIds :
  /\ apprRows[r].phase = "confirmed" => apprRows'[r].phase = "confirmed"
  /\ apprRows[r].known => apprRows'[r].known

ApprPromise ==
  /\ [](/\ ApprTypeOK /\ ApprAuthorised /\ ApprConfirmedRight
        /\ ApprCardsCurrent /\ ApprCardsClosed)
  /\ [][ApprFinal]_apprVars
=============================================================================
