----------------------------- MODULE MCComponents -----------------------------
(* Small instances of the components that share no state, side by side: a      *)
(* behaviour is one of the component its `part` names, the others stand still. *)
EXTENDS InboundReceipts, ServiceLock, NpmUpdate, ReleaseGate, SystemRecovery

CONSTANTS m1, m2, p1, p2, p3, r1, r2, w1

MCMessages == {m1, m2}
MCStarters == {p1, p2, p3}
MCReleases == {r1, r2}
MCSysOps == {1, 2}

\* A terminal operation that two concurrent requests repeat with two inputs.
CONSTANTS Ops, Calls, Inputs, Resources, NoOp, NoInput, o1, c1, c2, i1, i2, t1

MCOps == {o1}
MCCalls == {c1, c2}
MCInputs == {i1, i2}
MCResources == {t1}

VARIABLES part, terminalKind, target, adapter, terminalMem, file, gate, call, access,
          sent, started, told, terminalFaults

Terminal == INSTANCE RuntimeWrites WITH
  kind <- terminalKind, mem <- terminalMem, faults <- terminalFaults, MaxFaults <- 3

terminalVars == <<terminalKind, target, adapter, terminalMem, file, gate, call, access,
                  sent, started, told, terminalFaults>>

Parts == {"receipts", "terminal", "lock", "npm", "gate", "system"}

mcVars == <<part, vars, terminalVars, lockVars, npmVars, gateVars, sysVars>>

\* What an initial state chooses is chosen for the part at work only.
MCInit ==
  /\ part \in Parts
  /\ Init /\ Terminal!Init /\ LockInit /\ NpmInit /\ GateInit /\ SysInit
  /\ part # "receipts" => \A m \in Messages : kind[m] = "turn"
  /\ part # "terminal" => adapter = "tui" /\ \A o \in Ops : terminalKind[o] = "send"
  /\ part # "npm" => newCode = "healthy"

\* The operations on a device differ in name only: of two that are free the
\* first one begins.
MCFirstSysOp == sysOp[1].at = "free" /\ sysOp[2].at = "free" => sysOp'[2].at = "free"

MCNext ==
  /\ UNCHANGED part
  /\ \/ /\ part = "receipts" /\ Next
        /\ UNCHANGED <<terminalVars, lockVars, npmVars, gateVars, sysVars>>
     \/ /\ part = "terminal" /\ Terminal!Next
        /\ UNCHANGED <<vars, lockVars, npmVars, gateVars, sysVars>>
     \/ /\ part = "lock" /\ LockNext
        /\ UNCHANGED <<vars, terminalVars, npmVars, gateVars, sysVars>>
     \/ /\ part = "npm" /\ NpmNext
        /\ UNCHANGED <<vars, terminalVars, lockVars, gateVars, sysVars>>
     \/ /\ part = "gate" /\ GateNext
        /\ UNCHANGED <<vars, terminalVars, lockVars, npmVars, sysVars>>
     \/ /\ part = "system" /\ SysNext /\ MCFirstSysOp
        /\ UNCHANGED <<vars, terminalVars, lockVars, npmVars, gateVars>>

\* The fairness of each component (Fairness, FairSpec, NpmFairness, SysFairness),
\* asked for of its own part only.
MCFairness ==
  /\ \A m \in Messages \ Legacy :
       /\ WF_vars(part = "receipts" /\ HandlerStep(m))
       /\ WF_vars(part = "receipts" /\ Observe(m))
       /\ WF_vars(part = "receipts" /\ ObservationEnds(m))
       /\ WF_vars(part = "receipts" /\ \E ok \in BOOLEAN : RecoverAccepted(m, ok))
  /\ \A c \in Calls : WF_terminalVars(part = "terminal" /\ Terminal!CallStep(c))
  /\ WF_npmVars(part = "npm" /\ (NpmStep \/ NpmDeadline))
  /\ \A g \in NpmGateways :
       WF_npmVars(part = "npm" /\ (NpmComeUp(g) \/ NpmServe(g) \/ NpmShutDown(g)))
  /\ WF_sysVars(part = "system" /\ \E o \in SysOps : SysRequestRestore(o))
  /\ WF_sysVars(part = "system" /\ \E o \in SysOps : SysFinish(o))
  /\ \A o \in SysOps : WF_sysVars(part = "system" /\ (SysDeviceStep(o) \/ SysForget(o)))
  /\ WF_sysVars(part = "system" /\ \E o \in SysOps : asked # o /\ SysLineLost(o))
  /\ WF_sysVars(/\ part = "system"
                /\ SysGatewayUp \/ (coordinator = "stopped" /\ SysGatewayDown))
  /\ WF_sysVars(part = "system" /\ SysDeviceUp)
  /\ WF_sysVars(part = "system" /\ SysTurnStarts)

MCSpec == MCInit /\ [][MCNext]_mcVars /\ MCFairness

\* A repeated terminal operation is written once, its requesters are told only
\* what the journal file says, and no path through it leaves the terminal locked.
RepeatedInput ==
  []Terminal!ToldIsDurable /\ Terminal!WritesAtMostOnce /\ (gate # {} ~> gate = {})
=============================================================================
