------------------------- MODULE OrchestratorProofs -------------------------
(***************************************************************************)
(* Proofs about Orchestrator, for every set of clients and callers, every  *)
(* plan and any number of runs, and, at the end, about WaitIdle.           *)
(*                                                                         *)
(* Each invariant is proved in three steps: the initial states satisfy it, *)
(* every action preserves it (one step of the proof per action), and PTL   *)
(* puts the two together.  The invariants build on one another: types,     *)
(* then who runs, then what follows from there being one run at a time.    *)
(***************************************************************************)
EXTENDS Orchestrator, WaitIdle, TLAPS

-----------------------------------------------------------------------------
(***************************************************************************)
(* Type correctness, strengthened to be inductive: a run that is active    *)
(* has a number, so has the run a caller acts on once its locked section   *)
(* is behind it, and a goroutine at work is at a step of its plan.         *)
(***************************************************************************)
FieldTypes ==
    /\ cfg \in Cfgs
    /\ selectedIDs \in SUBSET Clients
    /\ autoSelectNew \in BOOLEAN
    /\ runClientIDs \in SUBSET Clients
    /\ running \in BOOLEAN
    /\ cancel \in Runs \cup {NoRun}
    /\ phase \in Phases
    /\ statusText \in StatusTexts
    /\ failMessage \in BOOLEAN
    /\ phaseSpans \in Seq(Spans)

AroundTypes ==
    /\ recording \in BOOLEAN
    /\ registered \in SUBSET Clients
    /\ sent \in [kind : MessageKinds, run : Runs \cup {NoRun},
                 to : SUBSET Clients]
    /\ ctxDone \in SUBSET Runs
    /\ runNo \in Runs \cup {NoRun}
    /\ members \in [Runs -> SUBSET Clients]
    /\ stopSent \in [Runs -> SUBSET Clients]

\* Where a caller acts on the run it has taken note of.
Acting == {"begin", "announce", "cancel", "readIds", "sendStop", "freeze"}

\* Where a caller is about to report a client.
Reporting == {"registered", "removed"}

CallsOK ==
    /\ call \in [Callers -> CallStates]
    /\ \A h \in Callers :
          /\ call[h].pc \in Acting => call[h].run \in Runs
          /\ call[h].pc \in Reporting => call[h].client \in Clients

\* Where a goroutine is at a step of its plan.
AtWork == {"setPhase", "prep", "readIds", "send", "wait"}

RunsOK ==
    /\ run \in [Runs -> RunStates]
    /\ \A r \in Runs : run[r].pc \in AtWork =>
                         run[r].step \in DOMAIN PlanOf[run[r].cfg]

TypeInv ==
    /\ FieldTypes
    /\ AroundTypes
    /\ CallsOK
    /\ RunsOK
    /\ running => runNo \in Runs

LEMMA TypeInvImpliesTypeOK == TypeInv => TypeOK
  BY DEF TypeInv, FieldTypes, AroundTypes, CallsOK, RunsOK, TypeOK

LEMMA RunNumbers == NoRun \notin Runs
  BY DEF NoRun, Runs

-----------------------------------------------------------------------------
(***************************************************************************)
(* Lemmas about the helpers                                                *)
(***************************************************************************)

LEMMA ClosedType ==
    ASSUME NEW s \in Seq(Spans)
    PROVE  /\ closed(s) \in Seq(Spans)
           /\ Len(closed(s)) = Len(s)
  <1>1. /\ Len(s) \in Nat
        /\ DOMAIN s = 1..Len(s)
        /\ \A i \in 1..Len(s) : s[i] \in Spans
    OBVIOUS
  <1>2. \A i \in 1..Len(s) :
           [s[i] EXCEPT !.open = IF i = Len(s) THEN FALSE ELSE @] \in Spans
    BY <1>1, Zenon DEF Spans
  <1>3. closed(s) \in [1..Len(s) -> Spans]
    BY <1>1, <1>2 DEF closed
  <1> QED BY <1>1, <1>3

LEMMA EnteredType ==
    ASSUME phaseSpans \in Seq(Spans), NEW p \in Phases
    PROVE  entered(p) \in Seq(Spans)
  <1> DEFINE span == [phase |-> p, open |-> TRUE]
  <1>1. closed(phaseSpans) \in Seq(Spans)
    BY ClosedType
  <1>2. span \in Spans
    BY DEF Spans
  <1>3. Append(closed(phaseSpans), span) \in Seq(Spans)
    BY <1>1, <1>2
  <1> QED BY <1>3 DEF entered

LEMMA BroadcastType ==
    ASSUME AroundTypes, NEW ids \in SUBSET Clients, NEW kind \in MessageKinds,
           NEW r \in Runs \cup {NoRun}, BroadcastTo(ids, kind, r)
    PROVE  sent' \in [kind : MessageKinds, run : Runs \cup {NoRun},
                      to : SUBSET Clients]
  BY DEF AroundTypes, BroadcastTo

\* Caller h moves to the state `new'; the other callers stay where they are.
LEMMA CallMoves ==
    ASSUME CallsOK, NEW h \in Callers, NEW new \in CallStates,
           new.pc \in Acting => new.run \in Runs,
           new.pc \in Reporting => new.client \in Clients,
           call' = [call EXCEPT ![h] = new]
    PROVE  /\ CallsOK'
           /\ call'[h] = new
           /\ \A g \in Callers \ {h} : call'[g] = call[g]
  BY DEF CallsOK

LEMMA CallGoes ==
    ASSUME CallsOK, NEW h \in Callers, NEW pc \in Acting,
           call[h].pc \in Acting, CallGoto(h, pc)
    PROVE  /\ CallsOK'
           /\ call'[h] = [call[h] EXCEPT !.pc = pc]
           /\ \A g \in Callers \ {h} : call'[g] = call[g]
  <1> DEFINE new == [call[h] EXCEPT !.pc = pc]
  <1>1. /\ new \in CallStates /\ new.run \in Runs
        /\ new.pc \notin Reporting
    BY DEF CallsOK, CallStates, CallPCs, Acting, Reporting
  <1>2. call' = [call EXCEPT ![h] = new]
    BY DEF CallGoto
  <1> QED BY <1>1, <1>2, CallMoves

LEMMA CallEnds ==
    ASSUME CallsOK, NEW h \in Callers, CallDone(h)
    PROVE  /\ CallsOK'
           /\ call'[h].pc = "idle"
           /\ \A g \in Callers \ {h} : call'[g] = call[g]
  <1>1. IdleCall \in CallStates /\ IdleCall.pc = "idle"
    BY DEF IdleCall, CallStates, CallPCs
  <1> QED BY <1>1, CallMoves DEF CallDone, Acting, Reporting

\* The same for goroutines.
LEMMA RunMoves ==
    ASSUME RunsOK, NEW r \in Runs, NEW new \in RunStates,
           new.pc \in AtWork => new.step \in DOMAIN PlanOf[new.cfg],
           run' = [run EXCEPT ![r] = new]
    PROVE  /\ RunsOK'
           /\ run'[r] = new
           /\ \A q \in Runs \ {r} : run'[q] = run[q]
  BY DEF RunsOK

LEMMA RunGoes ==
    ASSUME RunsOK, NEW r \in Runs, NEW pc \in RunPCs,
           pc \in AtWork => run[r].step \in DOMAIN PlanOf[run[r].cfg],
           RunGoto(r, pc)
    PROVE  /\ RunsOK'
           /\ run'[r] = [run[r] EXCEPT !.pc = pc]
           /\ \A q \in Runs \ {r} : run'[q] = run[q]
  <1> DEFINE new == [run[r] EXCEPT !.pc = pc]
  <1>1. /\ new \in RunStates
        /\ new.pc = pc /\ new.step = run[r].step /\ new.cfg = run[r].cfg
    BY DEF RunsOK, RunStates
  <1>2. run' = [run EXCEPT ![r] = new]
    BY DEF RunGoto
  <1> QED BY <1>1, <1>2, RunMoves

LEMMA RunAdvances ==
    ASSUME RunsOK, NEW r \in Runs, NextStep(r)
    PROVE  /\ RunsOK'
           /\ run'[r] = [run[r] EXCEPT !.step = @ + 1,
                                      !.pc = StepPC(r, run[r].step + 1)]
           /\ \A q \in Runs \ {r} : run'[q] = run[q]
  <1> DEFINE new == [run[r] EXCEPT !.step = @ + 1,
                                   !.pc = StepPC(r, run[r].step + 1)]
  <1>1. run[r] \in RunStates /\ run[r].step + 1 \in Nat
    BY DEF RunsOK, RunStates
  <1>2. /\ StepPC(r, run[r].step + 1) \in RunPCs
        /\ StepPC(r, run[r].step + 1) \in AtWork =>
               run[r].step + 1 \in DOMAIN PlanOf[run[r].cfg]
    BY DEF StepPC, RunPCs, AtWork
  <1>3. /\ new \in RunStates
        /\ new.pc = StepPC(r, run[r].step + 1)
        /\ new.step = run[r].step + 1 /\ new.cfg = run[r].cfg
    BY <1>1, <1>2 DEF RunStates
  <1>4. run' = [run EXCEPT ![r] = new]
    BY DEF NextStep
  <1> QED BY <1>2, <1>3, <1>4, RunMoves

LEMMA RunGivesUp ==
    ASSUME RunsOK, NEW r \in Runs, NEW err \in {"ctx", "prep"}, GiveUp(r, err)
    PROVE  /\ RunsOK'
           /\ run'[r] = [run[r] EXCEPT !.err = err, !.pc = "outcome"]
           /\ \A q \in Runs \ {r} : run'[q] = run[q]
  <1> DEFINE new == [run[r] EXCEPT !.err = err, !.pc = "outcome"]
  <1>1. new \in RunStates /\ new.pc = "outcome"
    BY ZenonT(40) DEF RunsOK, RunStates, RunPCs
  <1>2. run' = [run EXCEPT ![r] = new]
    BY DEF GiveUp
  <1> QED BY <1>1, <1>2, RunMoves DEF AtWork

\* A goroutine at work has a current step.
LEMMA StepType ==
    ASSUME RunsOK, NEW r \in Runs, run[r].pc \in AtWork
    PROVE  CurrentStep(r).phase \in Phases
  <1>1. PlanOf[run[r].cfg] \in Seq(Steps)
    BY OrchestratorAssumption DEF RunsOK, RunStates
  <1>2. CurrentStep(r) \in Steps
    BY <1>1 DEF CurrentStep, RunsOK
  <1> QED BY <1>2 DEF Steps

-----------------------------------------------------------------------------
(***************************************************************************)
(* TypeInv is inductive                                                    *)
(***************************************************************************)

LEMMA InitTypeInv == Init => TypeInv
  <1> SUFFICES ASSUME Init PROVE TypeInv
    OBVIOUS
  <1>1. FieldTypes
    <2>1. "idle" \in Phases
      BY OrchestratorAssumption
    <2>2. << >> \in Seq(Spans)
      OBVIOUS
    <2> QED BY <2>1, <2>2 DEF Init, FieldTypes, StatusTexts
  <1>2. AroundTypes
    BY DEF Init, AroundTypes, MessageKinds
  <1>3. CallsOK
    BY DEF Init, CallsOK, IdleCall, CallStates, CallPCs, Acting, Reporting
  <1>4. RunsOK
    BY DEF Init, RunsOK, NewRun, RunStates, RunPCs, StatusTexts, AtWork
  <1> QED BY <1>1, <1>2, <1>3, <1>4 DEF Init, TypeInv

LEMMA NextTypeInv == TypeInv /\ [Next]_vars => TypeInv'
  <1> SUFFICES ASSUME TypeInv, [Next]_vars PROVE TypeInv'
    OBVIOUS
  <1>1. ASSUME NEW h \in Callers, StartLocked(h) PROVE TypeInv'
    <2> USE <1>1
    <2>1. FieldTypes'
      <3>1. ActiveOf[cfg] \in Seq(Phases)
        BY OrchestratorAssumption DEF TypeInv, FieldTypes
      <3>2. Head(ActiveOf[cfg]) \in Phases
        BY <3>1 DEF StartLocked
      <3>3. connectedSelected \in SUBSET Clients
        BY DEF connectedSelected, TypeInv, FieldTypes
      <3>4. << >> \in Seq(Spans)
        OBVIOUS
      <3> QED BY <3>2, <3>3, <3>4 DEF StartLocked, FieldTypes, TypeInv, StatusTexts
    <2>2. AroundTypes'
      <3>1. connectedSelected \in SUBSET Clients
        BY DEF connectedSelected, TypeInv, FieldTypes
      <3>2. members' \in [Runs -> SUBSET Clients] /\ runNo' \in Runs
        BY <3>1 DEF StartLocked, AroundTypes, TypeInv
      <3> QED BY <3>2 DEF StartLocked, AroundTypes, TypeInv
    <2>3. CallsOK'
      <3>1. [pc |-> "begin", run |-> runNo + 1, ids |-> connectedSelected,
             client |-> NoClient] \in CallStates
        BY DEF StartLocked, CallStates, CallPCs, TypeInv, FieldTypes, connectedSelected
      <3> QED BY <3>1, CallMoves DEF StartLocked, TypeInv, Reporting
    <2>4. RunsOK'
      <3>1. NewRun(cfg) \in RunStates /\ NewRun(cfg).pc \notin AtWork
        BY DEF NewRun, RunStates, RunPCs, StatusTexts, AtWork, TypeInv, FieldTypes
      <3> QED BY <3>1, RunMoves DEF StartLocked, TypeInv
    <2>5. running' => runNo' \in Runs
      BY DEF StartLocked
    <2> QED BY <2>1, <2>2, <2>3, <2>4, <2>5 DEF TypeInv
  <1>2. ASSUME NEW h \in Callers, StopLocked(h) PROVE TypeInv'
    <2> USE <1>2
    <2>1. FieldTypes'
      <3>1. closed(phaseSpans) \in Seq(Spans)
        BY ClosedType DEF TypeInv, FieldTypes
      <3> QED BY <3>1, OrchestratorAssumption
        DEF StopLocked, interrupted, FieldTypes, TypeInv, StatusTexts
    <2>2. AroundTypes'
      BY DEF StopLocked, ghosts, AroundTypes, TypeInv
    <2>3. CallsOK'
      <3>1. \A pc \in {"cancel", "readIds"} :
             [pc |-> pc, run |-> runNo, ids |-> {}, client |-> NoClient] \in CallStates
        BY DEF StopLocked, CallStates, CallPCs, TypeInv, AroundTypes
      <3>2. runNo \in Runs
        BY DEF StopLocked, TypeInv
      <3>3. PICK pc \in {"cancel", "readIds"} : call' = [call EXCEPT ![h] =
             [pc |-> pc, run |-> runNo, ids |-> {}, client |-> NoClient]]
        BY DEF StopLocked, interrupted
      <3> QED BY <3>1, <3>2, <3>3, CallMoves DEF TypeInv, Reporting
    <2>4. RunsOK'
      BY DEF StopLocked, RunsOK, TypeInv
    <2>5. running' => runNo' \in Runs
      BY DEF StopLocked, fields, TypeInv
    <2> QED BY <2>1, <2>2, <2>3, <2>4, <2>5 DEF TypeInv
  <1>3. ASSUME NEW h \in Callers, RemovedFailsRun(h) PROVE TypeInv'
    <2> USE <1>3
    <2>1. FieldTypes'
      <3>1. closed(phaseSpans) \in Seq(Spans)
        BY ClosedType DEF TypeInv, FieldTypes
      <3> QED BY <3>1, OrchestratorAssumption
        DEF RemovedFailsRun, interrupted, FieldTypes, TypeInv, StatusTexts
    <2>2. AroundTypes'
      BY DEF RemovedFailsRun, ghosts, AroundTypes, TypeInv
    <2>3. CallsOK'
      <3>1. \A pc \in {"cancel", "readIds"} :
             [pc |-> pc, run |-> runNo, ids |-> {}, client |-> call[h].client] \in CallStates
        BY DEF RemovedFailsRun, CallStates, CallPCs, TypeInv, AroundTypes, At, CallsOK
      <3>2. runNo \in Runs
        BY DEF RemovedFailsRun, TypeInv
      <3>3. PICK pc \in {"cancel", "readIds"} : call' = [call EXCEPT ![h] =
             [pc |-> pc, run |-> runNo, ids |-> {}, client |-> call[h].client]]
        BY DEF RemovedFailsRun, interrupted
      <3> QED BY <3>1, <3>2, <3>3, CallMoves DEF TypeInv, Reporting
    <2>4. RunsOK'
      BY DEF RemovedFailsRun, RunsOK, TypeInv
    <2>5. running' => runNo' \in Runs
      BY DEF RemovedFailsRun, fields, TypeInv
    <2> QED BY <2>1, <2>2, <2>3, <2>4, <2>5 DEF TypeInv
  <1>4. ASSUME NEW h \in Callers, RemovedIgnored(h) PROVE TypeInv'
    <2> USE <1>4
    <2>1. FieldTypes'
      BY DEF RemovedIgnored, fields, FieldTypes, TypeInv
    <2>2. AroundTypes'
      BY DEF RemovedIgnored, ghosts, AroundTypes, TypeInv
    <2>3. CallsOK'
      BY CallEnds DEF RemovedIgnored, TypeInv
    <2>4. RunsOK'
      BY DEF RemovedIgnored, RunsOK, TypeInv
    <2>5. running' => runNo' \in Runs
      BY DEF RemovedIgnored, fields, TypeInv
    <2> QED BY <2>1, <2>2, <2>3, <2>4, <2>5 DEF TypeInv
  <1>5. ASSUME NEW h \in Callers, OnClientRegistered(h) PROVE TypeInv'
    <2> USE <1>5
    <2>1. FieldTypes'
      <3>1. call[h].client \in Clients
        BY DEF OnClientRegistered, At, TypeInv, CallsOK, Reporting
      <3> QED BY <3>1 DEF OnClientRegistered, FieldTypes, TypeInv
    <2>2. AroundTypes'
      BY DEF OnClientRegistered, ghosts, AroundTypes, TypeInv
    <2>3. CallsOK'
      BY CallEnds DEF OnClientRegistered, TypeInv
    <2>4. RunsOK'
      BY DEF OnClientRegistered, RunsOK, TypeInv
    <2>5. running' => runNo' \in Runs
      BY DEF OnClientRegistered, fields, TypeInv
    <2> QED BY <2>1, <2>2, <2>3, <2>4, <2>5 DEF TypeInv
  <1>6. ASSUME NEW h \in Callers, StartBegin(h) PROVE TypeInv'
    <2> USE <1>6
    <2>1. FieldTypes'
      BY DEF StartBegin, fields, FieldTypes, TypeInv
    <2>2. AroundTypes'
      BY DEF StartBegin, ghosts, AroundTypes, TypeInv
    <2>3. CallsOK'
      <3>1. call[h].pc \in Acting /\ "announce" \in Acting
        BY DEF StartBegin, At, Acting
      <3> QED BY <3>1, CallGoes DEF StartBegin, TypeInv
    <2>4. RunsOK'
      BY DEF StartBegin, RunsOK, TypeInv
    <2>5. running' => runNo' \in Runs
      BY DEF StartBegin, fields, TypeInv
    <2> QED BY <2>1, <2>2, <2>3, <2>4, <2>5 DEF TypeInv
  <1>7. ASSUME NEW h \in Callers, StartAnnounce(h) PROVE TypeInv'
    <2> USE <1>7
    <2>1. FieldTypes'
      BY DEF StartAnnounce, fields, FieldTypes, TypeInv
    <2>2. AroundTypes'
      <3>1. call[h].ids \in SUBSET Clients /\ call[h].run \in Runs
        BY DEF StartAnnounce, At, TypeInv, CallsOK, CallStates, Acting
      <3>2. BroadcastTo(call[h].ids, "metrics_interval", call[h].run)
        BY DEF StartAnnounce
      <3>3. sent' \in [kind : MessageKinds, run : Runs \cup {NoRun}, to : SUBSET Clients]
        BY <3>1, <3>2, BroadcastType DEF TypeInv, MessageKinds
      <3> QED BY <3>3 DEF StartAnnounce, ghosts, AroundTypes, TypeInv
    <2>3. CallsOK'
      BY CallEnds DEF StartAnnounce, TypeInv
    <2>4. RunsOK'
      <3>1. call[h].run \in Runs
        BY DEF StartAnnounce, At, TypeInv, CallsOK, Acting
      <3>2. LET pc == StepPC(call[h].run, run[call[h].run].step)
            IN  /\ pc \in RunPCs
                /\ pc \in AtWork => run[call[h].run].step
                                       \in DOMAIN PlanOf[run[call[h].run].cfg]
        BY DEF StepPC, RunPCs, AtWork
      <3> QED BY <3>1, <3>2, RunGoes DEF StartAnnounce, TypeInv
    <2>5. running' => runNo' \in Runs
      BY DEF StartAnnounce, fields, TypeInv
    <2> QED BY <2>1, <2>2, <2>3, <2>4, <2>5 DEF TypeInv
  <1>8. ASSUME NEW h \in Callers, CallCancel(h) PROVE TypeInv'
    <2> USE <1>8
    <2>1. FieldTypes'
      BY DEF CallCancel, fields, FieldTypes, TypeInv
    <2>2. AroundTypes'
      BY DEF CallCancel, At, CallsOK, Acting, ghosts, AroundTypes, TypeInv
    <2>3. CallsOK'
      <3>1. call[h].pc \in Acting /\ "readIds" \in Acting
        BY DEF CallCancel, At, Acting
      <3> QED BY <3>1, CallGoes DEF CallCancel, TypeInv
    <2>4. RunsOK'
      BY DEF CallCancel, RunsOK, TypeInv
    <2>5. running' => runNo' \in Runs
      BY DEF CallCancel, fields, TypeInv
    <2> QED BY <2>1, <2>2, <2>3, <2>4, <2>5 DEF TypeInv
  <1>9. ASSUME NEW h \in Callers, CallReadIds(h) PROVE TypeInv'
    <2> USE <1>9
    <2>1. FieldTypes'
      BY DEF CallReadIds, fields, FieldTypes, TypeInv
    <2>2. AroundTypes'
      BY DEF CallReadIds, ghosts, AroundTypes, TypeInv
    <2>3. CallsOK'
      <3>1. [call[h] EXCEPT !.pc = "sendStop", !.ids = runClientIDs] \in CallStates
        BY DEF TypeInv, FieldTypes, CallsOK, CallStates, CallPCs
      <3>2. [call[h] EXCEPT !.pc = "sendStop", !.ids = runClientIDs].run \in Runs
        BY DEF CallReadIds, At, TypeInv, CallsOK, CallStates, Acting
      <3>3. [call[h] EXCEPT !.pc = "sendStop", !.ids = runClientIDs].pc \notin Reporting
        BY DEF TypeInv, CallsOK, CallStates, Reporting
      <3> QED BY <3>1, <3>2, <3>3, CallMoves, ZenonT(40) DEF CallReadIds, TypeInv
    <2>4. RunsOK'
      BY DEF CallReadIds, RunsOK, TypeInv
    <2>5. running' => runNo' \in Runs
      BY DEF CallReadIds, fields, TypeInv
    <2> QED BY <2>1, <2>2, <2>3, <2>4, <2>5 DEF TypeInv
  <1>10. ASSUME NEW h \in Callers, CallSendStop(h) PROVE TypeInv'
    <2> USE <1>10
    <2>1. FieldTypes'
      BY DEF CallSendStop, fields, FieldTypes, TypeInv
    <2>2. AroundTypes'
      <3>1. call[h].ids \in SUBSET Clients /\ call[h].run \in Runs
        BY DEF CallSendStop, At, TypeInv, CallsOK, CallStates, Acting
      <3>2. BroadcastTo(call[h].ids, "stop", call[h].run)
        BY DEF CallSendStop
      <3>3. sent' \in [kind : MessageKinds, run : Runs \cup {NoRun}, to : SUBSET Clients]
        BY <3>1, <3>2, BroadcastType DEF TypeInv, MessageKinds
      <3> QED BY <3>1, <3>3 DEF CallSendStop, AroundTypes, TypeInv
    <2>3. CallsOK'
      <3>1. [call[h] EXCEPT !.pc = "freeze", !.ids = {}] \in CallStates
        BY DEF TypeInv, CallsOK, CallStates, CallPCs
      <3>2. [call[h] EXCEPT !.pc = "freeze", !.ids = {}].run \in Runs
        BY DEF CallSendStop, At, TypeInv, CallsOK, CallStates, Acting
      <3>3. [call[h] EXCEPT !.pc = "freeze", !.ids = {}].pc \notin Reporting
        BY DEF TypeInv, CallsOK, CallStates, Reporting
      <3> QED BY <3>1, <3>2, <3>3, CallMoves, ZenonT(40) DEF CallSendStop, TypeInv
    <2>4. RunsOK'
      BY DEF CallSendStop, RunsOK, TypeInv
    <2>5. running' => runNo' \in Runs
      BY DEF CallSendStop, fields, TypeInv
    <2> QED BY <2>1, <2>2, <2>3, <2>4, <2>5 DEF TypeInv
  <1>11. ASSUME NEW h \in Callers, CallFreeze(h) PROVE TypeInv'
    <2> USE <1>11
    <2>1. FieldTypes'
      BY DEF CallFreeze, fields, FieldTypes, TypeInv
    <2>2. AroundTypes'
      BY DEF CallFreeze, ghosts, AroundTypes, TypeInv
    <2>3. CallsOK'
      BY CallEnds DEF CallFreeze, TypeInv
    <2>4. RunsOK'
      BY DEF CallFreeze, RunsOK, TypeInv
    <2>5. running' => runNo' \in Runs
      BY DEF CallFreeze, fields, TypeInv
    <2> QED BY <2>1, <2>2, <2>3, <2>4, <2>5 DEF TypeInv
  <1>12. ASSUME NEW h \in Callers, NEW c \in Clients, Register(h, c) PROVE TypeInv'
    <2> USE <1>12
    <2>1. FieldTypes'
      BY DEF Register, fields, FieldTypes, TypeInv
    <2>2. AroundTypes'
      BY DEF Register, ghosts, AroundTypes, TypeInv
    <2>3. CallsOK'
      <3>0. call[h] \in CallStates
        BY DEF TypeInv, CallsOK
      <3>1. [call[h] EXCEPT !.pc = "registered", !.client = c] \in CallStates
        BY <3>0 DEF CallStates, CallPCs
      <3>2. /\ [call[h] EXCEPT !.pc = "registered", !.client = c].pc \notin Acting
            /\ [call[h] EXCEPT !.pc = "registered", !.client = c].client \in Clients
        BY <3>0 DEF CallStates, Acting
      <3> QED BY <3>1, <3>2, CallMoves DEF Register, TypeInv
    <2>4. RunsOK'
      BY DEF Register, RunsOK, TypeInv
    <2>5. running' => runNo' \in Runs
      BY DEF Register, fields, TypeInv
    <2> QED BY <2>1, <2>2, <2>3, <2>4, <2>5 DEF TypeInv
  <1>13. ASSUME NEW h \in Callers, NEW c \in Clients, Unregister(h, c) PROVE TypeInv'
    <2> USE <1>13
    <2>1. FieldTypes'
      BY DEF Unregister, fields, FieldTypes, TypeInv
    <2>2. AroundTypes'
      BY DEF Unregister, ghosts, AroundTypes, TypeInv
    <2>3. CallsOK'
      <3>1. [call[h] EXCEPT !.pc = "removed", !.client = c] \in CallStates
        BY DEF TypeInv, CallsOK, CallStates, CallPCs
      <3>2. /\ [call[h] EXCEPT !.pc = "removed", !.client = c].pc \notin Acting
            /\ [call[h] EXCEPT !.pc = "removed", !.client = c].client \in Clients
        BY DEF TypeInv, CallsOK, CallStates, Acting
      <3> QED BY <3>1, <3>2, CallMoves, ZenonT(40) DEF Unregister, TypeInv
    <2>4. RunsOK'
      BY DEF Unregister, RunsOK, TypeInv
    <2>5. running' => runNo' \in Runs
      BY DEF Unregister, fields, TypeInv
    <2> QED BY <2>1, <2>2, <2>3, <2>4, <2>5 DEF TypeInv
  <1>14. ASSUME NEW new \in Cfgs, SetConfig(new) PROVE TypeInv'
    <2> USE <1>14
    <2>1. FieldTypes'
      BY DEF SetConfig, fields, FieldTypes, TypeInv
    <2>2. AroundTypes'
      <3>1. sent' \in [kind : MessageKinds, run : Runs \cup {NoRun}, to : SUBSET Clients]
        BY BroadcastType DEF SetConfig, TypeInv, AroundTypes, MessageKinds
      <3> QED BY <3>1 DEF SetConfig, ghosts, AroundTypes, TypeInv
    <2>3. CallsOK'
      BY DEF SetConfig, CallsOK, TypeInv
    <2>4. RunsOK'
      BY DEF SetConfig, RunsOK, TypeInv
    <2>5. running' => runNo' \in Runs
      BY DEF SetConfig, fields, TypeInv
    <2> QED BY <2>1, <2>2, <2>3, <2>4, <2>5 DEF TypeInv
  <1>15. ASSUME NEW next \in SUBSET Clients, NEW auto \in BOOLEAN,
          selected(next, auto) PROVE TypeInv'
    <2> USE <1>15
    <2>1. FieldTypes'
      BY DEF selected, fields, FieldTypes, TypeInv
    <2>2. AroundTypes'
      BY DEF selected, ghosts, AroundTypes, TypeInv
    <2>3. CallsOK'
      BY DEF selected, CallsOK, TypeInv
    <2>4. RunsOK'
      BY DEF selected, RunsOK, TypeInv
    <2>5. running' => runNo' \in Runs
      BY DEF selected, fields, TypeInv
    <2> QED BY <2>1, <2>2, <2>3, <2>4, <2>5 DEF TypeInv
  <1>16. ASSUME NEW r \in Runs, RunSetPhase(r) PROVE TypeInv'
    <2> USE <1>16
    <2>1. FieldTypes'
      <3>1. CurrentStep(r).phase \in Phases
        BY StepType DEF RunSetPhase, RunAt, AtWork, TypeInv
      <3>2. entered(CurrentStep(r).phase) \in Seq(Spans)
        BY <3>1, EnteredType DEF TypeInv, FieldTypes
      <3> QED BY <3>1, <3>2 DEF RunSetPhase, FieldTypes, TypeInv, StatusTexts
    <2>2. AroundTypes'
      BY DEF RunSetPhase, ghosts, AroundTypes, TypeInv
    <2>3. CallsOK'
      BY DEF RunSetPhase, CallsOK, TypeInv
    <2>4. RunsOK'
      <3>1. run[r].step \in DOMAIN PlanOf[run[r].cfg]
        BY DEF RunSetPhase, RunAt, AtWork, TypeInv, RunsOK
      <3>2. PICK pc \in {"prep", "readIds"} : RunGoto(r, pc)
        BY DEF RunSetPhase
      <3> QED BY <3>1, <3>2, RunGoes DEF TypeInv, RunPCs
    <2>5. running' => runNo' \in Runs
      BY DEF RunSetPhase, fields, TypeInv
    <2> QED BY <2>1, <2>2, <2>3, <2>4, <2>5 DEF TypeInv
  <1>17. ASSUME NEW r \in Runs, RunPrepDone(r) PROVE TypeInv'
    <2> USE <1>17
    <2>1. FieldTypes'
      BY DEF RunPrepDone, fields, FieldTypes, TypeInv
    <2>2. AroundTypes'
      BY DEF RunPrepDone, ghosts, AroundTypes, TypeInv
    <2>3. CallsOK'
      BY DEF RunPrepDone, CallsOK, TypeInv
    <2>4. RunsOK'
      BY RunAdvances DEF RunPrepDone, TypeInv
    <2>5. running' => runNo' \in Runs
      BY DEF RunPrepDone, fields, TypeInv
    <2> QED BY <2>1, <2>2, <2>3, <2>4, <2>5 DEF TypeInv
  <1>18. ASSUME NEW r \in Runs, RunWaitOver(r) PROVE TypeInv'
    <2> USE <1>18
    <2>1. FieldTypes'
      BY DEF RunWaitOver, fields, FieldTypes, TypeInv
    <2>2. AroundTypes'
      BY DEF RunWaitOver, ghosts, AroundTypes, TypeInv
    <2>3. CallsOK'
      BY DEF RunWaitOver, CallsOK, TypeInv
    <2>4. RunsOK'
      BY RunAdvances DEF RunWaitOver, TypeInv
    <2>5. running' => runNo' \in Runs
      BY DEF RunWaitOver, fields, TypeInv
    <2> QED BY <2>1, <2>2, <2>3, <2>4, <2>5 DEF TypeInv
  <1>19. ASSUME NEW r \in Runs, RunPrepFailed(r) PROVE TypeInv'
    <2> USE <1>19
    <2>1. FieldTypes'
      BY DEF RunPrepFailed, fields, FieldTypes, TypeInv
    <2>2. AroundTypes'
      BY DEF RunPrepFailed, ghosts, AroundTypes, TypeInv
    <2>3. CallsOK'
      BY DEF RunPrepFailed, CallsOK, TypeInv
    <2>4. RunsOK'
      BY RunGivesUp DEF RunPrepFailed, TypeInv
    <2>5. running' => runNo' \in Runs
      BY DEF RunPrepFailed, fields, TypeInv
    <2> QED BY <2>1, <2>2, <2>3, <2>4, <2>5 DEF TypeInv
  <1>20. ASSUME NEW r \in Runs, RunWaitCancelled(r) PROVE TypeInv'
    <2> USE <1>20
    <2>1. FieldTypes'
      BY DEF RunWaitCancelled, fields, FieldTypes, TypeInv
    <2>2. AroundTypes'
      BY DEF RunWaitCancelled, ghosts, AroundTypes, TypeInv
    <2>3. CallsOK'
      BY DEF RunWaitCancelled, CallsOK, TypeInv
    <2>4. RunsOK'
      BY RunGivesUp DEF RunWaitCancelled, TypeInv
    <2>5. running' => runNo' \in Runs
      BY DEF RunWaitCancelled, fields, TypeInv
    <2> QED BY <2>1, <2>2, <2>3, <2>4, <2>5 DEF TypeInv
  <1>21. ASSUME NEW r \in Runs, RunReadIds(r) PROVE TypeInv'
    <2> USE <1>21
    <2>1. FieldTypes'
      BY DEF RunReadIds, fields, FieldTypes, TypeInv
    <2>2. AroundTypes'
      BY DEF RunReadIds, ghosts, AroundTypes, TypeInv
    <2>3. CallsOK'
      BY DEF RunReadIds, CallsOK, TypeInv
    <2>4. RunsOK'
      <3>1. [run[r] EXCEPT !.pc = "send", !.ids = runClientIDs] \in RunStates
        <4>1. /\ run[r] \in RunStates
              /\ runClientIDs \in SUBSET Clients
          BY DEF TypeInv, RunsOK, FieldTypes
        <4> QED BY <4>1 DEF RunStates, RunPCs, StatusTexts
      <3>2. /\ [run[r] EXCEPT !.pc = "send", !.ids = runClientIDs].step = run[r].step
            /\ [run[r] EXCEPT !.pc = "send", !.ids = runClientIDs].cfg = run[r].cfg
            /\ run[r].step \in DOMAIN PlanOf[run[r].cfg]
        <4>1. run[r] \in RunStates /\ run[r].pc = "readIds"
          BY DEF RunReadIds, RunAt, TypeInv, RunsOK
        <4>2. run[r].step \in DOMAIN PlanOf[run[r].cfg]
          BY <4>1 DEF AtWork, TypeInv, RunsOK
        <4>3. /\ [run[r] EXCEPT !.pc = "send", !.ids = runClientIDs].step = run[r].step
              /\ [run[r] EXCEPT !.pc = "send", !.ids = runClientIDs].cfg = run[r].cfg
          BY <4>1 DEF RunStates
        <4> QED BY <4>2, <4>3
      <3> QED BY <3>1, <3>2, RunMoves DEF RunReadIds, TypeInv
    <2>5. running' => runNo' \in Runs
      BY DEF RunReadIds, fields, TypeInv
    <2> QED BY <2>1, <2>2, <2>3, <2>4, <2>5 DEF TypeInv
  <1>22. ASSUME NEW r \in Runs, RunSend(r) PROVE TypeInv'
    <2> USE <1>22
    <2>1. FieldTypes'
      BY DEF RunSend, fields, FieldTypes, TypeInv
    <2>2. AroundTypes'
      <3>1. run[r].ids \in SUBSET Clients
        BY DEF TypeInv, RunsOK, RunStates
      <3>2. sent' \in [kind : MessageKinds, run : Runs \cup {NoRun}, to : SUBSET Clients]
        BY <3>1, BroadcastType DEF RunSend, TypeInv, MessageKinds
      <3> QED BY <3>2 DEF RunSend, ghosts, AroundTypes, TypeInv
    <2>3. CallsOK'
      BY DEF RunSend, CallsOK, TypeInv
    <2>4. RunsOK'
      <3>1. [run[r] EXCEPT !.pc = "wait", !.ids = {}] \in RunStates
        <4>1. /\ run[r] \in RunStates
              /\ runClientIDs \in SUBSET Clients
          BY DEF TypeInv, RunsOK, FieldTypes
        <4> QED BY <4>1 DEF RunStates, RunPCs, StatusTexts
      <3>2. /\ [run[r] EXCEPT !.pc = "wait", !.ids = {}].step = run[r].step
            /\ [run[r] EXCEPT !.pc = "wait", !.ids = {}].cfg = run[r].cfg
            /\ run[r].step \in DOMAIN PlanOf[run[r].cfg]
        BY DEF RunSend, RunAt, AtWork, TypeInv, RunsOK, RunStates
      <3>3. RunsOK /\ run' = [run EXCEPT ![r] = [run[r] EXCEPT !.pc = "wait", !.ids = {}]]
        BY DEF RunSend, TypeInv
      <3> QED BY <3>1, <3>2, <3>3, RunMoves
    <2>5. running' => runNo' \in Runs
      BY DEF RunSend, fields, TypeInv
    <2> QED BY <2>1, <2>2, <2>3, <2>4, <2>5 DEF TypeInv
  <1>23. ASSUME NEW r \in Runs, RunOutcome(r) PROVE TypeInv'
    <2> USE <1>23
    <2>1. FieldTypes'
      BY DEF RunOutcome, fields, FieldTypes, TypeInv
    <2>2. AroundTypes'
      BY DEF RunOutcome, ghosts, AroundTypes, TypeInv
    <2>3. CallsOK'
      BY DEF RunOutcome, CallsOK, TypeInv
    <2>4. RunsOK'
      <3>1. PICK text \in StatusTexts :
             run' = [run EXCEPT ![r] = [@ EXCEPT !.pc = "freeze", !.text = text]]
        BY DEF RunOutcome, StatusTexts
      <3>2. run[r] \in RunStates /\ RunsOK
        BY DEF TypeInv, RunsOK
      <3>3. /\ [run[r] EXCEPT !.pc = "freeze", !.text = text] \in RunStates
            /\ [run[r] EXCEPT !.pc = "freeze", !.text = text].pc = "freeze"
        BY <3>2 DEF RunStates, RunPCs
      <3>4. "freeze" \notin AtWork
        BY DEF AtWork
      <3> QED BY <3>1, <3>2, <3>3, <3>4, RunMoves
    <2>5. running' => runNo' \in Runs
      BY DEF RunOutcome, fields, TypeInv
    <2> QED BY <2>1, <2>2, <2>3, <2>4, <2>5 DEF TypeInv
  <1>24. ASSUME NEW r \in Runs, RunFreeze(r) PROVE TypeInv'
    <2> USE <1>24
    <2>1. FieldTypes'
      BY DEF RunFreeze, fields, FieldTypes, TypeInv
    <2>2. AroundTypes'
      BY DEF RunFreeze, ghosts, AroundTypes, TypeInv
    <2>3. CallsOK'
      BY DEF RunFreeze, CallsOK, TypeInv
    <2>4. RunsOK'
      BY RunGoes DEF RunFreeze, RunPCs, AtWork, TypeInv
    <2>5. running' => runNo' \in Runs
      BY DEF RunFreeze, fields, TypeInv
    <2> QED BY <2>1, <2>2, <2>3, <2>4, <2>5 DEF TypeInv
  <1>25. ASSUME NEW r \in Runs, finish(r) PROVE TypeInv'
    <2> USE <1>25
    <2>1. FieldTypes'
      <3>1. closed(phaseSpans) \in Seq(Spans)
        BY ClosedType DEF TypeInv, FieldTypes
      <3>2. finalText(r) \in StatusTexts
        BY DEF finalText, TypeInv, RunsOK, RunStates, StatusTexts
      <3> QED BY <3>1, <3>2, OrchestratorAssumption DEF finish, FieldTypes, TypeInv
    <2>2. AroundTypes'
      BY DEF finish, ghosts, AroundTypes, TypeInv
    <2>3. CallsOK'
      BY DEF finish, CallsOK, TypeInv
    <2>4. RunsOK'
      <3>1. [run[r] EXCEPT !.pc = "done", !.text = "Ready"] \in RunStates
        <4>1. /\ run[r] \in RunStates
              /\ runClientIDs \in SUBSET Clients
          BY DEF TypeInv, RunsOK, FieldTypes
        <4> QED BY <4>1 DEF RunStates, RunPCs, StatusTexts
      <3>2. [run[r] EXCEPT !.pc = "done", !.text = "Ready"].pc \notin AtWork
        BY DEF AtWork, TypeInv, RunsOK, RunStates
      <3>3. RunsOK /\ run' = [run EXCEPT ![r] = [run[r] EXCEPT !.pc = "done", !.text = "Ready"]]
        BY DEF finish, TypeInv
      <3> QED BY <3>1, <3>2, <3>3, RunMoves
    <2>5. running' => runNo' \in Runs
      BY DEF finish, fields, TypeInv
    <2> QED BY <2>1, <2>2, <2>3, <2>4, <2>5 DEF TypeInv
  <1>26. CASE UNCHANGED vars
    BY <1>26 DEF vars, fields, ghosts, TypeInv, FieldTypes, AroundTypes, CallsOK,
       RunsOK
  <1>27. ASSUME \/ SelectAll \/ SelectNone \/ SelectFirstN
                \/ \E add, remove \in SUBSET Clients : SelectAddRemove(add, remove)
                \/ \E ids \in SUBSET Clients : SelectReplace(ids)
         PROVE  \E next \in SUBSET Clients, auto \in BOOLEAN : selected(next, auto)
    <2>1. registered \in SUBSET Clients /\ selectedIDs \in SUBSET Clients
      BY DEF TypeInv, AroundTypes, FieldTypes
    <2>2. \A S : complete(S) \in BOOLEAN
      BY DEF complete
    <2> QED BY <1>27, <2>1, <2>2
            DEF SelectAll, SelectNone, SelectFirstN, SelectAddRemove, SelectReplace
  <1> QED
    BY <1>1, <1>2, <1>3, <1>4, <1>5, <1>6, <1>7, <1>8, <1>9, <1>10, <1>11, <1>12,
       <1>13, <1>14, <1>15, <1>16, <1>17, <1>18, <1>19, <1>20, <1>21, <1>22,
       <1>23, <1>24, <1>25, <1>26, <1>27
    DEF Next, RunNext, CallNext, Environment

\* Every variable keeps its type, in every run of every instance.
THEOREM TypeCorrect == Spec => []TypeOK
  <1>1. Spec => []TypeInv
    BY InitTypeInv, NextTypeInv, PTL DEF Spec
  <1> QED BY <1>1, TypeInvImpliesTypeOK, PTL

-----------------------------------------------------------------------------
(***************************************************************************)
(* One run at a time.  The goroutine of a run is created two steps after   *)
(* the locked part of Start, so the invariant also speaks of the caller in *)
(* between: it holds the latest run, whose goroutine does not exist yet,   *)
(* and there is one such caller at most.                                   *)
(***************************************************************************)
Starting(h) == call[h].pc \in {"begin", "announce"}

StartsOK ==
    /\ \A h \in Callers : Starting(h) =>
          running /\ call[h].run = runNo /\ run[runNo].pc = "none"
    /\ \A h, g \in Callers : Starting(h) /\ Starting(g) => h = g

RunInv == OneRunAtATime /\ StartsOK

LEMMA InitRunInv == Init => RunInv
  BY DEF Init, RunInv, OneRunAtATime, StartsOK, Starting, Alive, NewRun, IdleCall

LEMMA NextRunInv == TypeInv /\ RunInv /\ [Next]_vars => RunInv'
  <1> SUFFICES ASSUME TypeInv, RunInv, [Next]_vars PROVE RunInv'
    OBVIOUS
  <1> USE DEF RunInv, OneRunAtATime, StartsOK, Starting, Alive,
      TypeInv, CallsOK, RunsOK, CallStates, RunStates, Acting, Runs, NoRun,
      fields, ghosts, At, RunAt, CallGoto, CallDone, IdleCall, RunGoto,
      NextStep, GiveUp, StepPC, NewRun, interrupted
  <1>1. ASSUME NEW h \in Callers, StartLocked(h) PROVE RunInv'
    BY <1>1 DEF StartLocked
  <1>2. ASSUME NEW h \in Callers, StopLocked(h) PROVE RunInv'
    BY <1>2 DEF StopLocked
  <1>3. ASSUME NEW h \in Callers, StartBegin(h) PROVE RunInv'
    BY <1>3 DEF StartBegin
  <1>4. ASSUME NEW h \in Callers, StartAnnounce(h) PROVE RunInv'
    BY <1>4 DEF StartAnnounce
  <1>5. ASSUME NEW h \in Callers, RemovedIgnored(h) PROVE RunInv'
    BY <1>5 DEF RemovedIgnored
  <1>6. ASSUME NEW h \in Callers, RemovedFailsRun(h) PROVE RunInv'
    BY <1>6 DEF RemovedFailsRun
  <1>7. ASSUME NEW h \in Callers, CallCancel(h) PROVE RunInv'
    BY <1>7 DEF CallCancel
  <1>8. ASSUME NEW h \in Callers, CallReadIds(h) PROVE RunInv'
    BY <1>8 DEF CallReadIds
  <1>9. ASSUME NEW h \in Callers, CallSendStop(h) PROVE RunInv'
    BY <1>9 DEF CallSendStop
  <1>10. ASSUME NEW h \in Callers, CallFreeze(h) PROVE RunInv'
    BY <1>10 DEF CallFreeze
  <1>11. ASSUME NEW h \in Callers, OnClientRegistered(h) PROVE RunInv'
    BY <1>11 DEF OnClientRegistered
  <1>12. ASSUME NEW h \in Callers, NEW c \in Clients, Register(h, c) PROVE RunInv'
    BY <1>12 DEF Register
  <1>13. ASSUME NEW h \in Callers, NEW c \in Clients, Unregister(h, c) PROVE RunInv'
    BY <1>13 DEF Unregister
  <1>14. ASSUME NEW new \in Cfgs, SetConfig(new) PROVE RunInv'
    BY <1>14 DEF SetConfig
  <1>15. ASSUME NEW next, NEW auto, selected(next, auto) PROVE RunInv'
    BY <1>15 DEF selected
  <1>16. ASSUME NEW r \in Runs, RunSetPhase(r) PROVE RunInv'
    BY <1>16 DEF RunSetPhase
  <1>17. ASSUME NEW r \in Runs, RunPrepDone(r) PROVE RunInv'
    BY <1>17 DEF RunPrepDone
  <1>18. ASSUME NEW r \in Runs, RunPrepFailed(r) PROVE RunInv'
    BY <1>18 DEF RunPrepFailed
  <1>19. ASSUME NEW r \in Runs, RunReadIds(r) PROVE RunInv'
    BY <1>19 DEF RunReadIds
  <1>20. ASSUME NEW r \in Runs, RunSend(r) PROVE RunInv'
    BY <1>20 DEF RunSend
  <1>21. ASSUME NEW r \in Runs, RunWaitOver(r) PROVE RunInv'
    BY <1>21 DEF RunWaitOver
  <1>22. ASSUME NEW r \in Runs, RunWaitCancelled(r) PROVE RunInv'
    BY <1>22 DEF RunWaitCancelled
  <1>23. ASSUME NEW r \in Runs, RunOutcome(r) PROVE RunInv'
    BY <1>23 DEF RunOutcome
  <1>24. ASSUME NEW r \in Runs, RunFreeze(r) PROVE RunInv'
    BY <1>24 DEF RunFreeze
  <1>25. ASSUME NEW r \in Runs, finish(r) PROVE RunInv'
    BY <1>25 DEF finish
  <1>26. CASE UNCHANGED vars
    BY <1>26 DEF vars
  <1> QED
    BY <1>1, <1>2, <1>3, <1>4, <1>5, <1>6, <1>7, <1>8, <1>9, <1>10,
       <1>11, <1>12, <1>13, <1>14, <1>15, <1>16, <1>17, <1>18, <1>19, <1>20,
       <1>21, <1>22, <1>23, <1>24, <1>25, <1>26
    DEF Next, RunNext, CallNext, Environment, SelectAll, SelectNone, SelectFirstN,
        SelectAddRemove, SelectReplace

LEMMA AlwaysRunInv == Spec => [](TypeInv /\ RunInv)
  BY InitTypeInv, NextTypeInv, InitRunInv, NextRunInv, PTL DEF Spec

\* Two starts, however they interleave with stops, losses and the end of the
\* last run, never leave two run goroutines, nor one the orchestrator takes for
\* finished.
THEOREM SingleRun == Spec => []OneRunAtATime
  BY AlwaysRunInv, PTL DEF RunInv

-----------------------------------------------------------------------------
(***************************************************************************)
(* Phase spans.  What opens and closes them are two operators on sequences *)
(* and the invariant is inductive once there is one run at a time: only    *)
(* the goroutine of an active run enters a phase.                          *)
(***************************************************************************)

\* The same of given spans, which is what the two operators preserve.
Follow(spans, p, active) ==
    /\ \A i \in 1..Len(spans) : i # Len(spans) => ~spans[i].open
    /\ spans # << >> =>
          /\ spans[Len(spans)].open => active /\ spans[Len(spans)].phase = p
          /\ active /\ p # "stopped" => spans[Len(spans)].open

LEMMA FollowIsSpansFollowPhase ==
    ASSUME phaseSpans \in Seq(Spans)
    PROVE  SpansFollowPhase <=> Follow(phaseSpans, phase, running)
  <1>1. Len(phaseSpans) \in Nat /\ (phaseSpans # << >> <=> Len(phaseSpans) > 0)
    OBVIOUS
  <1>2. 1..(Len(phaseSpans) - 1) = {i \in 1..Len(phaseSpans) : i # Len(phaseSpans)}
    BY <1>1
  <1> QED BY <1>1, <1>2 DEF SpansFollowPhase, Follow

\* Once the last span is closed, none is open.
LEMMA ClosedFollows ==
    ASSUME NEW s \in Seq(Spans), NEW p, NEW active, Follow(s, p, active)
    PROVE  /\ \A i \in 1..Len(closed(s)) : ~closed(s)[i].open
           /\ Follow(closed(s), "stopped", active)
           /\ \A q : Follow(closed(s), q, FALSE)
  <1> DEFINE t == closed(s)
  <1>1. t \in Seq(Spans) /\ Len(t) = Len(s) /\ Len(s) \in Nat
    BY ClosedType
  <1>2. ASSUME NEW i \in 1..Len(t) PROVE ~t[i].open
    <2>1. i \in DOMAIN s /\ s[i] \in Spans
      BY <1>1, <1>2
    <2>2. t[i] = [s[i] EXCEPT !.open = IF i = Len(s) THEN FALSE ELSE @]
      BY <2>1 DEF closed
    <2>3. t[i].open = IF i = Len(s) THEN FALSE ELSE s[i].open
      BY <2>1, <2>2 DEF Spans
    <2> QED BY <1>1, <2>3 DEF Follow
  <1>3. t # << >> => Len(t) \in 1..Len(t)
    BY <1>1
  <1> HIDE DEF t
  <1>4. Follow(t, "stopped", active) /\ \A q : Follow(t, q, FALSE)
    BY <1>2, <1>3 DEF Follow
  <1> QED BY <1>2, <1>4 DEF t

\* The span of the phase that is entered is the only one open.
LEMMA EnteredFollows ==
    ASSUME phaseSpans \in Seq(Spans), NEW p \in Phases, running,
           Follow(phaseSpans, phase, running)
    PROVE  Follow(entered(p), p, TRUE)
  <1> DEFINE span == [phase |-> p, open |-> TRUE]
             s == closed(phaseSpans)
             t == Append(s, span)
  <1>1. CASE p # phase \/ phaseSpans = << >>
    <2>1. s \in Seq(Spans) /\ Len(s) \in Nat /\ \A i \in 1..Len(s) : ~s[i].open
      <3>1. s \in Seq(Spans) /\ Len(s) \in Nat
        BY ClosedType
      <3>2. \A i \in 1..Len(s) : ~s[i].open
        BY ClosedFollows, Zenon
      <3> QED BY <3>1, <3>2
    <2>2. span \in Spans /\ span.open /\ span.phase = p
      BY DEF Spans
    <2> HIDE DEF s, span
    <2>3. /\ t \in Seq(Spans)
          /\ Len(t) = Len(s) + 1
          /\ \A i \in 1..Len(s) : t[i] = s[i]
          /\ t[Len(s) + 1] = span
      BY <2>1, <2>2
    <2> HIDE DEF t
    <2>4. Follow(t, p, TRUE)
      BY <2>1, <2>2, <2>3 DEF Follow
    <2> QED BY <1>1, <2>4 DEF entered, t, s, span
  <1>2. CASE ~(p # phase \/ phaseSpans = << >>)
    <2>1. entered(p) = phaseSpans /\ phase = p
      BY <1>2 DEF entered
    <2> QED BY <2>1
  <1> QED BY <1>1, <1>2

LEMMA NextSpans ==
    TypeInv /\ RunInv /\ SpansFollowPhase /\ [Next]_vars => SpansFollowPhase'
  <1> DEFINE SpanInv == Follow(phaseSpans, phase, running)
  <1> SUFFICES ASSUME TypeInv, RunInv, SpanInv, [Next]_vars PROVE SpanInv'
    <2>1. TypeInv /\ [Next]_vars => phaseSpans \in Seq(Spans) /\ phaseSpans' \in Seq(Spans)
      BY NextTypeInv DEF TypeInv, FieldTypes
    <2>2. ASSUME phaseSpans' \in Seq(Spans) PROVE SpansFollowPhase' <=> SpanInv'
      <3>1. Len(phaseSpans') \in Nat /\ (phaseSpans' # << >> <=> Len(phaseSpans') > 0)
        BY <2>2
      <3>2. 1..(Len(phaseSpans') - 1) = {i \in 1..Len(phaseSpans') : i # Len(phaseSpans')}
        BY <3>1
      <3> QED BY <3>1, <3>2 DEF SpansFollowPhase, Follow
    <2> QED BY <2>1, <2>2, FollowIsSpansFollowPhase
  <1>t. phaseSpans \in Seq(Spans) /\ running \in BOOLEAN
    BY DEF TypeInv, FieldTypes
  <1>1. ASSUME UNCHANGED <<phaseSpans, phase, running>> PROVE SpanInv'
    BY <1>1
  <1>2. ASSUME NEW h \in Callers, StartLocked(h) PROVE SpanInv'
    <2>1. phaseSpans' = << >> /\ Len(<< >>) = 0
      BY <1>2 DEF StartLocked
    <2> QED BY <2>1 DEF Follow
  <1>3. ASSUME NEW h \in Callers, NEW c, NEW text, interrupted(h, c, text), running' = running
        PROVE  SpanInv'
    <2>1. phaseSpans' = closed(phaseSpans) /\ phase' = "stopped"
      BY <1>3 DEF interrupted
    <2>2. Follow(closed(phaseSpans), "stopped", running)
      BY <1>t, ClosedFollows
    <2> QED BY <1>3, <2>1, <2>2
  <1>4. ASSUME NEW r \in Runs, RunSetPhase(r) PROVE SpanInv'
    <2>1. running
      BY <1>4 DEF RunSetPhase, RunAt, RunInv, OneRunAtATime, Alive
    <2>2. CurrentStep(r).phase \in Phases
      <3>1. run[r].cfg \in Cfgs /\ run[r].step \in DOMAIN PlanOf[run[r].cfg]
        BY <1>4 DEF RunSetPhase, RunAt, TypeInv, RunsOK, RunStates, AtWork
      <3>2. PlanOf[run[r].cfg] \in Seq(Steps)
        BY <3>1, OrchestratorAssumption
      <3>3. CurrentStep(r) \in Steps
        BY <3>1, <3>2 DEF CurrentStep
      <3> QED BY <3>3 DEF Steps
    <2>3. Follow(entered(CurrentStep(r).phase), CurrentStep(r).phase, TRUE)
      BY <1>t, <2>1, <2>2, EnteredFollows
    <2>4. /\ phaseSpans' = entered(CurrentStep(r).phase)
          /\ phase' = CurrentStep(r).phase
          /\ running' = running
      BY <1>4 DEF RunSetPhase
    <2> QED BY <2>1, <2>3, <2>4
  <1>5. ASSUME NEW r \in Runs, finish(r) PROVE SpanInv'
    <2>1. phaseSpans' = closed(phaseSpans) /\ running' = FALSE
      BY <1>5 DEF finish
    <2>2. Follow(closed(phaseSpans), phase', FALSE)
      BY <1>t, ClosedFollows
    <2> QED BY <2>1, <2>2
  <1>6. ASSUME NEW h \in Callers, StopLocked(h) PROVE SpanInv'
    BY <1>6, <1>3 DEF StopLocked
  <1>7. ASSUME NEW h \in Callers, CallNext(h) PROVE SpanInv'
    <2>1. ASSUME RemovedFailsRun(h) PROVE SpanInv'
      BY <2>1, <1>3 DEF RemovedFailsRun
    <2>2. ASSUME StartBegin(h) \/ StartAnnounce(h) \/ RemovedIgnored(h) \/ CallCancel(h)
                 \/ CallReadIds(h) \/ CallSendStop(h) \/ CallFreeze(h) \/ OnClientRegistered(h)
          PROVE  SpanInv'
      BY <2>2, <1>1 DEF StartBegin, StartAnnounce, RemovedIgnored, CallCancel,
         CallReadIds,
         CallSendStop, CallFreeze, OnClientRegistered, fields
    <2> QED BY <1>7, <2>1, <2>2 DEF CallNext
  <1>8. ASSUME NEW h \in Callers, NEW c \in Clients, Register(h, c) \/ Unregister(h, c)
        PROVE  SpanInv'
    BY <1>8, <1>1 DEF Register, Unregister, fields
  <1>9. ASSUME NEW new \in Cfgs, SetConfig(new) PROVE SpanInv'
    BY <1>9, <1>1 DEF SetConfig
  <1>10. ASSUME NEW next, NEW auto, selected(next, auto) PROVE SpanInv'
    BY <1>10, <1>1 DEF selected
  <1>11. ASSUME NEW r \in Runs,
                RunPrepDone(r) \/ RunPrepFailed(r) \/ RunReadIds(r) \/ RunSend(r)
                \/ RunWaitOver(r) \/ RunWaitCancelled(r) \/ RunOutcome(r) \/ RunFreeze(r)
         PROVE  SpanInv'
    BY <1>11, <1>1 DEF RunPrepDone, RunPrepFailed, RunReadIds, RunSend, RunWaitOver,
       RunWaitCancelled, RunOutcome, RunFreeze, fields
  <1>12. CASE UNCHANGED vars
    BY <1>12, <1>1 DEF vars, fields
  <1> HIDE DEF SpanInv
  <1> QED
    BY <1>2, <1>4, <1>5, <1>6, <1>7, <1>8, <1>9, <1>10, <1>11, <1>12
    DEF Next, RunNext, Environment, SelectAll, SelectNone, SelectFirstN,
        SelectAddRemove, SelectReplace

\* Only the last phase span is ever open, and it is open exactly while its phase
\* is the one shown, wherever stops and losses interrupt the phases.
THEOREM SpansAreThoseOfThePhases == Spec => []SpansFollowPhase
  <1>1. Init => SpansFollowPhase
    BY DEF Init, SpansFollowPhase
  <1> QED BY <1>1, AlwaysRunInv, NextSpans, PTL DEF Spec

-----------------------------------------------------------------------------
(***************************************************************************)
(* Recording.  It begins after running is set, and the goroutine freezes   *)
(* it before it resets running; the invariant says that nothing turns it   *)
(* back on in between.                                                     *)
(***************************************************************************)
RecordingInv ==
    /\ RecordingOnlyInRun
    /\ \A r \in Runs : RunAt(r, "finish") => ~recording

LEMMA InitRecordingInv == Init => RecordingInv
  BY DEF Init, RecordingInv, RecordingOnlyInRun, RunAt, NewRun

LEMMA NextRecordingInv ==
    TypeInv /\ RunInv /\ RecordingInv /\ [Next]_vars => RecordingInv'
  <1> SUFFICES ASSUME TypeInv, RunInv, RecordingInv, [Next]_vars PROVE RecordingInv'
    OBVIOUS
  <1> USE DEF RecordingInv, RecordingOnlyInRun, RunInv, OneRunAtATime, StartsOK,
      Starting, Alive, TypeInv, CallsOK, RunsOK, CallStates, RunStates,
      fields, ghosts, At, RunAt, CallGoto, CallDone, IdleCall, RunGoto,
      NextStep, GiveUp, StepPC, NewRun, interrupted
  <1>1. ASSUME NEW h \in Callers, StartLocked(h) PROVE RecordingInv'
    BY <1>1 DEF StartLocked
  <1>2. ASSUME NEW h \in Callers, StopLocked(h) PROVE RecordingInv'
    BY <1>2 DEF StopLocked
  <1>3. ASSUME NEW h \in Callers, StartBegin(h) PROVE RecordingInv'
    BY <1>3 DEF StartBegin
  <1>4. ASSUME NEW h \in Callers, StartAnnounce(h) PROVE RecordingInv'
    BY <1>4 DEF StartAnnounce
  <1>5. ASSUME NEW h \in Callers, RemovedIgnored(h) PROVE RecordingInv'
    BY <1>5 DEF RemovedIgnored
  <1>6. ASSUME NEW h \in Callers, RemovedFailsRun(h) PROVE RecordingInv'
    BY <1>6 DEF RemovedFailsRun
  <1>7. ASSUME NEW h \in Callers, CallCancel(h) PROVE RecordingInv'
    BY <1>7 DEF CallCancel
  <1>8. ASSUME NEW h \in Callers, CallReadIds(h) PROVE RecordingInv'
    BY <1>8 DEF CallReadIds
  <1>9. ASSUME NEW h \in Callers, CallSendStop(h) PROVE RecordingInv'
    BY <1>9 DEF CallSendStop
  <1>10. ASSUME NEW h \in Callers, CallFreeze(h) PROVE RecordingInv'
    BY <1>10 DEF CallFreeze
  <1>11. ASSUME NEW h \in Callers, OnClientRegistered(h) PROVE RecordingInv'
    BY <1>11 DEF OnClientRegistered
  <1>12. ASSUME NEW h \in Callers, NEW c \in Clients, Register(h, c) PROVE RecordingInv'
    BY <1>12 DEF Register
  <1>13. ASSUME NEW h \in Callers, NEW c \in Clients, Unregister(h, c) PROVE RecordingInv'
    BY <1>13 DEF Unregister
  <1>14. ASSUME NEW new \in Cfgs, SetConfig(new) PROVE RecordingInv'
    BY <1>14 DEF SetConfig
  <1>15. ASSUME NEW next, NEW auto, selected(next, auto) PROVE RecordingInv'
    BY <1>15 DEF selected
  <1>16. ASSUME NEW r \in Runs, RunSetPhase(r) PROVE RecordingInv'
    BY <1>16 DEF RunSetPhase
  <1>17. ASSUME NEW r \in Runs, RunPrepDone(r) PROVE RecordingInv'
    BY <1>17 DEF RunPrepDone
  <1>18. ASSUME NEW r \in Runs, RunPrepFailed(r) PROVE RecordingInv'
    BY <1>18 DEF RunPrepFailed
  <1>19. ASSUME NEW r \in Runs, RunReadIds(r) PROVE RecordingInv'
    BY <1>19 DEF RunReadIds
  <1>20. ASSUME NEW r \in Runs, RunSend(r) PROVE RecordingInv'
    BY <1>20 DEF RunSend
  <1>21. ASSUME NEW r \in Runs, RunWaitOver(r) PROVE RecordingInv'
    BY <1>21 DEF RunWaitOver
  <1>22. ASSUME NEW r \in Runs, RunWaitCancelled(r) PROVE RecordingInv'
    BY <1>22 DEF RunWaitCancelled
  <1>23. ASSUME NEW r \in Runs, RunOutcome(r) PROVE RecordingInv'
    BY <1>23 DEF RunOutcome
  <1>24. ASSUME NEW r \in Runs, RunFreeze(r) PROVE RecordingInv'
    BY <1>24 DEF RunFreeze
  <1>25. ASSUME NEW r \in Runs, finish(r) PROVE RecordingInv'
    BY <1>25 DEF finish
  <1>26. CASE UNCHANGED vars
    BY <1>26 DEF vars
  <1> QED
    BY <1>1, <1>2, <1>3, <1>4, <1>5, <1>6, <1>7, <1>8, <1>9, <1>10,
       <1>11, <1>12, <1>13, <1>14, <1>15, <1>16, <1>17, <1>18, <1>19, <1>20,
       <1>21, <1>22, <1>23, <1>24, <1>25, <1>26
    DEF Next, RunNext, CallNext, Environment, SelectAll, SelectNone, SelectFirstN,
        SelectAddRemove, SelectReplace

\* The history is frozen between runs, for any number of late calls.
THEOREM FrozenBetweenRuns == Spec => []RecordingOnlyInRun
  <1>1. Spec => []RecordingInv
    BY AlwaysRunInv, InitRecordingInv, NextRecordingInv, PTL DEF Spec
  <1> QED BY <1>1, PTL DEF RecordingInv

-----------------------------------------------------------------------------
(***************************************************************************)
(* Participants.  While a run is active runClientIDs is what it was        *)
(* started with, and nobody is added to the selection.                     *)
(***************************************************************************)
MembersInv ==
    /\ running => runClientIDs = members[runNo] /\ ~autoSelectNew
    /\ CommandsReachTheRun

LEMMA InitMembersInv == Init => MembersInv
  BY DEF Init, MembersInv, CommandsReachTheRun, RunAt, NewRun

LEMMA NextMembersInv == TypeInv /\ RunInv /\ MembersInv /\ [Next]_vars => MembersInv'
  <1> SUFFICES ASSUME TypeInv, RunInv, MembersInv, [Next]_vars PROVE MembersInv'
    OBVIOUS
  <1> USE DEF MembersInv, CommandsReachTheRun, RunInv, OneRunAtATime, Alive,
      TypeInv, AroundTypes, RunsOK, RunStates, Runs, NoRun,
      fields, ghosts, At, RunAt, CallGoto, CallDone, IdleCall, RunGoto,
      NextStep, GiveUp, StepPC, NewRun, interrupted
  <1>1. ASSUME NEW h \in Callers, StartLocked(h) PROVE MembersInv'
    BY <1>1 DEF StartLocked
  <1>2. ASSUME NEW h \in Callers, StopLocked(h) PROVE MembersInv'
    BY <1>2 DEF StopLocked
  <1>3. ASSUME NEW h \in Callers, StartBegin(h) PROVE MembersInv'
    BY <1>3 DEF StartBegin
  <1>4. ASSUME NEW h \in Callers, StartAnnounce(h) PROVE MembersInv'
    BY <1>4 DEF StartAnnounce
  <1>5. ASSUME NEW h \in Callers, RemovedIgnored(h) PROVE MembersInv'
    BY <1>5 DEF RemovedIgnored
  <1>6. ASSUME NEW h \in Callers, RemovedFailsRun(h) PROVE MembersInv'
    BY <1>6 DEF RemovedFailsRun
  <1>7. ASSUME NEW h \in Callers, CallCancel(h) PROVE MembersInv'
    BY <1>7 DEF CallCancel
  <1>8. ASSUME NEW h \in Callers, CallReadIds(h) PROVE MembersInv'
    BY <1>8 DEF CallReadIds
  <1>9. ASSUME NEW h \in Callers, CallSendStop(h) PROVE MembersInv'
    BY <1>9 DEF CallSendStop
  <1>10. ASSUME NEW h \in Callers, CallFreeze(h) PROVE MembersInv'
    BY <1>10 DEF CallFreeze
  <1>11. ASSUME NEW h \in Callers, OnClientRegistered(h) PROVE MembersInv'
    BY <1>11 DEF OnClientRegistered
  <1>12. ASSUME NEW h \in Callers, NEW c \in Clients, Register(h, c) PROVE MembersInv'
    BY <1>12 DEF Register
  <1>13. ASSUME NEW h \in Callers, NEW c \in Clients, Unregister(h, c) PROVE MembersInv'
    BY <1>13 DEF Unregister
  <1>14. ASSUME NEW new \in Cfgs, SetConfig(new) PROVE MembersInv'
    BY <1>14 DEF SetConfig
  <1>15. ASSUME NEW next, NEW auto, selected(next, auto) PROVE MembersInv'
    BY <1>15 DEF selected
  <1>16. ASSUME NEW r \in Runs, RunSetPhase(r) PROVE MembersInv'
    BY <1>16 DEF RunSetPhase
  <1>17. ASSUME NEW r \in Runs, RunPrepDone(r) PROVE MembersInv'
    BY <1>17 DEF RunPrepDone
  <1>18. ASSUME NEW r \in Runs, RunPrepFailed(r) PROVE MembersInv'
    BY <1>18 DEF RunPrepFailed
  <1>19. ASSUME NEW r \in Runs, RunReadIds(r) PROVE MembersInv'
    BY <1>19 DEF RunReadIds
  <1>20. ASSUME NEW r \in Runs, RunSend(r) PROVE MembersInv'
    BY <1>20 DEF RunSend
  <1>21. ASSUME NEW r \in Runs, RunWaitOver(r) PROVE MembersInv'
    BY <1>21 DEF RunWaitOver
  <1>22. ASSUME NEW r \in Runs, RunWaitCancelled(r) PROVE MembersInv'
    BY <1>22 DEF RunWaitCancelled
  <1>23. ASSUME NEW r \in Runs, RunOutcome(r) PROVE MembersInv'
    BY <1>23 DEF RunOutcome
  <1>24. ASSUME NEW r \in Runs, RunFreeze(r) PROVE MembersInv'
    BY <1>24 DEF RunFreeze
  <1>25. ASSUME NEW r \in Runs, finish(r) PROVE MembersInv'
    BY <1>25 DEF finish
  <1>26. CASE UNCHANGED vars
    BY <1>26 DEF vars
  <1> QED
    BY <1>1, <1>2, <1>3, <1>4, <1>5, <1>6, <1>7, <1>8, <1>9, <1>10,
       <1>11, <1>12, <1>13, <1>14, <1>15, <1>16, <1>17, <1>18, <1>19, <1>20,
       <1>21, <1>22, <1>23, <1>24, <1>25, <1>26
    DEF Next, RunNext, CallNext, Environment, SelectAll, SelectNone, SelectFirstN,
        SelectAddRemove, SelectReplace

LEMMA AlwaysMembersInv == Spec => []MembersInv
  BY AlwaysRunInv, InitMembersInv, NextMembersInv, PTL DEF Spec

\* Every command goes to exactly the participants its run started with.
THEOREM CommandsStayInTheRun == Spec => []CommandsReachTheRun
  BY AlwaysMembersInv, PTL DEF MembersInv

\* What LockedWhileRunning says of one step.
Locked ==
    running /\ running' => /\ cfg' = cfg
                           /\ runClientIDs' = runClientIDs
                           /\ selectedIDs' \subseteq selectedIDs
                           /\ ~autoSelectNew'

LEMMA NextLocked == TypeInv /\ RunInv /\ MembersInv /\ [Next]_vars => Locked
  <1> SUFFICES ASSUME TypeInv, RunInv, MembersInv, [Next]_vars PROVE Locked
    OBVIOUS
  <1> USE DEF Locked, MembersInv, RunInv, OneRunAtATime, Alive,
      fields, ghosts, At, RunAt, CallGoto, CallDone, IdleCall, RunGoto,
      NextStep, GiveUp, StepPC, NewRun, interrupted
  <1>1. ASSUME NEW h \in Callers, StartLocked(h) PROVE Locked
    BY <1>1 DEF StartLocked
  <1>2. ASSUME NEW h \in Callers, StopLocked(h) PROVE Locked
    BY <1>2 DEF StopLocked
  <1>3. ASSUME NEW h \in Callers, StartBegin(h) PROVE Locked
    BY <1>3 DEF StartBegin
  <1>4. ASSUME NEW h \in Callers, StartAnnounce(h) PROVE Locked
    BY <1>4 DEF StartAnnounce
  <1>5. ASSUME NEW h \in Callers, RemovedIgnored(h) PROVE Locked
    BY <1>5 DEF RemovedIgnored
  <1>6. ASSUME NEW h \in Callers, RemovedFailsRun(h) PROVE Locked
    BY <1>6 DEF RemovedFailsRun
  <1>7. ASSUME NEW h \in Callers, CallCancel(h) PROVE Locked
    BY <1>7 DEF CallCancel
  <1>8. ASSUME NEW h \in Callers, CallReadIds(h) PROVE Locked
    BY <1>8 DEF CallReadIds
  <1>9. ASSUME NEW h \in Callers, CallSendStop(h) PROVE Locked
    BY <1>9 DEF CallSendStop
  <1>10. ASSUME NEW h \in Callers, CallFreeze(h) PROVE Locked
    BY <1>10 DEF CallFreeze
  <1>11. ASSUME NEW h \in Callers, OnClientRegistered(h) PROVE Locked
    BY <1>11 DEF OnClientRegistered
  <1>12. ASSUME NEW h \in Callers, NEW c \in Clients, Register(h, c) PROVE Locked
    BY <1>12 DEF Register
  <1>13. ASSUME NEW h \in Callers, NEW c \in Clients, Unregister(h, c) PROVE Locked
    BY <1>13 DEF Unregister
  <1>14. ASSUME NEW new \in Cfgs, SetConfig(new) PROVE Locked
    BY <1>14 DEF SetConfig
  <1>15. ASSUME NEW next, NEW auto, selected(next, auto) PROVE Locked
    BY <1>15 DEF selected
  <1>16. ASSUME NEW r \in Runs, RunSetPhase(r) PROVE Locked
    BY <1>16 DEF RunSetPhase
  <1>17. ASSUME NEW r \in Runs, RunPrepDone(r) PROVE Locked
    BY <1>17 DEF RunPrepDone
  <1>18. ASSUME NEW r \in Runs, RunPrepFailed(r) PROVE Locked
    BY <1>18 DEF RunPrepFailed
  <1>19. ASSUME NEW r \in Runs, RunReadIds(r) PROVE Locked
    BY <1>19 DEF RunReadIds
  <1>20. ASSUME NEW r \in Runs, RunSend(r) PROVE Locked
    BY <1>20 DEF RunSend
  <1>21. ASSUME NEW r \in Runs, RunWaitOver(r) PROVE Locked
    BY <1>21 DEF RunWaitOver
  <1>22. ASSUME NEW r \in Runs, RunWaitCancelled(r) PROVE Locked
    BY <1>22 DEF RunWaitCancelled
  <1>23. ASSUME NEW r \in Runs, RunOutcome(r) PROVE Locked
    BY <1>23 DEF RunOutcome
  <1>24. ASSUME NEW r \in Runs, RunFreeze(r) PROVE Locked
    BY <1>24 DEF RunFreeze
  <1>25. ASSUME NEW r \in Runs, finish(r) PROVE Locked
    BY <1>25 DEF finish
  <1>26. CASE UNCHANGED vars
    BY <1>26 DEF vars
  <1> QED
    BY <1>1, <1>2, <1>3, <1>4, <1>5, <1>6, <1>7, <1>8, <1>9, <1>10,
       <1>11, <1>12, <1>13, <1>14, <1>15, <1>16, <1>17, <1>18, <1>19, <1>20,
       <1>21, <1>22, <1>23, <1>24, <1>25, <1>26
    DEF Next, RunNext, CallNext, Environment, SelectAll, SelectNone, SelectFirstN,
        SelectAddRemove, SelectReplace

\* Configuration, participants and selection are locked during a run.
THEOREM NothingChangesDuringARun == Spec => LockedWhileRunning
  <1>1. TypeInv /\ RunInv /\ MembersInv /\ [Next]_vars => [Locked]_vars
    BY NextLocked
  <1>2. [][Locked]_vars => LockedWhileRunning
    BY PTL DEF Locked, LockedWhileRunning
  <1> QED BY <1>1, <1>2, AlwaysRunInv, AlwaysMembersInv, PTL DEF Spec

-----------------------------------------------------------------------------
(***************************************************************************)
(* Lost participants.  The property is inductive once the types are known. *)
(***************************************************************************)
LEMMA InitLost == Init => LostParticipantNoticed
  BY DEF Init, LostParticipantNoticed

LEMMA NextLost ==
    TypeInv /\ LostParticipantNoticed /\ [Next]_vars => LostParticipantNoticed'
  <1> SUFFICES ASSUME TypeInv, LostParticipantNoticed, [Next]_vars PROVE LostParticipantNoticed'
    OBVIOUS
  <1> USE DEF LostParticipantNoticed, TypeInv, CallsOK, CallStates, connectedSelected,
      fields, ghosts, At, RunAt, CallGoto, CallDone, IdleCall, RunGoto,
      NextStep, GiveUp, StepPC, NewRun, interrupted
  <1>1. ASSUME NEW h \in Callers, StartLocked(h) PROVE LostParticipantNoticed'
    BY <1>1 DEF StartLocked
  <1>2. ASSUME NEW h \in Callers, StopLocked(h) PROVE LostParticipantNoticed'
    BY <1>2 DEF StopLocked
  <1>3. ASSUME NEW h \in Callers, StartBegin(h) PROVE LostParticipantNoticed'
    BY <1>3 DEF StartBegin
  <1>4. ASSUME NEW h \in Callers, StartAnnounce(h) PROVE LostParticipantNoticed'
    BY <1>4 DEF StartAnnounce
  <1>5. ASSUME NEW h \in Callers, RemovedIgnored(h) PROVE LostParticipantNoticed'
    BY <1>5 DEF RemovedIgnored
  <1>6. ASSUME NEW h \in Callers, RemovedFailsRun(h) PROVE LostParticipantNoticed'
    BY <1>6 DEF RemovedFailsRun
  <1>7. ASSUME NEW h \in Callers, CallCancel(h) PROVE LostParticipantNoticed'
    BY <1>7 DEF CallCancel
  <1>8. ASSUME NEW h \in Callers, CallReadIds(h) PROVE LostParticipantNoticed'
    BY <1>8 DEF CallReadIds
  <1>9. ASSUME NEW h \in Callers, CallSendStop(h) PROVE LostParticipantNoticed'
    BY <1>9 DEF CallSendStop
  <1>10. ASSUME NEW h \in Callers, CallFreeze(h) PROVE LostParticipantNoticed'
    BY <1>10 DEF CallFreeze
  <1>11. ASSUME NEW h \in Callers, OnClientRegistered(h) PROVE LostParticipantNoticed'
    BY <1>11 DEF OnClientRegistered
  <1>12. ASSUME NEW h \in Callers, NEW c \in Clients, Register(h, c) PROVE LostParticipantNoticed'
    BY <1>12 DEF Register
  <1>13. ASSUME NEW h \in Callers, NEW c \in Clients, Unregister(h, c) PROVE LostParticipantNoticed'
    BY <1>13 DEF Unregister
  <1>14. ASSUME NEW new \in Cfgs, SetConfig(new) PROVE LostParticipantNoticed'
    BY <1>14 DEF SetConfig
  <1>15. ASSUME NEW next, NEW auto, selected(next, auto) PROVE LostParticipantNoticed'
    BY <1>15 DEF selected
  <1>16. ASSUME NEW r \in Runs, RunSetPhase(r) PROVE LostParticipantNoticed'
    BY <1>16 DEF RunSetPhase
  <1>17. ASSUME NEW r \in Runs, RunPrepDone(r) PROVE LostParticipantNoticed'
    BY <1>17 DEF RunPrepDone
  <1>18. ASSUME NEW r \in Runs, RunPrepFailed(r) PROVE LostParticipantNoticed'
    BY <1>18 DEF RunPrepFailed
  <1>19. ASSUME NEW r \in Runs, RunReadIds(r) PROVE LostParticipantNoticed'
    BY <1>19 DEF RunReadIds
  <1>20. ASSUME NEW r \in Runs, RunSend(r) PROVE LostParticipantNoticed'
    BY <1>20 DEF RunSend
  <1>21. ASSUME NEW r \in Runs, RunWaitOver(r) PROVE LostParticipantNoticed'
    BY <1>21 DEF RunWaitOver
  <1>22. ASSUME NEW r \in Runs, RunWaitCancelled(r) PROVE LostParticipantNoticed'
    BY <1>22 DEF RunWaitCancelled
  <1>23. ASSUME NEW r \in Runs, RunOutcome(r) PROVE LostParticipantNoticed'
    BY <1>23 DEF RunOutcome
  <1>24. ASSUME NEW r \in Runs, RunFreeze(r) PROVE LostParticipantNoticed'
    BY <1>24 DEF RunFreeze
  <1>25. ASSUME NEW r \in Runs, finish(r) PROVE LostParticipantNoticed'
    BY <1>25 DEF finish
  <1>26. CASE UNCHANGED vars
    BY <1>26 DEF vars
  <1> QED
    BY <1>1, <1>2, <1>3, <1>4, <1>5, <1>6, <1>7, <1>8, <1>9, <1>10,
       <1>11, <1>12, <1>13, <1>14, <1>15, <1>16, <1>17, <1>18, <1>19, <1>20,
       <1>21, <1>22, <1>23, <1>24, <1>25, <1>26
    DEF Next, RunNext, CallNext, Environment, SelectAll, SelectNone, SelectFirstN,
        SelectAddRemove, SelectReplace

\* No loss of a participant goes unnoticed, whatever joins, returns, losses,
\* starts and stops interleave with it.
THEOREM NoLossUnnoticed == Spec => []LostParticipantNoticed
  BY AlwaysRunInv, InitLost, NextLost, PTL DEF Spec

-----------------------------------------------------------------------------
(***************************************************************************)
(* Outcomes.  o.cancel belongs to the latest run or is taken; a context    *)
(* that is cancelled had it taken first; and the text a goroutine carries  *)
(* to finish agrees with the context and with how it left its plan.        *)
(***************************************************************************)
CancelOK ==
    /\ running => cancel \in {NoRun, runNo}
    /\ running /\ runNo \in ctxDone => cancel = NoRun
    /\ \A h \in Callers : At(h, "cancel") /\ running /\ call[h].run = runNo
                             => cancel = NoRun
    /\ \A r \in ctxDone : r <= runNo
    /\ \A h \in Callers : call[h].pc \in Acting => call[h].run <= runNo

\* The goroutine of r is past its plan, or left it for a reason.
PlanLeft(r) ==
    \/ run[r].step \notin DOMAIN PlanOf[run[r].cfg]
    \/ run[r].err = "prep"
    \/ run[r].err = "ctx" /\ r \in ctxDone

TextOK(r) ==
    /\ run[r].text \in {"Failed", "Stopped", "Completed"}
    /\ run[r].text = "Failed" => failMessage
    /\ run[r].text = "Stopped" => r \in ctxDone
    /\ run[r].text = "Completed" => \/ run[r].step \notin DOMAIN PlanOf[run[r].cfg]
                                    \/ run[r].err = "prep"

OutcomeInv ==
    /\ CancelOK
    /\ \A r \in Runs : run[r].pc = "outcome" => PlanLeft(r)
    /\ \A r \in Runs : run[r].pc \in {"freeze", "finish"} => TextOK(r)
    /\ OutcomeIsTrue

LEMMA InitOutcomeInv == Init => OutcomeInv
  BY DEF Init, OutcomeInv, CancelOK, OutcomeIsTrue, NewRun, IdleCall, Acting, At

LEMMA NextOutcomeInv == TypeInv /\ RunInv /\ OutcomeInv /\ [Next]_vars => OutcomeInv'
  <1> SUFFICES ASSUME TypeInv, RunInv, OutcomeInv, [Next]_vars PROVE OutcomeInv'
    OBVIOUS
  <1> USE DEF OutcomeInv, CancelOK, PlanLeft, TextOK, OutcomeIsTrue, RunInv,
      OneRunAtATime, StartsOK, Starting, Alive, TypeInv, AroundTypes, CallsOK,
      RunsOK, CallStates, RunStates, Acting, Runs, NoRun, finalText,
      fields, ghosts, At, RunAt, CallGoto, CallDone, IdleCall, RunGoto,
      NextStep, GiveUp, StepPC, NewRun, interrupted
  <1>1. ASSUME NEW h \in Callers, StartLocked(h) PROVE OutcomeInv'
    BY <1>1 DEF StartLocked
  <1>2. ASSUME NEW h \in Callers, StopLocked(h) PROVE OutcomeInv'
    BY <1>2 DEF StopLocked
  <1>3. ASSUME NEW h \in Callers, StartBegin(h) PROVE OutcomeInv'
    BY <1>3 DEF StartBegin
  <1>4. ASSUME NEW h \in Callers, StartAnnounce(h) PROVE OutcomeInv'
    <2>1. call[h].run = runNo /\ running /\ runNo \in Runs
      BY <1>4 DEF StartAnnounce
    <2>2. /\ run' = [run EXCEPT ![runNo].pc = StepPC(runNo, run[runNo].step)]
          /\ UNCHANGED <<running, cancel, runNo, ctxDone, statusText, failMessage>>
      BY <1>4, <2>1 DEF StartAnnounce
    <2>3. /\ \A g \in Callers : call'[g].pc \in Acting => call'[g] = call[g]
          /\ \A g \in Callers : call'[g].pc = "cancel" => call'[g] = call[g]
      BY <1>4 DEF StartAnnounce
    <2>4. CancelOK'
      BY <2>2, <2>3
    <2>5. ASSUME NEW r \in Runs
          PROVE  /\ run'[r].pc \in {"freeze", "finish"} => TextOK(r)'
                 /\ run'[r].pc = "outcome" => PlanLeft(r)'
      <3>1. CASE r # runNo
        BY <2>1, <2>2, <3>1
      <3>2. CASE r = runNo
        BY <2>1, <2>2, <3>2
      <3> QED BY <3>1, <3>2
    <2> QED BY <2>1, <2>2, <2>4, <2>5
  <1>5. ASSUME NEW h \in Callers, RemovedIgnored(h) PROVE OutcomeInv'
    <2>1. \A g \in Callers : call'[g].pc \in Acting => call'[g] = call[g]
      BY <1>5 DEF RemovedIgnored
    <2>2. UNCHANGED <<running, cancel, run, runNo, ctxDone, statusText, failMessage>>
      BY <1>5 DEF RemovedIgnored
    <2> QED BY <2>1, <2>2
  <1>6. ASSUME NEW h \in Callers, RemovedFailsRun(h) PROVE OutcomeInv'
    BY <1>6 DEF RemovedFailsRun
  <1>7. ASSUME NEW h \in Callers, CallCancel(h) PROVE OutcomeInv'
    BY <1>7 DEF CallCancel
  <1>8. ASSUME NEW h \in Callers, CallReadIds(h) PROVE OutcomeInv'
    BY <1>8 DEF CallReadIds
  <1>9. ASSUME NEW h \in Callers, CallSendStop(h) PROVE OutcomeInv'
    BY <1>9 DEF CallSendStop
  <1>10. ASSUME NEW h \in Callers, CallFreeze(h) PROVE OutcomeInv'
    BY <1>10 DEF CallFreeze
  <1>11. ASSUME NEW h \in Callers, OnClientRegistered(h) PROVE OutcomeInv'
    BY <1>11 DEF OnClientRegistered
  <1>12. ASSUME NEW h \in Callers, NEW c \in Clients, Register(h, c) PROVE OutcomeInv'
    BY <1>12 DEF Register
  <1>13. ASSUME NEW h \in Callers, NEW c \in Clients, Unregister(h, c) PROVE OutcomeInv'
    BY <1>13 DEF Unregister
  <1>14. ASSUME NEW new \in Cfgs, SetConfig(new) PROVE OutcomeInv'
    BY <1>14 DEF SetConfig
  <1>15. ASSUME NEW next, NEW auto, selected(next, auto) PROVE OutcomeInv'
    BY <1>15 DEF selected
  <1>16. ASSUME NEW r \in Runs, RunSetPhase(r) PROVE OutcomeInv'
    <2>1. \E pc \in {"prep", "readIds"} : run' = [run EXCEPT ![r].pc = pc]
      BY <1>16 DEF RunSetPhase
    <2>2. UNCHANGED <<running, cancel, runNo, ctxDone, failMessage, call>>
      BY <1>16 DEF RunSetPhase
    <2>3. statusText' = "Phase" /\ run[r].pc = "setPhase"
      BY <1>16 DEF RunSetPhase
    <2> QED BY <2>1, <2>2, <2>3
  <1>17. ASSUME NEW r \in Runs, RunPrepDone(r) PROVE OutcomeInv'
    <2>1. run' = [run EXCEPT ![r].step = @ + 1, ![r].pc = StepPC(r, run[r].step + 1)]
      BY <1>17 DEF RunPrepDone
    <2>2. UNCHANGED <<running, cancel, runNo, ctxDone, statusText, failMessage, call>>
      BY <1>17 DEF RunPrepDone
    <2> QED BY <2>1, <2>2
  <1>18. ASSUME NEW r \in Runs, RunPrepFailed(r) PROVE OutcomeInv'
    <2>1. run' = [run EXCEPT ![r].err = "prep", ![r].pc = "outcome"]
      BY <1>18 DEF RunPrepFailed
    <2>2. UNCHANGED <<running, cancel, runNo, ctxDone, statusText, failMessage, call>>
      BY <1>18 DEF RunPrepFailed
    <2> QED BY <2>1, <2>2
  <1>19. ASSUME NEW r \in Runs, RunReadIds(r) PROVE OutcomeInv'
    <2>1. run' = [run EXCEPT ![r].pc = "send", ![r].ids = runClientIDs]
      BY <1>19 DEF RunReadIds
    <2>2. UNCHANGED <<running, cancel, runNo, ctxDone, statusText, failMessage, call>>
      BY <1>19 DEF RunReadIds
    <2> QED BY <2>1, <2>2
  <1>20. ASSUME NEW r \in Runs, RunSend(r) PROVE OutcomeInv'
    <2>1. run' = [run EXCEPT ![r].pc = "wait", ![r].ids = {}]
      BY <1>20 DEF RunSend
    <2>2. UNCHANGED <<running, cancel, runNo, ctxDone, statusText, failMessage, call>>
      BY <1>20 DEF RunSend
    <2> QED BY <2>1, <2>2
  <1>21. ASSUME NEW r \in Runs, RunWaitOver(r) PROVE OutcomeInv'
    <2>1. run' = [run EXCEPT ![r].step = @ + 1, ![r].pc = StepPC(r, run[r].step + 1)]
      BY <1>21 DEF RunWaitOver
    <2>2. UNCHANGED <<running, cancel, runNo, ctxDone, statusText, failMessage, call>>
      BY <1>21 DEF RunWaitOver
    <2> QED BY <2>1, <2>2
  <1>22. ASSUME NEW r \in Runs, RunWaitCancelled(r) PROVE OutcomeInv'
    <2>1. /\ run' = [run EXCEPT ![r].err = "ctx", ![r].pc = "outcome"]
          /\ r \in ctxDone
      BY <1>22 DEF RunWaitCancelled
    <2>2. UNCHANGED <<running, cancel, runNo, ctxDone, statusText, failMessage, call>>
      BY <1>22 DEF RunWaitCancelled
    <2> QED BY <2>1, <2>2
  <1>23. ASSUME NEW r \in Runs, RunOutcome(r) PROVE OutcomeInv'
    BY <1>23 DEF RunOutcome
  <1>24. ASSUME NEW r \in Runs, RunFreeze(r) PROVE OutcomeInv'
    BY <1>24 DEF RunFreeze
  <1>25. ASSUME NEW r \in Runs, finish(r) PROVE OutcomeInv'
    BY <1>25 DEF finish
  <1>26. CASE UNCHANGED vars
    BY <1>26 DEF vars
  <1> QED
    BY <1>1, <1>2, <1>3, <1>4, <1>5, <1>6, <1>7, <1>8, <1>9, <1>10,
       <1>11, <1>12, <1>13, <1>14, <1>15, <1>16, <1>17, <1>18, <1>19, <1>20,
       <1>21, <1>22, <1>23, <1>24, <1>25, <1>26
    DEF Next, RunNext, CallNext, Environment, SelectAll, SelectNone, SelectFirstN,
        SelectAddRemove, SelectReplace

LEMMA AlwaysOutcomeInv == Spec => []OutcomeInv
  BY AlwaysRunInv, InitOutcomeInv, NextOutcomeInv, PTL DEF Spec

\* "Completed" and "Stopped" are only ever said of runs they are true of.
THEOREM OutcomesAreTrue == Spec => []OutcomeIsTrue
  BY AlwaysOutcomeInv, PTL DEF OutcomeInv

-----------------------------------------------------------------------------
(***************************************************************************)
(* Refinement.  Most steps do not touch what RunLifecycle sees; the locked *)
(* parts of Start, Stop and OnClientRemoved and finish are its actions.    *)
(***************************************************************************)
LEMMA InitRefines == Init => Lifecycle!LInit
  BY DEF Init, Lifecycle!LInit, modeBar, resultBar

LEMMA NextRefines ==
    TypeInv /\ RunInv /\ OutcomeInv /\ [Next]_vars => [Lifecycle!LNext]_(Lifecycle!lifecycle)
  <1> SUFFICES ASSUME TypeInv, RunInv, OutcomeInv, [Next]_vars PROVE [Lifecycle!LNext]_(Lifecycle!lifecycle)
    OBVIOUS
  <1> USE DEF Lifecycle!lifecycle, modeBar, resultBar, OutcomeInv, CancelOK, TextOK,
      RunInv, OneRunAtATime, Alive, Runs, NoRun, finalText,
      fields, ghosts, At, RunAt, CallGoto, CallDone, IdleCall, RunGoto,
      NextStep, GiveUp, StepPC, NewRun, interrupted
  <1>1. ASSUME NEW h \in Callers, StartLocked(h) PROVE [Lifecycle!LNext]_(Lifecycle!lifecycle)
    BY <1>1 DEF StartLocked, connectedSelected,
       Lifecycle!LNext, Lifecycle!LStart, TypeInv, FieldTypes
  <1>2. ASSUME NEW h \in Callers, StopLocked(h) PROVE [Lifecycle!LNext]_(Lifecycle!lifecycle)
    BY <1>2 DEF StopLocked, Lifecycle!LNext, Lifecycle!LStop
  <1>3. ASSUME NEW h \in Callers, StartBegin(h) PROVE [Lifecycle!LNext]_(Lifecycle!lifecycle)
    BY <1>3 DEF StartBegin
  <1>4. ASSUME NEW h \in Callers, StartAnnounce(h) PROVE [Lifecycle!LNext]_(Lifecycle!lifecycle)
    BY <1>4 DEF StartAnnounce
  <1>5. ASSUME NEW h \in Callers, RemovedIgnored(h) PROVE [Lifecycle!LNext]_(Lifecycle!lifecycle)
    BY <1>5 DEF RemovedIgnored
  <1>6. ASSUME NEW h \in Callers, RemovedFailsRun(h) PROVE [Lifecycle!LNext]_(Lifecycle!lifecycle)
    BY <1>6 DEF RemovedFailsRun, Lifecycle!LNext, Lifecycle!LLose
  <1>7. ASSUME NEW h \in Callers, CallCancel(h) PROVE [Lifecycle!LNext]_(Lifecycle!lifecycle)
    BY <1>7 DEF CallCancel
  <1>8. ASSUME NEW h \in Callers, CallReadIds(h) PROVE [Lifecycle!LNext]_(Lifecycle!lifecycle)
    BY <1>8 DEF CallReadIds
  <1>9. ASSUME NEW h \in Callers, CallSendStop(h) PROVE [Lifecycle!LNext]_(Lifecycle!lifecycle)
    BY <1>9 DEF CallSendStop
  <1>10. ASSUME NEW h \in Callers, CallFreeze(h) PROVE [Lifecycle!LNext]_(Lifecycle!lifecycle)
    BY <1>10 DEF CallFreeze
  <1>11. ASSUME NEW h \in Callers, OnClientRegistered(h) PROVE [Lifecycle!LNext]_(Lifecycle!lifecycle)
    BY <1>11 DEF OnClientRegistered
  <1>12. ASSUME NEW h \in Callers, NEW c \in Clients, Register(h, c) PROVE [Lifecycle!LNext]_(Lifecycle!lifecycle)
    BY <1>12 DEF Register
  <1>13. ASSUME NEW h \in Callers, NEW c \in Clients, Unregister(h, c) PROVE [Lifecycle!LNext]_(Lifecycle!lifecycle)
    BY <1>13 DEF Unregister
  <1>14. ASSUME NEW new \in Cfgs, SetConfig(new) PROVE [Lifecycle!LNext]_(Lifecycle!lifecycle)
    BY <1>14 DEF SetConfig
  <1>15. ASSUME NEW next, NEW auto, selected(next, auto) PROVE [Lifecycle!LNext]_(Lifecycle!lifecycle)
    BY <1>15 DEF selected
  <1>16. ASSUME NEW r \in Runs, RunSetPhase(r) PROVE [Lifecycle!LNext]_(Lifecycle!lifecycle)
    BY <1>16 DEF RunSetPhase
  <1>17. ASSUME NEW r \in Runs, RunPrepDone(r) PROVE [Lifecycle!LNext]_(Lifecycle!lifecycle)
    BY <1>17 DEF RunPrepDone
  <1>18. ASSUME NEW r \in Runs, RunPrepFailed(r) PROVE [Lifecycle!LNext]_(Lifecycle!lifecycle)
    BY <1>18 DEF RunPrepFailed
  <1>19. ASSUME NEW r \in Runs, RunReadIds(r) PROVE [Lifecycle!LNext]_(Lifecycle!lifecycle)
    BY <1>19 DEF RunReadIds
  <1>20. ASSUME NEW r \in Runs, RunSend(r) PROVE [Lifecycle!LNext]_(Lifecycle!lifecycle)
    BY <1>20 DEF RunSend
  <1>21. ASSUME NEW r \in Runs, RunWaitOver(r) PROVE [Lifecycle!LNext]_(Lifecycle!lifecycle)
    BY <1>21 DEF RunWaitOver
  <1>22. ASSUME NEW r \in Runs, RunWaitCancelled(r) PROVE [Lifecycle!LNext]_(Lifecycle!lifecycle)
    BY <1>22 DEF RunWaitCancelled
  <1>23. ASSUME NEW r \in Runs, RunOutcome(r) PROVE [Lifecycle!LNext]_(Lifecycle!lifecycle)
    BY <1>23 DEF RunOutcome
  <1>24. ASSUME NEW r \in Runs, RunFreeze(r) PROVE [Lifecycle!LNext]_(Lifecycle!lifecycle)
    BY <1>24 DEF RunFreeze
  <1>25. ASSUME NEW r \in Runs, finish(r) PROVE [Lifecycle!LNext]_(Lifecycle!lifecycle)
    BY <1>25 DEF finish, Lifecycle!LNext, Lifecycle!LEnd, Lifecycle!Results
  <1>26. CASE UNCHANGED vars
    BY <1>26 DEF vars
  <1> QED
    BY <1>1, <1>2, <1>3, <1>4, <1>5, <1>6, <1>7, <1>8, <1>9, <1>10,
       <1>11, <1>12, <1>13, <1>14, <1>15, <1>16, <1>17, <1>18, <1>19, <1>20,
       <1>21, <1>22, <1>23, <1>24, <1>25, <1>26
    DEF Next, RunNext, CallNext, Environment, SelectAll, SelectNone, SelectFirstN,
        SelectAddRemove, SelectReplace

\* The orchestrator implements RunLifecycle.
THEOREM OrchestratorImplementsLifecycle == Spec => ImplementsLifecycle
  <1>1. Spec => Lifecycle!LInit /\ [][Lifecycle!LNext]_(Lifecycle!lifecycle)
    BY InitRefines, NextRefines, AlwaysRunInv, AlwaysOutcomeInv, PTL DEF Spec
  <1> QED BY <1>1 DEF ImplementsLifecycle, Lifecycle!LSpec
-----------------------------------------------------------------------------
(***************************************************************************)
(* The wait of a phase                                                     *)
(*                                                                         *)
(* About WaitIdle, the wait that Orchestrator leaves open, for any         *)
(* participants, commands, stops and broken sessions.                      *)
(***************************************************************************)

(***************************************************************************)
(* Messages and commands on their way.                                     *)
(***************************************************************************)
LEMMA Queues ==
    ASSUME NEW S, NEW q \in Seq(S), q # << >>
    PROVE  /\ Head(q) \in S /\ Tail(q) \in Seq(S)
           /\ Head(q) \in ToSet(q) /\ ToSet(Tail(q)) \subseteq ToSet(q)
  <1>1. Head(q) \in S /\ Tail(q) \in Seq(S)
    OBVIOUS
  <1>2. /\ \A i \in DOMAIN Tail(q) : i + 1 \in DOMAIN q /\ Tail(q)[i] = q[i + 1]
        /\ 1 \in DOMAIN q /\ Head(q) = q[1]
    OBVIOUS
  <1> QED BY <1>1, <1>2 DEF ToSet

LEMMA Added ==
    ASSUME NEW S, NEW q \in Seq(S), NEW e \in S
    PROVE  /\ Append(q, e) \in Seq(S)
           /\ ToSet(Append(q, e)) \subseteq ToSet(q) \cup {e}
  <1>1. Append(q, e) \in Seq(S)
    OBVIOUS
  <1>2. \A i \in DOMAIN Append(q, e) :
            Append(q, e)[i] = e \/ (i \in DOMAIN q /\ Append(q, e)[i] = q[i])
    OBVIOUS
  <1> QED BY <1>1, <1>2 DEF ToSet

LEMMA NothingIn == ToSet(<< >>) = {}
  BY DEF ToSet

\* Commands are not mistaken for a stop, nor for none.
LEMMA CommandNumbers ==
    Commands \subseteq Nat /\ NoCommand \notin Commands /\ StopMsg \notin Commands
  BY DEF Commands, NoCommand, StopMsg

LEMMA Words ==
    /\ {"registered", "running", "idle", "stopped"} = Reports
    /\ Statuses = Reports \cup {"gone"}
  BY DEF Reports, Statuses

LEMMA JobTypes ==
    /\ Free \in Jobs /\ Free.cmd = NoCommand /\ Free.stage = "free"
    /\ \A m \in Commands : [stage |-> "taken", cmd |-> m] \in Jobs
    /\ \A j \in Jobs : /\ Cancelled(j) \in Jobs /\ Cancelled(j).stage = j.stage
                       /\ Cancelled(j).cmd \in {j.cmd, NoCommand}
                       /\ j.stage = "done" => Cancelled(j).cmd = j.cmd
                       /\ j.stage = "free" /\ j.cmd = NoCommand
                             => Cancelled(j).cmd = NoCommand
  BY DEF Free, Jobs, Cancelled

(***************************************************************************)
(* Types.  A loop without work has no command, and the one whose work is   *)
(* done has the command it will report.                                    *)
(***************************************************************************)
JobsOK ==
    \A c \in Members : /\ job[c].stage = "free" => job[c].cmd = NoCommand
                       /\ job[c].stage = "done" => job[c].cmd # NoCommand

WaitTypeInv == WaitTypeOK /\ JobsOK

LEMMA InitWaitTypeInv == WaitInit => WaitTypeInv
  <1> SUFFICES ASSUME WaitInit PROVE WaitTypeInv
    OBVIOUS
  <1>1. /\ job = [c \in Members |-> Free]
        /\ \A c \in Members : job[c] = Free
    BY DEF WaitInit
  <1>2. job \in [Members -> Jobs] /\ JobsOK
    BY <1>1, JobTypes DEF JobsOK
  <1>3. /\ wire \in [Members -> Seq(Messages)] /\ queue \in [Members -> Seq(Commands)]
        /\ reports \in [Members -> Seq(Reports)] /\ old \in [Members -> Seq(Reports)]
    BY DEF WaitInit
  <1>4. /\ status \in [Members -> Statuses] /\ link \in [Members -> Links]
        /\ oldLoop \in [Members -> OldLoops]
        /\ finished \in [Members -> Commands \cup {NoCommand}]
    BY DEF WaitInit, Statuses, Links, OldLoops
  <1>5. troubles \in 0..MaxTroubles
    BY WaitAssumption DEF WaitInit
  <1> QED BY <1>2, <1>3, <1>4, <1>5 DEF WaitInit, WaitTypeInv, WaitTypeOK, Waits

\* The types, in groups: the run, the ghosts and the registry; the clients.
RunTypes ==
    /\ wait \in Waits
    /\ command \in Commands \cup {NoCommand}
    /\ want \in SUBSET Members
    /\ failed \in BOOLEAN
    /\ sawRunning \in BOOLEAN
    /\ late \in BOOLEAN
    /\ stopping \in Nat
    /\ lost \in SUBSET Members
    /\ troubles \in 0..MaxTroubles
    /\ newcomers \in SUBSET Members
    /\ disturbed \in SUBSET Members

ClientTypes ==
    /\ status \in [Members -> Statuses]
    /\ link \in [Members -> Links]
    /\ wire \in [Members -> Seq(Messages)]
    /\ queue \in [Members -> Seq(Commands)]
    /\ job \in [Members -> Jobs]
    /\ oldLoop \in [Members -> OldLoops]
    /\ reports \in [Members -> Seq(Reports)]
    /\ old \in [Members -> Seq(Reports)]
    /\ finished \in [Members -> Commands \cup {NoCommand}]

LEMMA TypeGroups == WaitTypeInv <=> RunTypes /\ ClientTypes /\ JobsOK
  BY DEF WaitTypeInv, WaitTypeOK, RunTypes, ClientTypes

LEMMA ClientTypesStay ==
    ASSUME ClientTypes, JobsOK, UNCHANGED <<status, clients>>
    PROVE  ClientTypes' /\ JobsOK'
  BY DEF ClientTypes, JobsOK, clients

LEMMA RunTypesStay ==
    ASSUME RunTypes, UNCHANGED <<controller, stopping, lost, ghostVars>>
    PROVE  RunTypes'
  BY DEF RunTypes, controller, ghostVars

LEMMA BroadcastTypes ==
    ASSUME ClientTypes, NEW m \in Messages, Broadcast(m)
    PROVE  wire' \in [Members -> Seq(Messages)]
  <1>1. ASSUME NEW c \in Members PROVE Append(wire[c], m) \in Seq(Messages)
    <2>1. wire[c] \in Seq(Messages)
      BY DEF ClientTypes
    <2> QED BY <2>1, Added
  <1> QED BY <1>1 DEF Broadcast, ClientTypes

\* The steps of the run and of the calls.
RunStep ==
    \/ StartRun
    \/ FinishRun
    \/ TimedOver
    \/ Poll
    \/ TimePasses
    \/ TimesOut
    \/ StopRun
    \/ \E c \in Members : Removal(c)

LEMMA RunStepTypes ==
    ASSUME RunTypes, RunStep
    PROVE  RunTypes' /\ UNCHANGED <<status, clients, command>>
  <1>1. CASE StartRun \/ FinishRun
    BY <1>1 DEF StartRun, FinishRun, RunTypes, Waits, ghostVars
  <1>2. CASE TimedOver \/ Poll \/ TimePasses \/ TimesOut
    BY <1>2 DEF TimedOver, Poll, TimePasses, TimesOut, Over, RunTypes, Waits, ghostVars
  <1>3. ASSUME Abort PROVE /\ wait' \in Waits /\ late' = FALSE /\ newcomers' = {}
                           /\ sawRunning' = FALSE /\ disturbed' = {} /\ stopping' \in Nat
                           /\ UNCHANGED <<command, want, status, clients>>
    <2>1. wait' \in Waits
      BY <1>3 DEF Abort, RunTypes, Waits
    <2> QED BY <1>3, <2>1 DEF Abort, RunTypes
  <1>4. CASE StopRun
    <2>1. troubles' \in 0..MaxTroubles
      BY <1>4, WaitAssumption DEF StopRun, RunTypes
    <2> QED BY <1>3, <1>4, <2>1 DEF StopRun, RunTypes
  <1>5. ASSUME NEW c \in Members, Removal(c)
        PROVE  RunTypes' /\ UNCHANGED <<status, clients, command>>
    <2>1. CASE RemovalAborts(c)
      BY <1>3, <2>1 DEF RemovalAborts, RunTypes
    <2>2. CASE RemovalIgnored(c)
      BY <2>2 DEF RemovalIgnored, RunTypes, controller, ghostVars
    <2> QED BY <1>5, <2>1, <2>2 DEF Removal
  <1> QED BY <1>1, <1>2, <1>4, <1>5 DEF RunStep

\* The steps of the registry and the clients.
ClientStepOf(c) ==
    \/ ReadReport(c)
    \/ ReadOldReport(c)
    \/ OldReportsLost(c)
    \/ Lose(c)
    \/ Reregister(c)
    \/ Welcomed(c)
    \/ ReadCommand(c)
    \/ ReadStop(c)
    \/ Take(c)
    \/ Announce(c)
    \/ EndWork(c)
    \/ ReportIdle(c)
    \/ SessionEnds(c)
    \/ OldLoop(c)

LEMMA NextCases ==
    WaitNext <=> \/ RunStep
                 \/ \E kind \in {"timed", "waiting"} : SendCommand(kind)
                 \/ SendStop
                 \/ \E c \in Members : ClientStepOf(c)
  BY DEF WaitNext, RunStep, ClientStepOf, Works

LEMMA SendTypes ==
    ASSUME WaitTypeInv,
           SendStop \/ \E kind \in {"timed", "waiting"} : SendCommand(kind)
    PROVE  WaitTypeInv'
  <1>0. RunTypes /\ ClientTypes /\ JobsOK
    BY TypeGroups
  <1>1. ASSUME NEW kind \in {"timed", "waiting"}, SendCommand(kind) PROVE WaitTypeInv'
    <2>1. command + 1 \in Commands
      BY <1>0, <1>1, WaitAssumption DEF SendCommand, RunTypes, Commands, NoCommand
    <2>2. wire' \in [Members -> Seq(Messages)]
      BY <1>0, <1>1, <2>1, BroadcastTypes DEF SendCommand, Messages
    <2>3. /\ wait' \in Waits /\ command' \in Commands \cup {NoCommand} /\ late' = FALSE
          /\ newcomers' \in SUBSET Members /\ disturbed' \in SUBSET Members
          /\ UNCHANGED <<want, failed, sawRunning, stopping, lost, troubles>>
      BY <1>0, <1>1, <2>1 DEF SendCommand, Waits, RunTypes
    <2>4. RunTypes'
      BY <1>0, <2>3 DEF RunTypes
    <2>5. UNCHANGED <<status, link, queue, job, oldLoop, reports, old, finished>>
      BY <1>1 DEF SendCommand
    <2>6. ClientTypes' /\ JobsOK'
      BY <1>0, <2>2, <2>5 DEF ClientTypes, JobsOK
    <2> QED BY <2>4, <2>6, TypeGroups, PTL
  <1>2. CASE SendStop
    <2>1. wire' \in [Members -> Seq(Messages)]
      BY <1>0, <1>2, BroadcastTypes DEF SendStop, Messages
    <2>2. /\ stopping' \in Nat /\ disturbed' \in SUBSET Members
          /\ UNCHANGED <<controller, lost, troubles, newcomers>>
      BY <1>0, <1>2 DEF SendStop, RunTypes
    <2>3. RunTypes'
      BY <1>0, <2>2 DEF RunTypes, controller
    <2>4. UNCHANGED <<status, link, queue, job, oldLoop, reports, old, finished>>
      BY <1>2 DEF SendStop
    <2>5. ClientTypes' /\ JobsOK'
      BY <1>0, <2>1, <2>4 DEF ClientTypes, JobsOK
    <2> QED BY <2>3, <2>5, TypeGroups, PTL
  <1> QED BY <1>1, <1>2

LEMMA ClientStepTypes ==
    ASSUME WaitTypeInv, NEW c \in Members, ClientStepOf(c)
    PROVE  WaitTypeInv'
  <1>0. RunTypes /\ ClientTypes /\ JobsOK
    BY TypeGroups
  <1>a. /\ status[c] \in Statuses /\ wire[c] \in Seq(Messages) /\ queue[c] \in Seq(Commands)
        /\ job[c] \in Jobs /\ reports[c] \in Seq(Reports) /\ old[c] \in Seq(Reports)
        /\ link[c] \in Links /\ oldLoop[c] \in OldLoops
    BY <1>0 DEF ClientTypes
  <1>b. \A s \in Reports : Append(reports[c], s) \in Seq(Reports)
    BY <1>a, Added
  <1>c. {"registered", "running", "idle", "stopped"} \subseteq Reports
    BY Words
  <1>d. /\ Cancelled(job[c]) \in Jobs
        /\ Cancelled(job[c]).stage = "free" => Cancelled(job[c]).cmd = NoCommand
        /\ Cancelled(job[c]).stage = "done" => Cancelled(job[c]).cmd # NoCommand
    <2>1. /\ job[c].stage = "free" => job[c].cmd = NoCommand
          /\ job[c].stage = "done" => job[c].cmd # NoCommand
      BY <1>0 DEF JobsOK
    <2> QED BY <1>a, <2>1, JobTypes
  <1>1. CASE ReadReport(c) \/ ReadOldReport(c) \/ OldReportsLost(c)
    <2>1. /\ reports[c] # << >> => Head(reports[c]) \in Statuses
                                   /\ Tail(reports[c]) \in Seq(Reports)
          /\ old[c] # << >> => Head(old[c]) \in Statuses /\ Tail(old[c]) \in Seq(Reports)
      BY <1>a, Queues, Words
    <2>2. /\ status' \in [Members -> Statuses] /\ reports' \in [Members -> Seq(Reports)]
          /\ old' \in [Members -> Seq(Reports)]
      <3>1. CASE ReadReport(c)
        BY <1>0, <2>1, <3>1 DEF ReadReport, SetStatus, ClientTypes
      <3>2. CASE ReadOldReport(c)
        BY <1>0, <2>1, <3>2 DEF ReadOldReport, SetStatus, ClientTypes
      <3>3. CASE OldReportsLost(c)
        BY <1>0, <3>3 DEF OldReportsLost, ClientTypes
      <3> QED BY <1>1, <3>1, <3>2, <3>3
    <2>3. UNCHANGED <<controller, stopping, lost, ghostVars>>
      BY <1>1 DEF ReadReport, ReadOldReport, OldReportsLost
    <2>4. UNCHANGED <<link, wire, queue, job, oldLoop, finished>>
      BY <1>1 DEF ReadReport, ReadOldReport, OldReportsLost
    <2>5. ClientTypes' /\ JobsOK'
      BY <1>0, <2>2, <2>4 DEF ClientTypes, JobsOK
    <2> QED BY <1>0, <2>3, <2>5, RunTypesStay, TypeGroups, PTL
  <1>2. CASE Lose(c)
    <2>1. lost' \in SUBSET Members /\ disturbed' \in SUBSET Members
          /\ UNCHANGED <<controller, stopping, troubles, newcomers>>
      BY <1>0, <1>2 DEF Lose, RunTypes
    <2>2. RunTypes'
      BY <1>0, <2>1 DEF RunTypes, controller
    <2>3. status' \in [Members -> Statuses] /\ old' \in [Members -> Seq(Reports)]
          /\ UNCHANGED <<link, wire, queue, job, oldLoop, reports, finished>>
      BY <1>0, <1>2, Words DEF Lose, ClientTypes
    <2>4. ClientTypes' /\ JobsOK'
      BY <1>0, <2>3 DEF ClientTypes, JobsOK
    <2> QED BY <2>2, <2>4, TypeGroups, PTL
  <1>3. CASE Reregister(c)
    <2>1. status' \in [Members -> Statuses] /\ link' \in [Members -> Links]
          /\ UNCHANGED <<wire, queue, job, oldLoop, reports, old, finished>>
      BY <1>0, <1>3, <1>c, Words DEF Reregister, ClientTypes, Links
    <2>2. ClientTypes' /\ JobsOK'
      BY <1>0, <2>1 DEF ClientTypes, JobsOK
    <2>3. UNCHANGED <<controller, stopping, lost, ghostVars>>
      BY <1>3 DEF Reregister
    <2> QED BY <1>0, <2>2, <2>3, RunTypesStay, TypeGroups, PTL
  <1>4. CASE SessionEnds(c)
    <2>1. troubles' \in 0..MaxTroubles /\ disturbed' \in SUBSET Members
          /\ UNCHANGED <<controller, stopping, lost, newcomers>>
      BY <1>0, <1>4, WaitAssumption DEF SessionEnds, RunTypes
    <2>2. RunTypes'
      BY <1>0, <2>1 DEF RunTypes, controller
    <2>3. /\ wire' \in [Members -> Seq(Messages)] /\ reports' \in [Members -> Seq(Reports)]
          /\ old' \in [Members -> Seq(Reports)] /\ link' \in [Members -> Links]
      BY <1>0, <1>4, <1>a DEF SessionEnds, ClientTypes, Links
    <2>4. oldLoop' \in [Members -> OldLoops]
      BY <1>0, <1>4, <1>a DEF SessionEnds, ClientTypes, OldLoops
    <2>5. job' \in [Members -> Jobs] /\ JobsOK'
      <3>1. job' = [job EXCEPT ![c] = Free]
        BY <1>4 DEF SessionEnds
      <3> QED BY <1>0, <3>1, JobTypes DEF ClientTypes, JobsOK
    <2>6. UNCHANGED <<status, queue, finished>>
      BY <1>4 DEF SessionEnds
    <2>7. ClientTypes'
      BY <1>0, <2>3, <2>4, <2>5, <2>6 DEF ClientTypes
    <2> QED BY <2>2, <2>5, <2>7, TypeGroups, PTL
  <1>5. ASSUME ClientStep,
               link' \in [Members -> Links], wire' \in [Members -> Seq(Messages)],
               queue' \in [Members -> Seq(Commands)], job' \in [Members -> Jobs], JobsOK',
               oldLoop' \in [Members -> OldLoops], reports' \in [Members -> Seq(Reports)],
               finished' \in [Members -> Commands \cup {NoCommand}]
        PROVE  WaitTypeInv'
    <2>1. UNCHANGED <<controller, stopping, lost, ghostVars>> /\ UNCHANGED <<status, old>>
      BY <1>5 DEF ClientStep
    <2>2. ClientTypes'
      BY <1>0, <1>5, <2>1 DEF ClientTypes
    <2> QED BY <1>0, <1>5, <2>1, <2>2, RunTypesStay, TypeGroups, PTL
  <1>6. ASSUME NEW s \in Reports, Report(c, s) PROVE reports' \in [Members -> Seq(Reports)]
    BY <1>0, <1>6, <1>b DEF Report, ClientTypes
  <1>7. CASE Welcomed(c)
    <2>1. link' \in [Members -> Links]
      BY <1>0, <1>7 DEF Welcomed, ClientTypes, Links
    <2>2. reports' \in [Members -> Seq(Reports)]
      BY <1>6, <1>7, <1>c DEF Welcomed
    <2>3. ClientStep /\ UNCHANGED <<wire, queue, job, oldLoop, finished>>
      BY <1>7 DEF Welcomed
    <2> QED BY <1>0, <1>5, <2>1, <2>2, <2>3 DEF ClientTypes, JobsOK
  <1>8. CASE ReadCommand(c)
    <2>1. Head(wire[c]) \in Commands /\ Tail(wire[c]) \in Seq(Messages)
      BY <1>8, <1>a, Queues DEF ReadCommand, Messages
    <2>2. wire' \in [Members -> Seq(Messages)]
      BY <1>0, <1>8, <2>1 DEF ReadCommand, ClientTypes
    <2> DEFINE kept == IF Len(queue[c]) < Capacity THEN queue[c] ELSE Tail(queue[c])
    <2>3. kept \in Seq(Commands)
      <3>1. CASE Len(queue[c]) < Capacity
        BY <1>a, <3>1
      <3>2. CASE ~(Len(queue[c]) < Capacity)
        <4>1. queue[c] # << >>
          BY <1>a, <3>2, WaitAssumption
        <4> QED BY <1>a, <3>2, <4>1, Queues
      <3> QED BY <3>1, <3>2
    <2>4. queue' = [queue EXCEPT ![c] = Append(kept, Head(wire[c]))]
      BY <1>8 DEF ReadCommand
    <2> HIDE DEF kept
    <2>5. Append(kept, Head(wire[c])) \in Seq(Commands)
      BY <2>1, <2>3, Added
    <2>6. queue' \in [Members -> Seq(Commands)]
      BY <1>0, <2>4, <2>5 DEF ClientTypes
    <2>7. ClientStep /\ UNCHANGED <<link, job, oldLoop, reports, finished>>
      BY <1>8 DEF ReadCommand
    <2> QED BY <1>0, <1>5, <2>2, <2>6, <2>7 DEF ClientTypes, JobsOK
  <1>9. CASE ReadStop(c)
    <2>1. wire' \in [Members -> Seq(Messages)]
      BY <1>0, <1>9, <1>a, Queues DEF ReadStop, ClientTypes
    <2>2. job' \in [Members -> Jobs] /\ JobsOK'
      <3>1. job' = [job EXCEPT ![c] = Cancelled(job[c])] \/ job' = job
        BY <1>9 DEF ReadStop
      <3> QED BY <1>0, <1>d, <3>1 DEF ClientTypes, JobsOK
    <2>3. reports' \in [Members -> Seq(Reports)]
      <3>1. CASE Report(c, "stopped")
        BY <1>6, <1>c, <3>1
      <3>2. CASE reports' = reports
        BY <1>0, <3>2 DEF ClientTypes
      <3> QED BY <1>9, <3>1, <3>2 DEF ReadStop
    <2>4. ClientStep /\ UNCHANGED <<link, queue, oldLoop, finished>>
      BY <1>9 DEF ReadStop
    <2> QED BY <1>0, <1>5, <2>1, <2>2, <2>3, <2>4 DEF ClientTypes
  <1>10. CASE Take(c)
    <2>1. Head(queue[c]) \in Commands /\ Tail(queue[c]) \in Seq(Commands)
      BY <1>10, <1>a, Queues DEF Take
    <2>2. queue' \in [Members -> Seq(Commands)]
      BY <1>0, <1>10, <2>1 DEF Take, ClientTypes
    <2> DEFINE j == [stage |-> "taken", cmd |-> Head(queue[c])]
    <2>3. j \in Jobs /\ j.stage = "taken"
      BY <2>1, JobTypes
    <2>4. job' = [job EXCEPT ![c] = j] \/ job' = job
      BY <1>10 DEF Take
    <2> HIDE DEF j
    <2>5. job' \in [Members -> Jobs] /\ JobsOK'
      BY <1>0, <2>3, <2>4 DEF ClientTypes, JobsOK
    <2>6. ClientStep /\ UNCHANGED <<link, wire, oldLoop, reports, finished>>
      BY <1>10 DEF Take
    <2> QED BY <1>0, <1>5, <2>2, <2>5, <2>6 DEF ClientTypes
  <1>11. CASE Announce(c)
    <2>1. job' \in [Members -> Jobs] /\ JobsOK'
      BY <1>0, <1>11, <1>a DEF Announce, ClientTypes, JobsOK, Jobs
    <2>2. reports' \in [Members -> Seq(Reports)]
      BY <1>6, <1>11, <1>c DEF Announce
    <2>3. ClientStep /\ UNCHANGED <<link, wire, queue, oldLoop, finished>>
      BY <1>11 DEF Announce
    <2> QED BY <1>0, <1>5, <2>1, <2>2, <2>3 DEF ClientTypes
  <1>12. CASE EndWork(c)
    <2>1. job' \in [Members -> Jobs] /\ JobsOK'
          /\ finished' \in [Members -> Commands \cup {NoCommand}]
      <3>1. CASE job' = [job EXCEPT ![c].stage = "done"] /\ job[c].cmd # NoCommand
                 /\ finished' = [finished EXCEPT ![c] = job[c].cmd]
        BY <1>0, <1>a, <3>1 DEF ClientTypes, JobsOK, Jobs
      <3>2. CASE job' = [job EXCEPT ![c] = Free] /\ UNCHANGED finished
        BY <1>0, <3>2, JobTypes DEF ClientTypes, JobsOK
      <3> QED BY <1>12, <3>1, <3>2 DEF EndWork
    <2>2. ClientStep /\ UNCHANGED <<link, wire, queue, oldLoop, reports>>
      BY <1>12 DEF EndWork
    <2> QED BY <1>0, <1>5, <2>1, <2>2 DEF ClientTypes
  <1>13. CASE ReportIdle(c)
    <2>1. job' \in [Members -> Jobs] /\ JobsOK'
      BY <1>0, <1>13, JobTypes DEF ReportIdle, ClientTypes, JobsOK
    <2>2. reports' \in [Members -> Seq(Reports)]
      BY <1>6, <1>13, <1>c DEF ReportIdle
    <2>3. ClientStep /\ UNCHANGED <<link, wire, queue, oldLoop, finished>>
      BY <1>13 DEF ReportIdle
    <2> QED BY <1>0, <1>5, <2>1, <2>2, <2>3 DEF ClientTypes
  <1>14. CASE OldLoopTakes(c)
    <2>1. queue' \in [Members -> Seq(Commands)]
      BY <1>0, <1>14, <1>a, Queues DEF OldLoopTakes, ClientTypes
    <2>2. job' \in [Members -> Jobs] /\ JobsOK'
      <3>1. job' = [job EXCEPT ![c] = Cancelled(job[c])]
        BY <1>14 DEF OldLoopTakes
      <3> QED BY <1>0, <1>d, <3>1 DEF ClientTypes, JobsOK
    <2>3. oldLoop' \in [Members -> OldLoops]
      BY <1>0, <1>14 DEF OldLoopTakes, ClientTypes, OldLoops
    <2>4. ClientStep /\ UNCHANGED <<link, wire, reports, finished>>
      BY <1>14 DEF OldLoopTakes
    <2> QED BY <1>0, <1>5, <2>1, <2>2, <2>3, <2>4 DEF ClientTypes
  <1>15. CASE OldLoopSays(c)
    <2>1. oldLoop' \in [Members -> OldLoops]
      BY <1>0, <1>15 DEF OldLoopSays, ClientTypes, OldLoops
    <2>2. reports' \in [Members -> Seq(Reports)]
      <3>1. CASE Report(c, "running") \/ Report(c, "idle")
        BY <1>6, <1>c, <3>1
      <3>2. CASE reports' = reports
        BY <1>0, <3>2 DEF ClientTypes
      <3> QED BY <1>15, <3>1, <3>2 DEF OldLoopSays, OldReport
    <2>3. ClientStep /\ UNCHANGED <<link, wire, queue, job, finished>>
      BY <1>15 DEF OldLoopSays
    <2> QED BY <1>0, <1>5, <2>1, <2>2, <2>3 DEF ClientTypes, JobsOK
  <1>16. CASE OldLoopEnds(c)
    <2>1. oldLoop' \in [Members -> OldLoops]
      BY <1>0, <1>16 DEF OldLoopEnds, ClientTypes, OldLoops
    <2>2. ClientStep /\ UNCHANGED <<link, wire, queue, job, reports, finished>>
      BY <1>16 DEF OldLoopEnds
    <2> QED BY <1>0, <1>5, <2>1, <2>2 DEF ClientTypes, JobsOK
  <1> QED BY <1>1, <1>2, <1>3, <1>4, <1>7, <1>8, <1>9, <1>10, <1>11, <1>12, <1>13, <1>14,
             <1>15, <1>16 DEF ClientStepOf, OldLoop

LEMMA NextWaitTypeInv == WaitTypeInv /\ [WaitNext]_waitVars => WaitTypeInv'
  <1> SUFFICES ASSUME WaitTypeInv, [WaitNext]_waitVars PROVE WaitTypeInv'
    OBVIOUS
  <1>0. RunTypes /\ ClientTypes /\ JobsOK
    BY TypeGroups
  <1>1. CASE RunStep
    <2>1. RunTypes' /\ UNCHANGED <<status, clients>>
      BY <1>0, <1>1, RunStepTypes
    <2>2. ClientTypes' /\ JobsOK'
      BY <1>0, <2>1, ClientTypesStay
    <2> QED BY <2>1, <2>2, TypeGroups, PTL
  <1>2. CASE UNCHANGED waitVars
    <2>1. UNCHANGED <<controller, stopping, lost, ghostVars>> /\ UNCHANGED <<status, clients>>
      BY <1>2 DEF waitVars
    <2> QED BY <1>0, <2>1, RunTypesStay, ClientTypesStay, TypeGroups, PTL
  <1> QED BY <1>1, <1>2, SendTypes, ClientStepTypes, NextCases

LEMMA AlwaysWaitTypeInv ==
    WaitSpec => []WaitTypeInv
  BY InitWaitTypeInv, NextWaitTypeInv, PTL DEF WaitSpec

\* Every variable keeps its type.
THEOREM WaitTypeCorrect ==
    WaitSpec => []WaitTypeOK
  BY AlwaysWaitTypeInv, PTL DEF WaitTypeInv

-----------------------------------------------------------------------------
(***************************************************************************)
(* Newcomers.  From the moment the command is sent, all there is for such  *)
(* a client is that command, in whatever queue or loop, and whatever says  *)
(* that the client is idle comes from the end of its work on it.           *)
(***************************************************************************)
SaysIdle(c) ==
    \/ job[c].stage = "done"
    \/ oldLoop[c] = "done"
    \/ "idle" \in ToSet(reports[c])
    \/ "idle" \in ToSet(old[c])
    \/ status[c] = "idle"

OnlyThisCommand(c) ==
    /\ ToSet(wire[c]) \subseteq {command, StopMsg}
    /\ ToSet(queue[c]) \subseteq {command}
    /\ job[c].cmd \in {command, NoCommand}
    /\ SaysIdle(c) => finished[c] = command

NewcomerInv ==
    /\ newcomers \subseteq want
    /\ wait = "none" => newcomers = {}
    /\ \A c \in newcomers : OnlyThisCommand(c)
    /\ NewcomersFinish

\* What a step may do to a client without breaking that.
LEMMA OnlyThisCommandStays ==
    ASSUME NEW c \in Members, OnlyThisCommand(c), command' = command,
           ToSet(wire'[c]) \subseteq ToSet(wire[c]) \cup {StopMsg},
           ToSet(queue'[c]) \subseteq ToSet(queue[c]) \cup (ToSet(wire[c]) \ {StopMsg}),
           job'[c].cmd \in {job[c].cmd, NoCommand} \cup ToSet(queue[c]),
           \/ /\ finished'[c] = finished[c]
              /\ SaysIdle(c)' => SaysIdle(c)
           \/ /\ finished'[c] = job[c].cmd
              /\ job[c].cmd # NoCommand
    PROVE  OnlyThisCommand(c)' /\ (finished[c] = command => finished'[c] = command)
  <1>1. ToSet(wire'[c]) \subseteq {command', StopMsg} /\ ToSet(queue'[c]) \subseteq {command'}
    BY DEF OnlyThisCommand
  <1>2. job'[c].cmd \in {command', NoCommand}
    BY DEF OnlyThisCommand
  <1>3. /\ SaysIdle(c)' => finished'[c] = command'
        /\ finished[c] = command => finished'[c] = command
    BY DEF OnlyThisCommand
  <1> QED BY <1>1, <1>2, <1>3 DEF OnlyThisCommand

\* A step of one client leaves the others alone.
LEMMA OthersStay ==
    ASSUME WaitTypeInv, NEW c \in Members, ClientStepOf(c), NEW d \in Members, d # c
    PROVE  /\ status'[d] = status[d] /\ wire'[d] = wire[d] /\ queue'[d] = queue[d]
           /\ job'[d] = job[d] /\ oldLoop'[d] = oldLoop[d] /\ reports'[d] = reports[d]
           /\ old'[d] = old[d] /\ finished'[d] = finished[d]
  <1>0. ClientTypes
    BY TypeGroups
  <1>1. CASE ReadReport(c) \/ ReadOldReport(c) \/ OldReportsLost(c) \/ Lose(c) \/ Reregister(c)
    BY <1>0, <1>1 DEF ReadReport, ReadOldReport, OldReportsLost, Lose, Reregister, SetStatus,
       ClientTypes
  <1>2. CASE Welcomed(c) \/ ReadCommand(c) \/ ReadStop(c)
    BY <1>0, <1>2 DEF Welcomed, ReadCommand, ReadStop, ClientStep, Report, ClientTypes
  <1>3. CASE Take(c) \/ Announce(c) \/ EndWork(c) \/ ReportIdle(c)
    BY <1>0, <1>3 DEF Take, Announce, EndWork, ReportIdle, ClientStep, Report, ClientTypes
  <1>4. CASE SessionEnds(c)
    BY <1>0, <1>4 DEF SessionEnds, ClientTypes
  <1>5. CASE OldLoop(c)
    BY <1>0, <1>5 DEF OldLoop, OldLoopTakes, OldLoopSays, OldLoopEnds, ClientStep, OldReport,
       Report, ClientTypes
  <1> QED BY <1>1, <1>2, <1>3, <1>4, <1>5 DEF ClientStepOf

\* The step of a client keeps to what OnlyThisCommandStays allows.
LEMMA ClientStepKeeps ==
    ASSUME WaitTypeInv, NEW c \in Members, ClientStepOf(c), OnlyThisCommand(c)
    PROVE  OnlyThisCommand(c)' /\ (finished[c] = command => finished'[c] = command)
  <1>0. ClientTypes /\ JobsOK
    BY TypeGroups
  <1>a. /\ status[c] \in Statuses /\ wire[c] \in Seq(Messages) /\ queue[c] \in Seq(Commands)
        /\ job[c] \in Jobs /\ reports[c] \in Seq(Reports) /\ old[c] \in Seq(Reports)
    BY <1>0 DEF ClientTypes
  <1>b. command' = command
    BY DEF ClientStepOf, OldLoop, OldLoopTakes, OldLoopSays, OldLoopEnds, ReadReport,
       ReadOldReport, OldReportsLost, Lose, Reregister, Welcomed, ReadCommand, ReadStop, Take,
       Announce, EndWork, ReportIdle, SessionEnds, ClientStep, controller
  <1>c. \A s \in Reports : ToSet(Append(reports[c], s)) \subseteq ToSet(reports[c]) \cup {s}
    BY <1>a, Added
  <1>d. {"registered", "running", "idle", "stopped"} \subseteq Reports
    BY Words
  <1>e. /\ Cancelled(job[c]).stage = job[c].stage
        /\ Cancelled(job[c]).cmd \in {job[c].cmd, NoCommand}
    BY <1>a, JobTypes
  <1>1. CASE ReadReport(c) \/ ReadOldReport(c) \/ OldReportsLost(c)
    <2>1. /\ reports[c] # << >> => /\ Head(reports[c]) \in ToSet(reports[c])
                                   /\ ToSet(Tail(reports[c])) \subseteq ToSet(reports[c])
          /\ old[c] # << >> => /\ Head(old[c]) \in ToSet(old[c])
                               /\ ToSet(Tail(old[c])) \subseteq ToSet(old[c])
      BY <1>a, Queues
    <2>2. UNCHANGED <<wire, queue, job, oldLoop, finished>>
      BY <1>1 DEF ReadReport, ReadOldReport, OldReportsLost
    <2>3. SaysIdle(c)' => SaysIdle(c)
      <3>1. CASE ReadReport(c)
        <4>1. /\ reports'[c] = Tail(reports[c]) /\ old' = old /\ reports[c] # << >>
              /\ status'[c] = status[c] \/ status'[c] = Head(reports[c])
          BY <1>0, <3>1 DEF ReadReport, SetStatus, ClientTypes
        <4> QED BY <2>1, <2>2, <4>1 DEF SaysIdle
      <3>2. CASE ReadOldReport(c)
        <4>1. /\ old'[c] = Tail(old[c]) /\ reports' = reports /\ old[c] # << >>
              /\ status'[c] = status[c] \/ status'[c] = Head(old[c])
          BY <1>0, <3>2 DEF ReadOldReport, SetStatus, ClientTypes
        <4> QED BY <2>1, <2>2, <4>1 DEF SaysIdle
      <3>3. CASE OldReportsLost(c)
        <4>1. old'[c] = << >> /\ reports' = reports /\ status' = status
          BY <1>0, <3>3 DEF OldReportsLost, ClientTypes
        <4> QED BY <2>2, <4>1, NothingIn DEF SaysIdle
      <3> QED BY <1>1, <3>1, <3>2, <3>3
    <2> QED BY <1>b, <2>2, <2>3, OnlyThisCommandStays
  <1>2. CASE Lose(c) \/ Reregister(c)
    <2>1. status'[c] # "idle" /\ (old'[c] = old[c] \/ old'[c] = << >>)
      BY <1>0, <1>2 DEF Lose, Reregister, ClientTypes
    <2>2. UNCHANGED <<wire, queue, job, oldLoop, reports, finished>>
      BY <1>2 DEF Lose, Reregister
    <2>3. SaysIdle(c)' => SaysIdle(c)
      BY <2>1, <2>2, NothingIn DEF SaysIdle
    <2> QED BY <1>b, <2>2, <2>3, OnlyThisCommandStays
  <1>3. CASE Welcomed(c)
    <2>1. reports'[c] = Append(reports[c], "registered")
      BY <1>0, <1>3 DEF Welcomed, Report, ClientTypes
    <2>2. UNCHANGED <<wire, queue, job, oldLoop, finished>> /\ UNCHANGED <<status, old>>
      BY <1>3 DEF Welcomed, ClientStep
    <2>3. SaysIdle(c)' => SaysIdle(c)
      BY <1>c, <1>d, <2>1, <2>2 DEF SaysIdle
    <2> QED BY <1>b, <2>2, <2>3, OnlyThisCommandStays
  <1>4. CASE ReadCommand(c)
    <2>1. /\ Head(wire[c]) \in ToSet(wire[c]) \ {StopMsg} /\ Head(wire[c]) \in Commands
          /\ ToSet(Tail(wire[c])) \subseteq ToSet(wire[c])
      BY <1>4, <1>a, Queues DEF ReadCommand, Messages
    <2> DEFINE kept == IF Len(queue[c]) < Capacity THEN queue[c] ELSE Tail(queue[c])
    <2>2. kept \in Seq(Commands) /\ ToSet(kept) \subseteq ToSet(queue[c])
      <3>1. CASE Len(queue[c]) < Capacity
        BY <1>a, <3>1
      <3>2. CASE ~(Len(queue[c]) < Capacity)
        <4>1. queue[c] # << >>
          BY <1>a, <3>2, WaitAssumption
        <4> QED BY <1>a, <3>2, <4>1, Queues
      <3> QED BY <3>1, <3>2
    <2>3. queue'[c] = Append(kept, Head(wire[c])) /\ wire'[c] = Tail(wire[c])
      BY <1>0, <1>4 DEF ReadCommand, ClientTypes
    <2> HIDE DEF kept
    <2>4. ToSet(queue'[c]) \subseteq ToSet(queue[c]) \cup (ToSet(wire[c]) \ {StopMsg})
      <3>1. ToSet(queue'[c]) \subseteq ToSet(kept) \cup {Head(wire[c])}
        BY <2>1, <2>2, <2>3, Added
      <3> QED BY <2>1, <2>2, <3>1
    <2>5. UNCHANGED <<job, oldLoop, reports, finished>> /\ UNCHANGED <<status, old>>
      BY <1>4 DEF ReadCommand, ClientStep
    <2>6. SaysIdle(c)' => SaysIdle(c)
      BY <2>5 DEF SaysIdle
    <2> QED BY <1>b, <2>1, <2>3, <2>4, <2>5, <2>6, OnlyThisCommandStays
  <1>5. CASE ReadStop(c)
    <2>1. wire'[c] = Tail(wire[c]) /\ wire[c] # << >>
      BY <1>0, <1>5 DEF ReadStop, ClientTypes
    <2>2. ToSet(wire'[c]) \subseteq ToSet(wire[c])
      BY <1>a, <2>1, Queues
    <2>3. job'[c] = Cancelled(job[c]) \/ job'[c] = job[c]
      BY <1>0, <1>5 DEF ReadStop, ClientTypes
    <2>4. reports'[c] = reports[c] \/ reports'[c] = Append(reports[c], "stopped")
      BY <1>0, <1>5 DEF ReadStop, Report, ClientTypes
    <2>5. UNCHANGED <<queue, oldLoop, finished>> /\ UNCHANGED <<status, old>>
      BY <1>5 DEF ReadStop, ClientStep
    <2>6. "idle" \in ToSet(reports'[c]) => "idle" \in ToSet(reports[c])
      BY <1>c, <1>d, <2>4
    <2>7. SaysIdle(c)' => SaysIdle(c)
      BY <1>e, <2>3, <2>5, <2>6 DEF SaysIdle
    <2> QED BY <1>b, <1>e, <2>2, <2>3, <2>5, <2>7, OnlyThisCommandStays
  <1>6. CASE Take(c)
    <2>1. /\ Head(queue[c]) \in ToSet(queue[c])
          /\ ToSet(Tail(queue[c])) \subseteq ToSet(queue[c])
      BY <1>6, <1>a, Queues DEF Take
    <2>2. /\ queue'[c] = Tail(queue[c])
          /\ \/ job'[c] = job[c]
             \/ job'[c].stage = "taken" /\ job'[c].cmd = Head(queue[c])
      BY <1>0, <1>6 DEF Take, ClientTypes
    <2>3. UNCHANGED <<wire, oldLoop, reports, finished>> /\ UNCHANGED <<status, old>>
      BY <1>6 DEF Take, ClientStep
    <2>4. SaysIdle(c)' => SaysIdle(c)
      BY <2>2, <2>3 DEF SaysIdle
    <2> QED BY <1>b, <2>1, <2>2, <2>3, <2>4, OnlyThisCommandStays
  <1>7. CASE Announce(c)
    <2>1. /\ job'[c].stage = "working" /\ job'[c].cmd = job[c].cmd
          /\ reports'[c] = Append(reports[c], "running")
      BY <1>0, <1>7, <1>a DEF Announce, Report, ClientTypes, Jobs
    <2>2. UNCHANGED <<wire, queue, oldLoop, finished>> /\ UNCHANGED <<status, old>>
      BY <1>7 DEF Announce, ClientStep
    <2>3. SaysIdle(c)' => SaysIdle(c)
      BY <1>c, <1>d, <2>1, <2>2 DEF SaysIdle
    <2> QED BY <1>b, <2>1, <2>2, <2>3, OnlyThisCommandStays
  <1>8. CASE EndWork(c)
    <2>1. UNCHANGED <<wire, queue, oldLoop, reports>> /\ UNCHANGED <<status, old>>
      BY <1>8 DEF EndWork, ClientStep
    <2>2. CASE /\ job[c].cmd # NoCommand /\ job' = [job EXCEPT ![c].stage = "done"]
               /\ finished' = [finished EXCEPT ![c] = job[c].cmd]
      <3>1. job'[c].cmd = job[c].cmd /\ finished'[c] = job[c].cmd
        BY <1>0, <1>a, <2>2 DEF ClientTypes, Jobs
      <3> QED BY <1>b, <2>1, <2>2, <3>1, OnlyThisCommandStays
    <2>3. CASE job' = [job EXCEPT ![c] = Free] /\ UNCHANGED finished
      <3>1. job'[c].cmd = NoCommand /\ job'[c].stage = "free"
        BY <1>0, <2>3, JobTypes DEF ClientTypes
      <3>2. SaysIdle(c)' => SaysIdle(c)
        BY <2>1, <3>1 DEF SaysIdle
      <3> QED BY <1>b, <2>1, <2>3, <3>1, <3>2, OnlyThisCommandStays
    <2> QED BY <1>8, <2>2, <2>3 DEF EndWork
  <1>9. CASE ReportIdle(c)
    <2>1. /\ job[c].stage = "done" /\ job'[c].cmd = NoCommand /\ job'[c].stage = "free"
      BY <1>0, <1>9, JobTypes DEF ReportIdle, ClientTypes
    <2>2. UNCHANGED <<wire, queue, oldLoop, finished>> /\ UNCHANGED <<status, old>>
      BY <1>9 DEF ReportIdle, ClientStep
    <2>3. SaysIdle(c)
      BY <2>1 DEF SaysIdle
    <2> QED BY <1>b, <2>1, <2>2, <2>3, OnlyThisCommandStays
  <1>10. CASE SessionEnds(c)
    <2>1. /\ wire'[c] = << >> /\ old'[c] = reports[c] /\ reports'[c] = << >>
          /\ job'[c] = Free /\ (oldLoop'[c] = "done" => job[c].stage = "done")
      BY <1>0, <1>10 DEF SessionEnds, ClientTypes
    <2>2. UNCHANGED <<queue, finished, status>>
      BY <1>10 DEF SessionEnds
    <2>3. SaysIdle(c)' => SaysIdle(c)
      BY <2>1, <2>2, NothingIn, JobTypes DEF SaysIdle
    <2> QED BY <1>b, <2>1, <2>2, <2>3, NothingIn, JobTypes, OnlyThisCommandStays
  <1>11. CASE OldLoopTakes(c)
    <2>1. /\ queue'[c] = Tail(queue[c]) /\ queue[c] # << >> /\ job'[c] = Cancelled(job[c])
          /\ oldLoop'[c] = "taken"
      BY <1>0, <1>11 DEF OldLoopTakes, ClientTypes
    <2>2. ToSet(queue'[c]) \subseteq ToSet(queue[c])
      BY <1>a, <2>1, Queues
    <2>3. UNCHANGED <<wire, reports, finished>> /\ UNCHANGED <<status, old>>
      BY <1>11 DEF OldLoopTakes, ClientStep
    <2>4. SaysIdle(c)' => SaysIdle(c)
      BY <1>e, <2>1, <2>3 DEF SaysIdle
    <2> QED BY <1>b, <1>e, <2>1, <2>2, <2>3, <2>4, OnlyThisCommandStays
  <1>12. CASE OldLoopSays(c)
    <2>1. /\ oldLoop'[c] = "busy"
          /\ \/ reports'[c] = reports[c]
             \/ oldLoop[c] = "taken" /\ reports'[c] = Append(reports[c], "running")
             \/ oldLoop[c] = "done" /\ reports'[c] = Append(reports[c], "idle")
      BY <1>0, <1>12 DEF OldLoopSays, OldReport, Report, ClientTypes
    <2>2. UNCHANGED <<wire, queue, job, finished>> /\ UNCHANGED <<status, old>>
      BY <1>12 DEF OldLoopSays, ClientStep
    <2>3. "idle" \in ToSet(reports'[c]) => "idle" \in ToSet(reports[c]) \/ oldLoop[c] = "done"
      BY <1>c, <1>d, <2>1
    <2>4. SaysIdle(c)' => SaysIdle(c)
      BY <2>1, <2>2, <2>3 DEF SaysIdle
    <2> QED BY <1>b, <2>2, <2>4, OnlyThisCommandStays
  <1>13. CASE OldLoopEnds(c)
    <2>1. oldLoop'[c] = "none"
      BY <1>0, <1>13 DEF OldLoopEnds, ClientTypes
    <2>2. UNCHANGED <<wire, queue, job, reports, finished>> /\ UNCHANGED <<status, old>>
      BY <1>13 DEF OldLoopEnds, ClientStep
    <2>3. SaysIdle(c)' => SaysIdle(c)
      BY <2>1, <2>2 DEF SaysIdle
    <2> QED BY <1>b, <2>2, <2>3, OnlyThisCommandStays
  <1> QED BY <1>1, <1>2, <1>3, <1>4, <1>5, <1>6, <1>7, <1>8, <1>9, <1>10, <1>11, <1>12, <1>13
          DEF ClientStepOf, OldLoop

LEMMA NextNewcomerInv ==
    ASSUME WaitTypeInv, NewcomerInv, [WaitNext]_waitVars
    PROVE  NewcomerInv'
  <1>0. RunTypes /\ ClientTypes /\ JobsOK
    BY TypeGroups
  <1>a. newcomers \subseteq Members
    BY <1>0 DEF RunTypes
  <1>1. CASE RunStep
    <2>1. UNCHANGED <<status, clients, command>>
      BY <1>0, <1>1, RunStepTypes
    <2>2. /\ newcomers' \subseteq newcomers
          /\ newcomers' \subseteq want'
          /\ wait' = "none" => newcomers' = {}
      <3>1. CASE StartRun \/ FinishRun
        BY <1>0, <3>1 DEF StartRun, FinishRun, NewcomerInv, ghostVars
      <3>2. CASE TimedOver \/ Poll \/ TimePasses \/ TimesOut
        BY <3>2 DEF TimedOver, Poll, TimePasses, TimesOut, Over, NewcomerInv, ghostVars
      <3>3. CASE StopRun \/ \E c \in Members : Removal(c)
        BY <3>3 DEF StopRun, Removal, RemovalAborts, RemovalIgnored, Abort, NewcomerInv,
           controller, ghostVars
      <3> QED BY <1>1, <3>1, <3>2, <3>3 DEF RunStep
    <2>3. ASSUME NEW c \in newcomers' PROVE OnlyThisCommand(c)'
      <3>1. OnlyThisCommand(c)
        BY <2>2 DEF NewcomerInv
      <3> QED BY <2>1, <3>1 DEF OnlyThisCommand, SaysIdle, clients
    <2>4. NewcomersFinish'
      <3> SUFFICES ASSUME wait' = "idle", NEW c \in newcomers'
                   PROVE  finished'[c] = command'
        BY DEF NewcomersFinish
      <3>0. c \in newcomers /\ c \in want /\ OnlyThisCommand(c)
        BY <2>2 DEF NewcomerInv
      <3>1. UNCHANGED <<finished, command>>
        BY <2>1 DEF clients
      <3>2. CASE wait = "idle"
        BY <3>0, <3>1, <3>2 DEF NewcomerInv, NewcomersFinish
      <3>3. CASE wait # "idle"
        <4>1. Poll /\ Done
          BY <1>1, <3>3 DEF RunStep, StartRun, FinishRun, TimedOver, Poll, TimePasses, TimesOut,
             StopRun, Removal, RemovalAborts, RemovalIgnored, Abort, Over, controller
        <4>2. status[c] = "idle"
          BY <3>0, <4>1 DEF Done, AllIdle
        <4>3. finished[c] = command
          BY <3>0, <4>2 DEF OnlyThisCommand, SaysIdle
        <4> QED BY <3>1, <4>3
      <3> QED BY <3>2, <3>3
    <2> QED BY <2>2, <2>3, <2>4 DEF NewcomerInv
  <1>2. ASSUME NEW kind \in {"timed", "waiting"}, SendCommand(kind) PROVE NewcomerInv'
    <2>1. /\ newcomers' \subseteq want' /\ wait' \notin {"none", "idle"}
          /\ command' = command + 1 /\ newcomers' \subseteq want
      BY <1>2 DEF SendCommand
    <2>2. UNCHANGED <<status, queue, job, oldLoop, reports, old, finished>>
      BY <1>2 DEF SendCommand
    <2>3. ASSUME NEW c \in newcomers' PROVE OnlyThisCommand(c)'
      <3>1. c \in Members /\ status[c] # "idle" /\ ~Unanswered(c)
        BY <1>0, <1>2, <2>1 DEF SendCommand, RunTypes
      <3>2. wire[c] \in Seq(Messages) /\ queue[c] \in Seq(Commands)
        BY <1>0, <3>1 DEF ClientTypes
      <3>a. /\ \A m \in Commands : m \notin ToSet(wire[c]) /\ m \notin ToSet(queue[c])
            /\ job[c].cmd = NoCommand
            /\ oldLoop[c] # "done"
            /\ "idle" \notin ToSet(reports[c]) /\ "idle" \notin ToSet(old[c])
        BY <3>1 DEF Unanswered
      <3>3. ToSet(wire[c]) \subseteq {StopMsg}
        <4>1. ToSet(wire[c]) \subseteq Messages
          BY <3>2 DEF ToSet
        <4> QED BY <3>a, <4>1 DEF Messages
      <3>4. ToSet(queue[c]) = {}
        <4>1. ToSet(queue[c]) \subseteq Commands
          BY <3>2 DEF ToSet
        <4> QED BY <3>a, <4>1
      <3>5. command + 1 \in Commands
        BY <1>0, <1>2, WaitAssumption DEF SendCommand, RunTypes, Commands, NoCommand
      <3>6. ToSet(wire'[c]) \subseteq {command', StopMsg}
        <4>1. wire'[c] = wire[c] \/ wire'[c] = Append(wire[c], command + 1)
          BY <1>2, <3>1 DEF SendCommand, Broadcast
        <4>2. ToSet(Append(wire[c], command + 1)) \subseteq ToSet(wire[c]) \cup {command + 1}
          BY <3>2, <3>5, Added DEF Messages
        <4> QED BY <2>1, <3>3, <4>1, <4>2
      <3>7. ~SaysIdle(c) /\ job[c].cmd = NoCommand
        BY <1>0, <3>1, <3>a DEF SaysIdle, JobsOK
      <3>8. ~SaysIdle(c)'
        BY <2>2, <3>7 DEF SaysIdle
      <3> QED BY <2>2, <3>4, <3>6, <3>7, <3>8 DEF OnlyThisCommand
    <2> QED BY <2>1, <2>3 DEF NewcomerInv, NewcomersFinish
  <1>3. CASE SendStop
    <2>1. UNCHANGED <<wait, command, want, newcomers>>
      BY <1>3 DEF SendStop, controller
    <2>2. UNCHANGED <<status, queue, job, oldLoop, reports, old, finished>>
      BY <1>3 DEF SendStop
    <2>3. ASSUME NEW c \in newcomers PROVE OnlyThisCommand(c)'
      <3>1. c \in Members /\ OnlyThisCommand(c)
        BY <1>a DEF NewcomerInv
      <3>2. ToSet(wire'[c]) \subseteq ToSet(wire[c]) \cup {StopMsg}
        <4>1. wire'[c] = wire[c] \/ wire'[c] = Append(wire[c], StopMsg)
          BY <1>3, <3>1 DEF SendStop, Broadcast
        <4>2. wire[c] \in Seq(Messages)
          BY <1>0, <3>1 DEF ClientTypes
        <4>3. ToSet(Append(wire[c], StopMsg)) \subseteq ToSet(wire[c]) \cup {StopMsg}
          BY <4>2, Added DEF Messages
        <4> QED BY <4>1, <4>3
      <3>3. SaysIdle(c)' => SaysIdle(c)
        BY <2>2 DEF SaysIdle
      <3> QED BY <2>1, <2>2, <3>1, <3>2, <3>3, OnlyThisCommandStays
    <2> QED BY <2>1, <2>2, <2>3 DEF NewcomerInv, NewcomersFinish
  <1>4. ASSUME NEW c \in Members, ClientStepOf(c) PROVE NewcomerInv'
    <2>1. UNCHANGED <<wait, command, want, newcomers>>
      BY <1>4 DEF ClientStepOf, OldLoop, OldLoopTakes, OldLoopSays, OldLoopEnds, ReadReport,
         ReadOldReport, OldReportsLost, Lose, Reregister, Welcomed, ReadCommand, ReadStop, Take,
         Announce, EndWork, ReportIdle, SessionEnds, ClientStep, controller, ghostVars
    <2>2. ASSUME NEW d \in newcomers
          PROVE  OnlyThisCommand(d)' /\ (finished[d] = command => finished'[d] = command)
      <3>1. d \in Members /\ OnlyThisCommand(d)
        BY <1>a DEF NewcomerInv
      <3>2. CASE d = c
        BY <1>4, <3>1, <3>2, ClientStepKeeps
      <3>3. CASE d # c
        BY <1>4, <2>1, <3>1, <3>3, OthersStay DEF OnlyThisCommand, SaysIdle
      <3> QED BY <3>2, <3>3
    <2> QED BY <2>1, <2>2 DEF NewcomerInv, NewcomersFinish
  <1>5. CASE UNCHANGED waitVars
    BY <1>5 DEF waitVars, controller, clients, ghostVars, NewcomerInv, NewcomersFinish,
       OnlyThisCommand, SaysIdle
  <1> QED BY <1>1, <1>2, <1>3, <1>4, <1>5, NextCases

\* A wait that ends because all are idle has had the work of every participant
\* that was not idle, and owed no answer, when the command was sent: whatever
\* runs, stops and sessions came before or come in between.
THEOREM NewcomersHaveFinished ==
    WaitSpec => []NewcomersFinish
  <1>1. WaitInit => NewcomerInv
    BY DEF WaitInit, NewcomerInv, NewcomersFinish
  <1>2. WaitTypeInv /\ NewcomerInv /\ [WaitNext]_waitVars => NewcomerInv'
    BY NextNewcomerInv
  <1> QED BY <1>1, <1>2, AlwaysWaitTypeInv, PTL DEF WaitSpec, NewcomerInv
=============================================================================
