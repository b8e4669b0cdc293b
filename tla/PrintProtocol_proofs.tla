------------------------ MODULE PrintProtocol_proofs ------------------------
(***************************************************************************)
(* Proofs about PrintProtocol, for any number of jobs, printers, handlers  *)
(* and pushers, any budgets and, unless a theorem says otherwise, every    *)
(* mix of faults:                                                          *)
(*   - the protocol implements GatewayJobs: whatever the agent and the     *)
(*     network do, the Gateway only takes steps GatewayJobs allows, so all *)
(*     that is proved there holds here too;                                *)
(*   - "success" means paper;                                              *)
(*   - with a working ledger and reprint_after_crash off, a document is    *)
(*     put on paper once at most, and the ledger knows of it.              *)
(***************************************************************************)
EXTENDS PrintProtocol, GatewayJobs_proofs

(* A token anybody holds is one the Gateway has issued (reports may carry  *)
(* none), and an agent invents no other error than these.                  *)
TokensInv ==
  /\ \A f \in frames \cup polled \cup acks : f.token \in 1 .. issued[f.job]
  /\ \A m \in reports : m.token \in 0 .. issued[m.job] /\ m.error \in AgentErrors
  /\ \A j \in Jobs : /\ held[j] \in 0 .. issued[j]
                     /\ task[j] \in 0 .. issued[j]
                     /\ ledger[j].token \in 0 .. issued[j]

ProtocolInv == GatewayInv /\ TypeOK /\ TokensInv

AgentMoves == Receiving \/ Executing \/ Living

LEMMA InitProtocol == Init => ProtocolInv
<1> SUFFICES ASSUME Init PROVE ProtocolInv
  OBVIOUS
<1> USE DEF Init
<1>1. GatewayInv
  BY InitInv
<1>2. NoLedgerRow \in LedgerRow
  BY DEF NoLedgerRow, LedgerRow, Errors
<1>3. TypeOK
  BY <1>1, <1>2 DEF TypeOK, GatewayInv, TablesInv, Phases
<1>4. TokensInv
  BY DEF TokensInv, GatewayInit, NoLedgerRow
<1> QED
  BY <1>1, <1>3, <1>4 DEF ProtocolInv

(* A token that was live when a message about it was sent may be renewed   *)
(* by the heartbeat or an ack like any other.                              *)
LEMMA AgentStepsAreAllowed ==
  ASSUME ProtocolInv, Serving
  PROVE  GatewayNext \/ UNCHANGED gatewayVars
<1> USE DEF ProtocolInv, GatewayInv, TablesInv
<1>1. CASE \E p \in Pushers : PushToSocket(p)
  BY <1>1 DEF PushToSocket, GatewayNext, Delivering
<1>2. CASE \E S \in SUBSET Jobs : StartPoll(S) \/ AnswerPoll(S)
  BY <1>2 DEF StartPoll, AnswerPoll, GatewayNext
<1>3. ASSUME NEW a \in acks, ReceiveAck(a)
      PROVE  GatewayNext \/ UNCHANGED gatewayVars
  <2>1. a.job \in Jobs /\ a.token \in 1 .. issued[a.job]
    BY DEF TypeOK, TokensInv, Envelope
  <2> QED
    BY <1>3, <2>1 DEF ReceiveAck, GatewayNext
<1>4. ASSUME NEW j \in Jobs, Heartbeat(j)
      PROVE  GatewayNext
  <2>1. held[j] \in 1 .. issued[j]
    BY <1>4 DEF Heartbeat, TokensInv, GatewayTypeOK
  <2> QED
    BY <1>4, <2>1 DEF Heartbeat, GatewayNext
<1>5. CASE \E j \in Jobs : ServerError(j)
  BY <1>5 DEF ServerError
<1>6. ASSUME NEW h \in Handlers, NEW m \in reports, ServeRead(h, m)
      PROVE  GatewayNext \/ UNCHANGED gatewayVars
  <2>1. /\ m.job \in Jobs /\ m.want \in Statuses
        /\ m.token \in 0 .. issued[m.job] /\ m.error \in AgentErrors
    BY DEF TypeOK, TokensInv, Report
  <2> QED
    BY <1>6, <2>1 DEF ServeRead, GatewayNext, AnyReport
<1>7. CASE \E h \in Handlers : ServeWrite(h)
  BY <1>7 DEF ServeWrite, GatewayNext
<1>8. CASE GatewayAlone
  BY <1>8 DEF GatewayAlone, GatewayNext, Delivering, Surroundings
<1>9. CASE GatewayDies
  BY <1>9 DEF GatewayDies, GatewayNext, Surroundings
<1> QED
  BY <1>1, <1>2, <1>3, <1>4, <1>5, <1>6, <1>7, <1>8, <1>9 DEF Serving

(* What the agent does changes nothing at the Gateway. *)
LEMMA AgentLeavesGateway ==
  ASSUME AgentMoves
  PROVE  UNCHANGED gatewayVars
<1>1. CASE Receiving
  BY <1>1 DEF Receiving, ReceiveFrame, ReceivePolled
<1>2. CASE Executing
  BY <1>2 DEF Executing, Process, ProcessExpired, ProcessLedgerFault, ProcessKnownSuccess,
     ProcessKnownUnknown, ProcessRefused, ProcessReady, ProcessBegin, BacklogCancelled, Hear,
     PrintingAccepted, PrintingRefused, PrintingUnanswered, Close, WindowPasses,
     PrintDocument, RecordOutcome, OnlyTask, OnlyPhase
<1>3. CASE Living
  BY <1>3 DEF Living, Shutdown, Die, Restart, CleanupTerminal
<1> QED
  BY <1>1, <1>2, <1>3 DEF AgentMoves

LEMMA GatewayStep ==
  ASSUME ProtocolInv, [Next]_vars
  PROVE  [GatewayNext]_gatewayVars
BY AgentStepsAreAllowed, AgentLeavesGateway DEF Next, AgentMoves, vars

(* Tokens are only ever added. *)
LEMMA TokensGrow ==
  ASSUME GatewayInv, [GatewayNext]_gatewayVars
  PROVE  /\ issued \in [Jobs -> Nat] /\ issued' \in [Jobs -> Nat]
         /\ \A j \in Jobs : issued[j] <= issued'[j]
<1> USE DEF GatewayInv, TablesInv, GatewayTypeOK
<1>1. issued' \in [Jobs -> Nat]
  BY NextInv
<1>2. CASE \E p \in Pushers, j \in Jobs : WsClaim(p, j)
  BY <1>1, <1>2 DEF WsClaim
<1>3. CASE \E S \in SUBSET Jobs : PollClaim(S)
  BY <1>1, <1>3 DEF PollClaim
<1>4. CASE issued' = issued
  BY <1>4
<1> QED
  BY <1>1, <1>2, <1>3, <1>4 DEF GatewayNext, PollSnapshot, Delivering, PushSend, PushFails,
     MarkDelivered, ReleaseUndelivered, RecordAck, KeepAlive, AnyReport, PatchRead, PatchWrite,
     Sweep, SweepExpire, SweepRequeue, SweepSilent, SweepPrinting, SweepExhausted, Surroundings,
     TimePasses, TtlPasses, AgentPresence, PrinterPresence, GatewayRestart, gatewayVars

(* Messages and goroutines keep their types and hold only issued tokens.   *)
LEMMA ServingKeepsTokens ==
  ASSUME ProtocolInv, Serving, GatewayInv',
         issued \in [Jobs -> Nat], issued' \in [Jobs -> Nat],
         \A j \in Jobs : issued[j] <= issued'[j]
  PROVE  TypeOK' /\ TokensInv'
<1> USE DEF ProtocolInv, GatewayInv, TablesInv, TypeOK
<1>1. CASE /\ UNCHANGED <<polled, acks, reports, agentVars>>
           /\ polling' \in BOOLEAN
           /\ \/ UNCHANGED frames
              \/ \E p \in Pushers : /\ push[p] # Idle
                                    /\ frames' = frames \cup
                                         {[job |-> push[p].job, token |-> push[p].token]}
  <2> USE DEF agentVars
  <2>1. \A p \in Pushers : push[p] # Idle =>
          /\ [job |-> push[p].job, token |-> push[p].token] \in Envelope
          /\ push[p].token \in 1 .. issued[push[p].job]
    BY DEF GatewayTypeOK, Delivery, PushInv, Envelope
  <2>2. /\ frames' \subseteq Envelope
        /\ \A f \in frames' : f.token \in 1 .. issued[f.job]
    <3>1. \A f \in frames : f \in Envelope /\ f.token \in 1 .. issued[f.job]
      BY DEF TokensInv
    <3>2. CASE UNCHANGED frames
      BY <3>1, <3>2
    <3>3. ASSUME NEW p \in Pushers, push[p] # Idle,
                 frames' = frames \cup {[job |-> push[p].job, token |-> push[p].token]}
          PROVE  /\ frames' \subseteq Envelope
                 /\ \A f \in frames' : f.token \in 1 .. issued[f.job]
      BY <2>1, <3>1, <3>3
    <3> QED
      BY <1>1, <3>2, <3>3
  <2>3. TypeOK'
    BY <1>1, <2>2
  <2>4. TokensInv'
    BY <1>1, <2>2 DEF TokensInv, Envelope, Report
  <2> QED
    BY <2>3, <2>4
<1>2. ASSUME NEW S \in SUBSET Jobs, AnswerPoll(S)
      PROVE  TypeOK' /\ TokensInv'
  <2> USE <1>2 DEF AnswerPoll, agentVars
  <2>1. \A j \in S : [job |-> j, token |-> issued'[j]] \in Envelope /\ issued'[j] \in 1 .. issued'[j]
    BY DEF PollClaim, Envelope
  <2>2. TypeOK'
    BY <2>1
  <2>3. TokensInv'
    BY <2>1 DEF TokensInv, Envelope, Report
  <2> QED
    BY <2>2, <2>3
<1>3. ASSUME NEW a \in acks, ReceiveAck(a)
      PROVE  TypeOK' /\ TokensInv'
  BY <1>3 DEF ReceiveAck, agentVars, TokensInv, Envelope, Report
<1>4. ASSUME NEW j \in Jobs, Heartbeat(j)
      PROVE  TypeOK' /\ TokensInv'
  BY <1>4 DEF Heartbeat, agentVars, networkVars, TokensInv, Envelope, Report
<1>5. CASE /\ OnlyReply
           /\ reports' \subseteq reports
           /\ reply' \in [Jobs -> {"none", "ok", "refused"}]
  BY <1>5 DEF OnlyReply, TokensInv, Envelope, Report
<1>6. ASSUME NEW j \in Jobs, ServerError(j)
      PROVE  TypeOK' /\ TokensInv'
  BY <1>5, <1>6 DEF ServerError
<1>7. ASSUME NEW h \in Handlers, NEW m \in reports, ServeRead(h, m)
      PROVE  TypeOK' /\ TokensInv'
  BY <1>5, <1>7 DEF ServeRead, Answered
<1>8. ASSUME NEW h \in Handlers, ServeWrite(h)
      PROVE  TypeOK' /\ TokensInv'
  BY <1>5, <1>8 DEF ServeWrite, Answered
<1>9. CASE GatewayAlone
  BY <1>1, <1>9 DEF GatewayAlone, networkVars
<1>10. ASSUME NEW p \in Pushers, PushToSocket(p)
       PROVE  TypeOK' /\ TokensInv'
  BY <1>1, <1>10 DEF PushToSocket, PushSend
<1>11. ASSUME NEW S \in SUBSET Jobs, StartPoll(S)
       PROVE  TypeOK' /\ TokensInv'
  BY <1>1, <1>11 DEF StartPoll
<1>12. CASE GatewayDies
  BY <1>1, <1>12 DEF GatewayDies
<1> QED
  BY <1>2, <1>3, <1>4, <1>6, <1>7, <1>8, <1>9, <1>10, <1>11, <1>12 DEF Serving

LEMMA ReceivingKeepsTokens ==
  ASSUME ProtocolInv, Receiving
  PROVE  TypeOK' /\ TokensInv'
<1> USE DEF ProtocolInv, GatewayInv, TablesInv
<1>1. UNCHANGED gatewayVars
  BY AgentLeavesGateway DEF AgentMoves
<1>2. PICK f \in frames \cup polled :
        /\ Dispatch(f.job, f.token)
        /\ frames' \subseteq frames /\ polled' \subseteq polled /\ acks' \subseteq acks \cup frames
        /\ UNCHANGED <<polling, life, ledger, paper>>
  BY DEF Receiving, ReceiveFrame, ReceivePolled
<1>3. /\ f.job \in Jobs /\ f.token \in 1 .. issued[f.job] /\ f.token \in Nat
      /\ held[f.job] \in 0 .. issued[f.job] /\ held[f.job] \in Nat
  BY DEF TypeOK, TokensInv, Envelope
<1>4. \A t \in {f.token, held[f.job]} :
        /\ Send(f.job, "queued", t, "none") \in Report
        /\ Send(f.job, "queued", t, "none").token \in 0 .. issued[f.job]
        /\ Send(f.job, "queued", t, "none").error \in AgentErrors
        /\ Send(f.job, "queued", t, "none").job = f.job
  BY <1>3 DEF Send, Report, Statuses, Errors, AgentErrors, GatewayTypeOK
<1>5. TypeOK'
  BY <1>1, <1>2, <1>3, <1>4 DEF Dispatch, taskVars, TypeOK, gatewayVars, GatewayTypeOK, Phases
<1>6. TokensInv'
  BY <1>1, <1>2, <1>3, <1>4 DEF Dispatch, taskVars, TokensInv, gatewayVars, TypeOK, Envelope,
     Report, GatewayTypeOK
<1> QED
  BY <1>5, <1>6

(* A report carries the token in the in-flight map. *)
LEMMA ReportIsTyped ==
  ASSUME ProtocolInv, UNCHANGED issued, NEW j \in Jobs, NEW want \in Statuses,
         NEW error \in AgentErrors, NEW next \in Phases,
         ReportAndWait(j, want, error, next)
  PROVE  /\ reports' \subseteq Report
         /\ \A m \in reports' : m.token \in 0 .. issued'[m.job] /\ m.error \in AgentErrors
         /\ asked' \in [Jobs -> [want: Statuses, token: Nat] \cup {Idle}]
         /\ reply' \in [Jobs -> {"none", "ok", "refused"}]
         /\ phase' \in [Jobs -> Phases]
<1> USE DEF ProtocolInv, ReportAndWait, TypeOK
<1> DEFINE m == Send(j, want, held[j], error)
<1>1. held[j] \in Nat /\ held[j] \in 0 .. issued[j] /\ error \in Errors
  BY DEF TokensInv, AgentErrors, Errors, UnknownMarkers
<1>2. m \in Report /\ m.job = j /\ m.token = held[j] /\ m.error = error
  BY <1>1 DEF Send, Report
<1>3. /\ reports' \subseteq Report
      /\ \A n \in reports' : n.token \in 0 .. issued'[n.job] /\ n.error \in AgentErrors
  BY <1>1, <1>2 DEF TokensInv
<1> QED
  BY <1>1, <1>3

LEMMA ExecutingKeepsTokens ==
  ASSUME ProtocolInv, NEW j \in Jobs,
         \/ Process(j) \/ BacklogCancelled(j) \/ Hear(j) \/ WindowPasses(j)
         \/ \E outcome \in AtPrinter : PrintDocument(j, outcome)
         \/ RecordOutcome(j)
  PROVE  TypeOK' /\ TokensInv'
<1> DEFINE Waits(error) ==
             \E want \in Statuses, next \in Phases : ReportAndWait(j, want, error, next)
           LedgerTyped ==
             /\ ledger' \in [Jobs -> LedgerRow]
             /\ \A k \in Jobs : ledger'[k].token \in 0 .. issued[k]
<1>a. UNCHANGED gatewayVars
  BY AgentLeavesGateway DEF AgentMoves, Executing
<1>b. ProtocolInv /\ GatewayTypeOK /\ TypeOK /\ TokensInv
  BY DEF ProtocolInv, TypeOK
<1>c. /\ ledger[j] \in LedgerRow /\ ledger[j].token \in 0 .. issued[j] /\ issued[j] \in Nat
      /\ task[j] \in Nat /\ task[j] \in 0 .. issued[j]
      /\ held[j] \in 0 .. issued[j]
  BY <1>b DEF TypeOK, TokensInv, GatewayTypeOK
<1>d. GatewayTypeOK' /\ (UNCHANGED ledger => LedgerTyped)
  BY <1>a, <1>b DEF gatewayVars, GatewayTypeOK, TypeOK, TokensInv
<1>e. ASSUME NEW r \in LedgerRow, r.token \in 0 .. issued[j], ledger' = [ledger EXCEPT ![j] = r]
      PROVE  LedgerTyped
  BY <1>b, <1>e DEF TypeOK, TokensInv
(* A step that reports and waits. *)
<1>1. ASSUME NEW error \in AgentErrors, Waits(error), LedgerTyped,
             UNCHANGED <<frames, polled, polling, acks, life, held, fresh, task, paper>>
      PROVE  TypeOK' /\ TokensInv'
  <2>1. UNCHANGED issued
    BY <1>a DEF gatewayVars
  <2>2. PICK want \in Statuses, next \in Phases : ReportAndWait(j, want, error, next)
    BY <1>1
  <2>3. /\ reports' \subseteq Report
        /\ \A m \in reports' : m.token \in 0 .. issued'[m.job] /\ m.error \in AgentErrors
        /\ asked' \in [Jobs -> [want: Statuses, token: Nat] \cup {Idle}]
        /\ reply' \in [Jobs -> {"none", "ok", "refused"}]
        /\ phase' \in [Jobs -> Phases]
    BY <2>1, <2>2, <1>b, ReportIsTyped
  <2>4. TypeOK'
    BY <1>1, <1>b, <1>d, <2>3 DEF TypeOK
  <2>5. TokensInv'
    BY <1>1, <1>b, <2>1, <2>3 DEF TokensInv
  <2> QED
    BY <2>4, <2>5
(* A step that only moves the goroutine, or ends it. *)
<1>2. ASSUME LedgerTyped, UNCHANGED networkVars, UNCHANGED life,
             held' \in [Jobs -> Nat], fresh' \in [Jobs -> BOOLEAN], task' \in [Jobs -> Nat],
             phase' \in [Jobs -> Phases],
             asked' \in [Jobs -> [want: Statuses, token: Nat] \cup {Idle}],
             reply' \in [Jobs -> {"none", "ok", "refused"}], paper' \in [Jobs -> Nat],
             \A k \in Jobs : held'[k] \in {held[k], 0} /\ task'[k] \in {task[k], 0}
      PROVE  TypeOK' /\ TokensInv'
  <2>1. TypeOK'
    BY <1>2, <1>b, <1>d DEF TypeOK, networkVars
  <2>2. TokensInv'
    BY <1>2, <1>a, <1>b DEF TokensInv, networkVars, gatewayVars, GatewayTypeOK
  <2> QED
    BY <2>1, <2>2
<1>3. CASE Process(j)
  <2> USE DEF OnlyTask
  <2>0. /\ {"closing", "asking", "returning", "waiting"} \subseteq Phases
        /\ {"queued", "success", "failed", "expired", "printing"} \subseteq Statuses
        /\ {"none", "plain", "AGENT_RESTART_DURING_PRINT", "UNKNOWN_PARTIAL_DELIVERY"}
             \subseteq AgentErrors
    BY DEF Phases, Statuses, AgentErrors
  <2>1. CASE ProcessExpired(j)
    BY <1>1, <1>d, <2>0, <2>1 DEF ProcessExpired
  <2>2. CASE ProcessLedgerFault(j)
    BY <1>1, <1>d, <2>0, <2>2 DEF ProcessLedgerFault
  <2>3. CASE ProcessKnownSuccess(j)
    BY <1>1, <1>d, <2>0, <2>3 DEF ProcessKnownSuccess
  <2>4. CASE ProcessKnownUnknown(j)
    BY <1>1, <1>d, <2>0, <2>4 DEF ProcessKnownUnknown
  <2>5. CASE ProcessRefused(j)
    BY <1>1, <1>d, <2>0, <2>5 DEF ProcessRefused
  <2>6. CASE ProcessReady(j)
    <3>1. phase' \in [Jobs -> Phases]
      BY <1>b, <2>0, <2>6 DEF ProcessReady, TypeOK
    <3> QED
      BY <1>2, <1>b, <1>d, <2>6, <3>1 DEF ProcessReady, TypeOK, networkVars
  <2>7. CASE ProcessBegin(j)
    <3>1. LedgerTyped
      BY <1>b, <1>c, <2>7 DEF ProcessBegin, LedgerRow, TypeOK, TokensInv
    <3> QED
      BY <1>1, <2>0, <2>7, <3>1 DEF ProcessBegin
  <2> QED
    BY <1>3, <2>1, <2>2, <2>3, <2>4, <2>5, <2>6, <2>7 DEF Process
<1>4. CASE BacklogCancelled(j)
  BY <1>1, <1>4, <1>d DEF BacklogCancelled, OnlyTask, Phases, Statuses, AgentErrors
<1>5. ASSUME Forget(j), LedgerTyped, OnlyPhase
      PROVE  TypeOK' /\ TokensInv'
  BY <1>2, <1>5, <1>b DEF Forget, OnlyPhase, TypeOK, Phases
<1>6. ASSUME Proceed(j), OnlyPhase
      PROVE  TypeOK' /\ TokensInv'
  BY <1>2, <1>6, <1>b, <1>d DEF Proceed, OnlyPhase, TypeOK, Phases
<1>7. ASSUME Abort(j)
      PROVE  LedgerTyped
  <2> DEFINE r == [ledger[j] EXCEPT !.status = "queued", !.error = "plain", !.token = 0]
  <2>1. r \in LedgerRow /\ r.token \in 0 .. issued[j]
    <3>1. r \in LedgerRow /\ r.token = 0
      BY <1>c DEF LedgerRow, Errors
    <3>2. 0 \in 0 .. issued[j]
      BY <1>c
    <3> HIDE DEF r
    <3> QED
      BY <3>1, <3>2
  <2>2. ledger' = [ledger EXCEPT ![j] = r] => LedgerTyped
    <3> HIDE DEF r, LedgerTyped
    <3> QED
      BY <1>e, <2>1
  <2>3. \/ ledger' = [ledger EXCEPT ![j] = r]
        \/ UNCHANGED ledger
    BY <1>7 DEF Abort
  <2> QED
    BY <1>d, <2>2, <2>3
<1>8. CASE Hear(j)
  BY <1>5, <1>6, <1>7, <1>8, <1>d DEF Hear, PrintingAccepted, PrintingRefused,
     PrintingUnanswered, Close, Abort
<1>9. CASE WindowPasses(j)
  BY <1>2, <1>9, <1>b, <1>d DEF WindowPasses, OnlyPhase, TypeOK
<1>10. ASSUME NEW outcome \in AtPrinter, PrintDocument(j, outcome)
       PROVE  TypeOK' /\ TokensInv'
  BY <1>2, <1>10, <1>b, <1>d DEF PrintDocument, TypeOK, AtPrinter, Phases
<1>11. CASE RecordOutcome(j)
  <2>1. LedgerTyped
    <3>1. CASE UNCHANGED ledger
      BY <1>d, <3>1
    <3>2. PICK status \in {"success", "failed"}, error \in Errors :
            ledger' = [ledger EXCEPT ![j].status = status,
                                     ![j].error = IF status = "failed" THEN error ELSE @]
                \/ UNCHANGED ledger
      BY <1>11 DEF RecordOutcome, Errors, UnknownMarkers
    <3> DEFINE r == [ledger[j] EXCEPT !.status = status,
                                      !.error = IF status = "failed" THEN error ELSE @]
    <3>3. r \in LedgerRow /\ r.token = ledger[j].token
      BY <1>c DEF LedgerRow
    <3>4. CASE ledger' = [ledger EXCEPT ![j] = r]
      BY <1>c, <1>e, <3>3, <3>4
    <3> QED
      BY <1>b, <3>1, <3>2, <3>4 DEF TypeOK
  <2> QED
    BY <1>1, <1>11, <2>1 DEF RecordOutcome, OnlyTask, Phases, Statuses, AgentErrors
<1> QED
  BY <1>3, <1>4, <1>8, <1>9, <1>10, <1>11

LEMMA LivingKeepsTokens ==
  ASSUME ProtocolInv, Living
  PROVE  TypeOK' /\ TokensInv'
<1> USE DEF ProtocolInv, GatewayInv, TablesInv
<1>a. UNCHANGED gatewayVars
  BY AgentLeavesGateway DEF AgentMoves
<1>b. GatewayTypeOK' /\ UNCHANGED issued /\ issued \in [Jobs -> Nat]
  BY <1>a DEF gatewayVars, GatewayTypeOK
<1>1. CASE Shutdown
  BY <1>1, <1>b DEF Shutdown, taskVars, networkVars, TypeOK, TokensInv
<1>2. CASE Die
  <2>1. polling' \in BOOLEAN
    BY <1>2 DEF Die
  <2>2. TokensInv'
    BY <1>2, <1>b DEF Die, TypeOK, TokensInv
  <2>3. TypeOK'
    BY <1>2, <1>b, <2>1 DEF Die, TypeOK, Phases
  <2> QED
    BY <2>2, <2>3
<1>3. CASE Restart
  <2> DEFINE marker == "AGENT_RESTART_DURING_PRINT"
  <2>1. PICK found \in SUBSET Jobs, marked \in SUBSET Jobs :
          /\ ledger' = [j \in Jobs |-> IF j \in marked
                          THEN [ledger[j] EXCEPT !.status = "failed", !.error = marker]
                          ELSE ledger[j]]
          /\ reports' \subseteq reports \cup
               {Send(j, "failed", ledger[j].token, marker) : j \in found}
    BY <1>3 DEF Restart
  <2>2. \A j \in Jobs : ledger'[j] \in LedgerRow /\ ledger'[j].token = ledger[j].token
    BY <2>1 DEF TypeOK, LedgerRow, Errors, UnknownMarkers
  <2>3. ledger' \in [Jobs -> LedgerRow]
    BY <2>1, <2>2
  <2>4. \A j \in Jobs : /\ Send(j, "failed", ledger[j].token, marker) \in Report
                        /\ Send(j, "failed", ledger[j].token, marker).job = j
                        /\ Send(j, "failed", ledger[j].token, marker).token = ledger[j].token
                        /\ Send(j, "failed", ledger[j].token, marker).error = marker
    BY DEF Send, Report, Statuses, Errors, UnknownMarkers, TypeOK, LedgerRow
  <2>5. /\ reports' \subseteq Report
        /\ \A m \in reports' : m.token \in 0 .. issued[m.job] /\ m.error \in AgentErrors
    <3>1. \A m \in reports : /\ m \in Report
                             /\ m.token \in 0 .. issued[m.job] /\ m.error \in AgentErrors
      BY DEF TypeOK, TokensInv
    <3>2. \A j \in Jobs : ledger[j].token \in 0 .. issued[j] /\ marker \in AgentErrors
      BY DEF TokensInv, AgentErrors
    <3>3. ASSUME NEW m \in reports', m \notin reports
          PROVE  m \in Report /\ m.token \in 0 .. issued[m.job] /\ m.error \in AgentErrors
      <4>1. PICK j \in found : m = Send(j, "failed", ledger[j].token, marker)
        BY <2>1, <3>3
      <4> QED
        BY <2>4, <3>2, <4>1
    <3> QED
      BY <3>1, <3>3
  <2> QED
    BY <1>3, <1>b, <2>2, <2>3, <2>5 DEF Restart, taskVars, TypeOK, TokensInv
<1>4. CASE CleanupTerminal
  <2>1. \A j \in Jobs : ledger'[j] \in {ledger[j], NoLedgerRow}
    BY <1>4 DEF CleanupTerminal
  <2>2. NoLedgerRow \in LedgerRow /\ NoLedgerRow.token = 0
    BY DEF NoLedgerRow, LedgerRow, Errors
  <2>3. ledger' \in [Jobs -> LedgerRow]
    BY <1>4, <2>1, <2>2 DEF CleanupTerminal, TypeOK
  <2> QED
    BY <1>4, <1>b, <2>1, <2>2, <2>3 DEF CleanupTerminal, taskVars, networkVars, TypeOK, TokensInv
<1> QED
  BY <1>1, <1>2, <1>3, <1>4 DEF Living

LEMMA NextProtocol ==
  ASSUME ProtocolInv, [Next]_vars
  PROVE  ProtocolInv'
<1>1. GatewayInv'
  BY GatewayStep, NextInv DEF ProtocolInv
<1>2. CASE Serving
  BY <1>1, <1>2, GatewayStep, TokensGrow, ServingKeepsTokens DEF ProtocolInv
<1>3. CASE Receiving
  BY <1>1, <1>3, ReceivingKeepsTokens DEF ProtocolInv
<1>4. CASE Executing
  BY <1>1, <1>4, ExecutingKeepsTokens DEF Executing, ProtocolInv
<1>5. CASE Living
  BY <1>1, <1>5, LivingKeepsTokens DEF ProtocolInv
<1>6. CASE UNCHANGED vars
  BY <1>1, <1>6 DEF vars, gatewayVars, networkVars, agentVars, ProtocolInv, TypeOK, TokensInv,
     GatewayTypeOK
<1> QED
  BY <1>2, <1>3, <1>4, <1>5, <1>6 DEF Next

(* The inductive invariant: the Gateway's own, types, and that no one holds *)
(* a token that was not issued.                                            *)
THEOREM ProtocolInvariant == Spec => []ProtocolInv
<1>1. Init => ProtocolInv
  BY InitProtocol
<1>2. ProtocolInv /\ [Next]_vars => ProtocolInv'
  BY NextProtocol
<1> QED
  BY <1>1, <1>2, PTL DEF Spec

(* Every variable of the protocol keeps its type, whatever goes wrong. *)
THEOREM ProtocolTypeCorrect == Spec => []TypeOK
BY ProtocolInvariant, PTL DEF ProtocolInv

(* The protocol implements GatewayJobs: with this agent, this network and   *)
(* these faults the Gateway behaves as it may with any agent at all.        *)
THEOREM ProtocolRefinesGateway == Spec => GatewaySpec
<1>1. Init => GatewayInit
  BY DEF Init
<1>2. ProtocolInv /\ [Next]_vars => [GatewayNext]_gatewayVars
  BY GatewayStep
<1> QED
  BY <1>1, <1>2, ProtocolInvariant, PTL DEF Spec, GatewaySpec

(* So what is proved of the Gateway alone holds of the whole: claims are    *)
(* bounded and exclusive, a job that reached the agent or ended is handed   *)
(* out again only by a poll that had chosen it before, or after its newest  *)
(* attempt handed it back, and reports of older attempts change nothing.    *)
THEOREM ProtocolKeepsGatewayPromises ==
  Spec => /\ []ClaimBudget /\ []OneLiveAttempt /\ []QueuedIsClean
          /\ EvidencedJobIsNotRedelivered /\ NewestAttemptReports
BY ProtocolRefinesGateway, ClaimsAreBounded, AttemptsAreExclusive, RequeuedRowsAreClean,
   NoRedelivery, StaleReportsAreFenced, PTL

-----------------------------------------------------------------------------
(* Success means paper *)

(* Whoever says "success" (a row, a handler, a report under way, the local  *)
(* ledger, a goroutine) says it of a document on paper.                     *)
SuccessInv ==
  /\ \A j \in Jobs : \/ row[j].status = "success"
                     \/ ledger[j].status = "success"
                     \/ phase[j] = "printed"
                     => paper[j] > 0
  /\ \A m \in reports : m.want = "success" => paper[m.job] > 0
  /\ \A h \in Handlers : patch[h] # Idle /\ patch[h].to = "success" => paper[patch[h].job] > 0

(* Paper is not taken back. *)
LEMMA PaperStays ==
  ASSUME ProtocolInv, [Next]_vars
  PROVE  /\ paper \in [Jobs -> Nat]
         /\ \A j \in Jobs : paper[j] > 0 => paper'[j] > 0
<1> USE DEF ProtocolInv, TypeOK
<1>1. CASE UNCHANGED paper
  BY <1>1
<1>2. ASSUME NEW j \in Jobs, NEW outcome \in AtPrinter, PrintDocument(j, outcome)
      PROVE  \A k \in Jobs : paper[k] > 0 => paper'[k] > 0
  <2>1. paper' = paper \/ paper' = [paper EXCEPT ![j] = @ + 1]
    BY <1>2 DEF PrintDocument
  <2> QED
    BY <2>1
<1>3. CASE Serving
  BY <1>1, <1>3 DEF Serving, PushToSocket, StartPoll, AnswerPoll, ReceiveAck, Heartbeat,
     ServerError, ServeRead, ServeWrite, GatewayAlone, GatewayDies, OnlyReply, agentVars
<1>4. CASE Receiving
  BY <1>1, <1>4 DEF Receiving, ReceiveFrame, ReceivePolled
<1>5. CASE Executing
  BY <1>1, <1>2, <1>5 DEF Executing, Process, ProcessExpired, ProcessLedgerFault,
     ProcessKnownSuccess, ProcessKnownUnknown, ProcessRefused, ProcessReady, ProcessBegin,
     BacklogCancelled, Hear, PrintingAccepted, PrintingRefused, PrintingUnanswered, Close,
     WindowPasses, RecordOutcome, OnlyTask, OnlyPhase
<1>6. CASE Living
  BY <1>1, <1>6 DEF Living, Shutdown, Die, Restart, CleanupTerminal
<1> QED
  BY <1>1, <1>3, <1>4, <1>5, <1>6 DEF Next, vars, agentVars

(* At the Gateway a row succeeds only by a handler's write. *)
LEMMA OnlyReportsSucceed ==
  ASSUME GatewayInv, [GatewayNext]_gatewayVars, NEW j \in Jobs,
         row'[j].status = "success", row[j].status # "success"
  PROVE  \E h \in Handlers : patch[h] # Idle /\ patch[h].job = j /\ patch[h].to = "success"
<1> USE DEF GatewayInv, TablesInv, GatewayTypeOK
<1>1. row[j] \in Row /\ row'[j] # row[j]
  OBVIOUS
<1>2. ASSUME NEW h \in Handlers, PatchWrite(h)
      PROVE  patch[h] # Idle /\ patch[h].job = j /\ patch[h].to = "success"
  <2>1. /\ patch[h] # Idle
        /\ row' = [row EXCEPT ![patch[h].job] =
             IF patch[h].to = "queued" THEN Handback(@, patch[h]) ELSE Reported(@, patch[h])]
    BY <1>1, <1>2 DEF PatchWrite
  <2>2. patch[h].job = j
    BY <1>1, <2>1
  <2>3. row'[j].status = IF patch[h].to = "queued" THEN "queued" ELSE patch[h].to
    BY <1>1, <2>1, <2>2 DEF Handback, Reported, Row
  <2> QED
    BY <2>1, <2>2, <2>3
<1>3. ~Delivering
  <2>1. ASSUME NEW p \in Pushers, NEW k \in Jobs, WsClaim(p, k)
        PROVE  FALSE
    BY <1>1, <2>1 DEF WsClaim, Row
  <2>2. ASSUME NEW p \in Pushers, MarkDelivered(p)
        PROVE  FALSE
    BY <1>1, <2>2 DEF MarkDelivered, Row
  <2>3. ASSUME NEW p \in Pushers, ReleaseUndelivered(p)
        PROVE  FALSE
    BY <1>1, <2>3 DEF ReleaseUndelivered, Row
  <2> QED
    BY <1>1, <2>1, <2>2, <2>3 DEF Delivering, PushSend, PushFails
<1>4. ASSUME NEW S \in SUBSET Jobs, PollClaim(S)
      PROVE  FALSE
  <2>1. row'[j] \in {PollClaimed(row[j], issued[j] + 1), row[j]}
    BY <1>4 DEF PollClaim
  <2> QED
    BY <1>1, <2>1 DEF PollClaimed, Row
<1>5. ASSUME NEW k \in Jobs, NEW t \in 1 .. issued[k], RecordAck(k, t) \/ KeepAlive(k, t)
      PROVE  FALSE
  <2>1. CASE RecordAck(k, t)
    BY <1>1, <2>1 DEF RecordAck, Row
  <2>2. CASE KeepAlive(k, t)
    BY <1>1, <2>2 DEF KeepAlive, Row
  <2> QED
    BY <1>5, <2>1, <2>2
<1>6. ~AnyReport
  BY <1>1 DEF AnyReport, PatchRead
<1>7. ~Sweep
  <2>1. ASSUME SweepExpire PROVE FALSE
    BY <1>1, <2>1 DEF SweepExpire, Row
  <2>2. ASSUME SweepRequeue PROVE FALSE
    BY <1>1, <2>2 DEF SweepRequeue, Row
  <2>3. ASSUME SweepSilent PROVE FALSE
    BY <1>1, <2>3 DEF SweepSilent, Row
  <2>4. ASSUME SweepPrinting PROVE FALSE
    BY <1>1, <2>4 DEF SweepPrinting, Row
  <2>5. ASSUME SweepExhausted PROVE FALSE
    BY <1>1, <2>5 DEF SweepExhausted, Row
  <2> QED
    BY <2>1, <2>2, <2>3, <2>4, <2>5 DEF Sweep
<1>8. ~Surroundings
  BY <1>1 DEF Surroundings, TimePasses, TtlPasses, AgentPresence, PrinterPresence,
     GatewayRestart, Row
<1> QED
  BY <1>1, <1>2, <1>3, <1>4, <1>5, <1>6, <1>7, <1>8 DEF GatewayNext, PollSnapshot, gatewayVars

(* What a handler remembers it read in a report under way. *)
LEMMA HandlersQuoteReports ==
  ASSUME ProtocolInv, Serving, NEW h \in Handlers, patch'[h] # Idle
  PROVE  \/ patch'[h] = patch[h]
         \/ \E m \in reports : patch'[h].job = m.job /\ patch'[h].to = m.want
<1> USE DEF ProtocolInv, GatewayInv, TablesInv, GatewayTypeOK
<1>1. ASSUME NEW g \in Handlers, NEW m \in reports, ServeRead(g, m), patch' # patch
      PROVE  \/ patch'[h] = patch[h]
             \/ patch'[h].job = m.job /\ patch'[h].to = m.want
  BY <1>1 DEF ServeRead, PatchRead, gatewayVars
<1>2. ASSUME NEW g \in Handlers, ServeWrite(g)
      PROVE  patch'[h] = patch[h]
  BY <1>2 DEF ServeWrite, PatchWrite
<1>3. CASE GatewayAlone
  BY <1>3 DEF GatewayAlone, WsClaim, PushFails, MarkDelivered, ReleaseUndelivered, Sweep,
     SweepExpire, SweepRequeue, SweepSilent, SweepPrinting, SweepExhausted, TimePasses,
     TtlPasses, AgentPresence, PrinterPresence
<1>4. CASE patch' = patch
  BY <1>4
<1>5. CASE GatewayDies
  BY <1>5 DEF GatewayDies, GatewayRestart
<1> QED
  BY <1>1, <1>2, <1>3, <1>4, <1>5 DEF Serving, PushToSocket, PushSend, StartPoll, PollSnapshot,
     AnswerPoll, PollClaim, ReceiveAck, RecordAck, gatewayVars, Heartbeat, KeepAlive, ServerError

LEMMA ServingSucceedsHonestly ==
  ASSUME ProtocolInv, SuccessInv, Serving
  PROVE  SuccessInv'
<1>1. /\ paper' = paper /\ phase' = phase /\ ledger' = ledger
      /\ reports' \subseteq reports
  BY DEF Serving, PushToSocket, StartPoll, AnswerPoll, ReceiveAck, Heartbeat,
     ServerError, ServeRead, ServeWrite, GatewayAlone, GatewayDies,
     OnlyReply, agentVars, networkVars
<1>2. \A j \in Jobs : row'[j].status = "success" => paper[j] > 0
  <2> SUFFICES ASSUME NEW j \in Jobs, row'[j].status = "success" PROVE paper[j] > 0
    OBVIOUS
  <2>1. CASE row[j].status = "success"
    BY <2>1 DEF SuccessInv
  <2>2. CASE row[j].status # "success"
    <3>1. GatewayInv /\ [GatewayNext]_gatewayVars
      BY GatewayStep DEF ProtocolInv, Next
    <3>2. \E h \in Handlers : patch[h] # Idle /\ patch[h].job = j /\ patch[h].to = "success"
      BY <2>2, <3>1, OnlyReportsSucceed
    <3> QED
      BY <3>2 DEF SuccessInv
  <2> QED
    BY <2>1, <2>2
<1>3. \A h \in Handlers : patch'[h] # Idle /\ patch'[h].to = "success" => paper[patch'[h].job] > 0
  BY HandlersQuoteReports DEF SuccessInv
<1> QED
  BY <1>1, <1>2, <1>3 DEF SuccessInv

LEMMA AgentSucceedsHonestly ==
  ASSUME ProtocolInv, SuccessInv, AgentMoves
  PROVE  SuccessInv'
<1> USE DEF ProtocolInv, TypeOK
<1>a. row' = row /\ patch' = patch
  BY AgentLeavesGateway DEF gatewayVars
<1>b. \A j \in Jobs : paper[j] > 0 => paper'[j] > 0
  BY PaperStays DEF Next, AgentMoves
(* It suffices to look at what is new. *)
<1>1. ASSUME \A j \in Jobs : ledger'[j].status = "success" => paper'[j] > 0,
             \A j \in Jobs : phase'[j] = "printed" => paper'[j] > 0,
             \A m \in reports' : m.want = "success" => m \in reports \/ paper'[m.job] > 0
      PROVE  SuccessInv'
  <2>1. \A m \in reports : m.job \in Jobs
    BY DEF Report
  <2>2. \A h \in Handlers : patch[h] # Idle => patch[h].job \in Jobs
    BY DEF GatewayTypeOK, FencedWrite
  <2> QED
    BY <1>1, <1>a, <1>b, <2>1, <2>2 DEF SuccessInv
<1>2. \A j \in Jobs : /\ ledger[j].status = "success" => paper'[j] > 0
                      /\ phase[j] = "printed" => paper'[j] > 0
  BY <1>b DEF SuccessInv
<1>3. CASE Receiving
  <2>1. PICK f \in frames \cup polled : Dispatch(f.job, f.token) /\ UNCHANGED <<ledger, paper>>
    BY <1>3 DEF Receiving, ReceiveFrame, ReceivePolled
  <2>2. \A k \in Jobs : phase'[k] = "printed" => phase[k] = "printed"
    BY <2>1 DEF Dispatch, taskVars
  <2>3. \E t : reports' \subseteq reports \cup {Send(f.job, "queued", t, "none")}
    BY <2>1 DEF Dispatch
  <2>4. \A m \in reports' : m.want = "success" => m \in reports
    BY <2>3 DEF Send
  <2> QED
    BY <1>1, <1>2, <2>1, <2>2, <2>4
<1>4. ASSUME NEW j \in Jobs, NEW want \in Statuses, NEW error \in AgentErrors,
             NEW next \in Phases \ {"printed"}, ReportAndWait(j, want, error, next),
             want = "success" => paper'[j] > 0,
             \A k \in Jobs : ledger'[k].status = "success" => paper'[k] > 0
      PROVE  SuccessInv'
  <2>1. \A m \in reports' : m.want = "success" => m \in reports \/ paper'[m.job] > 0
    BY <1>4 DEF ReportAndWait, Send
  <2>2. \A k \in Jobs : phase'[k] = "printed" => phase[k] = "printed"
    BY <1>4 DEF ReportAndWait
  <2> QED
    BY <1>1, <1>2, <1>4, <2>1, <2>2
<1>5. ASSUME NEW j \in Jobs,
             \/ Process(j) \/ BacklogCancelled(j) \/ RecordOutcome(j)
      PROVE  SuccessInv'
  <2>1. /\ {"closing", "asking", "returning", "waiting"} \subseteq Phases \ {"printed"}
        /\ {"queued", "success", "failed", "expired", "printing"} \subseteq Statuses
        /\ {"none", "plain", "AGENT_RESTART_DURING_PRINT", "UNKNOWN_PARTIAL_DELIVERY"}
             \subseteq AgentErrors
    BY DEF Phases, Statuses, AgentErrors
  <2>2. CASE ProcessExpired(j)
    BY <1>2, <1>4, <2>1, <2>2 DEF ProcessExpired
  <2>3. CASE ProcessLedgerFault(j)
    BY <1>2, <1>4, <2>1, <2>3 DEF ProcessLedgerFault
  <2>4. CASE ProcessKnownSuccess(j)
    BY <1>2, <1>4, <2>1, <2>4 DEF ProcessKnownSuccess
  <2>5. CASE ProcessKnownUnknown(j)
    BY <1>2, <1>4, <2>1, <2>5 DEF ProcessKnownUnknown
  <2>6. CASE ProcessRefused(j)
    BY <1>2, <1>4, <2>1, <2>6 DEF ProcessRefused
  <2>7. CASE ProcessReady(j)
    BY <1>1, <1>2, <2>7 DEF ProcessReady
  <2>8. CASE ProcessBegin(j)
    <3>1. \A k \in Jobs : ledger'[k].status = "success" => ledger[k].status = "success"
      BY <2>8 DEF ProcessBegin, LedgerRow
    <3> QED
      BY <1>2, <1>4, <2>1, <2>8, <3>1 DEF ProcessBegin
  <2>9. CASE BacklogCancelled(j)
    BY <1>2, <1>4, <2>1, <2>9 DEF BacklogCancelled
  <2>10. CASE RecordOutcome(j)
    <3>1. ASSUME NEW k \in Jobs, ledger'[k].status = "success"
          PROVE  ledger[k].status = "success" \/ phase[k] = "printed"
      <4>1. CASE UNCHANGED ledger \/ k # j
        BY <2>10, <3>1, <4>1 DEF RecordOutcome
      <4>2. CASE ledger' # ledger /\ k = j
        <5>1. ledger[j] \in LedgerRow
          OBVIOUS
        <5>2. ledger'[j].status = IF phase[j] = "printed" THEN "success" ELSE "failed"
          BY <2>10, <4>2, <5>1 DEF RecordOutcome, LedgerRow
        <5> QED
          BY <3>1, <4>2, <5>2
      <4> QED
        BY <4>1, <4>2
    <3>2. \A k \in Jobs : ledger'[k].status = "success" => paper'[k] > 0
      BY <1>2, <3>1
    <3> QED
      BY <1>2, <1>4, <2>1, <2>10, <3>2 DEF RecordOutcome
  <2> QED
    BY <1>5, <2>2, <2>3, <2>4, <2>5, <2>6, <2>7, <2>8, <2>9, <2>10 DEF Process
<1>6. ASSUME NEW j \in Jobs, Hear(j) \/ WindowPasses(j)
      PROVE  SuccessInv'
  <2>1. reports' = reports
    BY <1>6 DEF Hear, PrintingAccepted, PrintingRefused, PrintingUnanswered, Close,
       WindowPasses, OnlyPhase, networkVars
  <2>2. \A k \in Jobs : phase'[k] = "printed" => phase[k] = "printed"
    BY <1>6 DEF Hear, PrintingAccepted, PrintingRefused, PrintingUnanswered, Close,
       WindowPasses, Proceed, Abort, Forget
  <2>3. \A k \in Jobs : ledger'[k].status = "success" => ledger[k].status = "success"
    BY <1>6 DEF Hear, PrintingAccepted, PrintingRefused, PrintingUnanswered, Close,
       WindowPasses, Proceed, Abort, LedgerRow
  <2> QED
    BY <1>1, <1>2, <2>1, <2>2, <2>3
<1>7. ASSUME NEW j \in Jobs, NEW outcome \in AtPrinter, PrintDocument(j, outcome)
      PROVE  SuccessInv'
  <2>1. \A k \in Jobs : phase'[k] = "printed" => paper'[k] > 0
    BY <1>2, <1>7 DEF PrintDocument
  <2> QED
    BY <1>1, <1>2, <1>7, <2>1 DEF PrintDocument, networkVars
<1>8. CASE Living
  <2>1. \A k \in Jobs : phase'[k] = "printed" => phase[k] = "printed"
    BY <1>8 DEF Living, Shutdown, Die, Restart, CleanupTerminal, taskVars
  <2>2. \A m \in reports' : m.want = "success" => m \in reports
    <3>1. CASE Restart
      <4>1. PICK found : reports' \subseteq reports \cup
              {Send(k, "failed", ledger[k].token, "AGENT_RESTART_DURING_PRINT") : k \in found}
        BY <3>1 DEF Restart
      <4> QED
        BY <4>1 DEF Send
    <3>2. CASE ~Restart
      BY <1>8, <3>2 DEF Living, Shutdown, Die, CleanupTerminal, networkVars
    <3> QED
      BY <3>1, <3>2
  <2>3. ASSUME NEW k \in Jobs, ledger'[k].status = "success"
        PROVE  ledger[k].status = "success"
    <3>1. CASE Restart
      <4>1. PICK marked : ledger' = [i \in Jobs |-> IF i \in marked
              THEN [ledger[i] EXCEPT !.status = "failed", !.error = "AGENT_RESTART_DURING_PRINT"]
              ELSE ledger[i]]
        BY <3>1 DEF Restart
      <4> QED
        BY <2>3, <4>1 DEF LedgerRow
    <3>2. CASE CleanupTerminal
      BY <2>3, <3>2 DEF CleanupTerminal, NoLedgerRow
    <3>3. CASE Shutdown \/ Die
      BY <2>3, <3>3 DEF Shutdown, Die
    <3> QED
      BY <1>8, <3>1, <3>2, <3>3 DEF Living
  <2> QED
    BY <1>1, <1>2, <2>1, <2>2, <2>3
<1> QED
  BY <1>3, <1>5, <1>6, <1>7, <1>8 DEF AgentMoves, Executing

LEMMA SuccessInvariant == Spec => []SuccessInv
<1>1. Init => SuccessInv
  BY DEF Init, GatewayInit, NewRow, NoLedgerRow, SuccessInv
<1>2. ProtocolInv /\ SuccessInv /\ [Next]_vars => SuccessInv'
  <2> SUFFICES ASSUME ProtocolInv, SuccessInv, [Next]_vars PROVE SuccessInv'
    OBVIOUS
  <2>1. CASE UNCHANGED vars
    BY <2>1 DEF vars, gatewayVars, networkVars, agentVars, SuccessInv
  <2> QED
    BY <2>1, ServingSucceedsHonestly, AgentSucceedsHonestly DEF Next, AgentMoves
<1> QED
  BY <1>1, <1>2, ProtocolInvariant, PTL DEF Spec

(* "Success" is said only of a document on paper, with every fault at once: *)
(* lost calls, crashes of both sides, a failing or cleaned ledger.          *)
THEOREM SuccessIsPaper == Spec => []SuccessMeansPaper
<1>1. SuccessInv => SuccessMeansPaper
  BY DEF SuccessInv, SuccessMeansPaper
<1> QED
  BY <1>1, SuccessInvariant, PTL

-----------------------------------------------------------------------------
(* One document on paper *)

SafeLedger == ReprintAfterCrash = FALSE /\ "ledger" \notin Faults /\ "cleanup" \notin Faults

(* A job's ledger row is printing from BeginPrint until the outcome is      *)
(* written, across the end of the process; only a row that is neither       *)
(* printing nor settled as printed or unknown belongs to a blank document.  *)
PaperInv ==
  \A j \in Jobs :
    /\ life = "down" => phase[j] = "idle"
    /\ phase[j] # "idle" => held[j] # 0
    /\ phase[j] \in {"asking", "cleared"} \cup AtPrinter => ledger[j].status = "printing"
    /\ ledger[j].status = "printing" =>
         life = "down" \/ phase[j] \in {"asking", "cleared"} \cup AtPrinter
    /\ phase[j] \in {"asking", "cleared", "broken"} => paper[j] = 0
    /\ paper[j] <= 1
    /\ paper[j] > 0 =>
         ledger[j].status \in {"success", "printing"} \/ OutcomeUnknown(ledger[j])

(* What holds of one job's row, whatever happens to the others.             *)
LEMMA RecordedOutcome ==
  ASSUME ProtocolInv, SafeLedger, NEW j \in Jobs, RecordOutcome(j)
  PROVE  /\ ledger'[j].status = IF phase[j] = "printed" THEN "success" ELSE "failed"
         /\ phase[j] = "ambiguous" => ledger'[j].error = "UNKNOWN_PARTIAL_DELIVERY"
         /\ \A k \in Jobs : k # j => ledger'[k] = ledger[k]
         /\ paper' = paper /\ life' = life
         /\ phase' = [phase EXCEPT ![j] = "closing"]
<1>1. ledger[j] \in LedgerRow
  BY DEF ProtocolInv, TypeOK
<1>2. /\ paper' = paper /\ life' = life
      /\ phase' = [phase EXCEPT ![j] = "closing"]
  BY DEF RecordOutcome, OnlyTask, ReportAndWait
<1>3. CASE phase[j] = "printed"
  BY <1>1, <1>2, <1>3 DEF RecordOutcome, SafeLedger, LedgerRow, ProtocolInv, TypeOK
<1>4. CASE phase[j] = "ambiguous"
  BY <1>1, <1>2, <1>4 DEF RecordOutcome, SafeLedger, LedgerRow, ProtocolInv, TypeOK
<1>5. CASE phase[j] = "broken"
  BY <1>1, <1>2, <1>5 DEF RecordOutcome, SafeLedger, LedgerRow, ProtocolInv, TypeOK
<1> QED
  BY <1>3, <1>4, <1>5 DEF RecordOutcome, AtPrinter

LEMMA PaperStep ==
  ASSUME SafeLedger, ProtocolInv, PaperInv, [Next]_vars
  PROVE  PaperInv'
<1> USE DEF ProtocolInv, TypeOK
<1>1. CASE UNCHANGED <<life, phase, held, ledger, paper>>
  BY <1>1 DEF PaperInv, OutcomeUnknown
<1>2. CASE Serving \/ UNCHANGED vars
  BY <1>1, <1>2 DEF vars, Serving, PushToSocket, StartPoll, AnswerPoll, ReceiveAck, Heartbeat,
     ServerError, ServeRead, ServeWrite, GatewayAlone, GatewayDies, OnlyReply, agentVars
(* A goroutine moves outside the stretch from BeginPrint to the outcome. *)
<1>3. ASSUME NEW j \in Jobs, NEW next \in Phases, phase' = [phase EXCEPT ![j] = next],
             held' \in [Jobs -> Nat],
             \A k \in Jobs : k # j => held'[k] = held[k],
             next = "idle" \/ held'[j] # 0,
             UNCHANGED <<life, ledger, paper>>, life # "down" \/ next = "idle",
             phase[j] \notin {"asking", "cleared"} \cup AtPrinter,
             next \notin {"asking", "cleared"} \cup AtPrinter
      PROVE  PaperInv'
  BY <1>3 DEF PaperInv, OutcomeUnknown, AtPrinter
<1>4. CASE Receiving
  <2>1. PICK f \in frames \cup polled :
          Dispatch(f.job, f.token) /\ UNCHANGED <<life, ledger, paper>>
    BY <1>4 DEF Receiving, ReceiveFrame, ReceivePolled
  <2>2. f.job \in Jobs /\ f.token \in Nat /\ f.token # 0
    <3>1. f.token \in 1 .. issued[f.job] /\ issued[f.job] \in Nat /\ f.job \in Jobs
      BY DEF Envelope, TokensInv, GatewayTypeOK
    <3> QED
      BY <3>1
  <2>3. CASE UNCHANGED taskVars
    BY <1>1, <2>1, <2>3 DEF taskVars
  <2>4. CASE UNCHANGED phase /\ held' = [held EXCEPT ![f.job] = f.token]
    BY <2>1, <2>2, <2>4 DEF PaperInv, OutcomeUnknown
  <2>5. CASE /\ life = "up" /\ held[f.job] = 0
             /\ held' = [held EXCEPT ![f.job] = f.token]
             /\ phase' = [phase EXCEPT ![f.job] = "backlog"]
    <3>1. phase[f.job] = "idle"
      BY <2>2, <2>5 DEF PaperInv
    <3>2. "backlog" \in Phases \ ({"asking", "cleared"} \cup AtPrinter)
      BY DEF Phases, AtPrinter
    <3>3. "idle" \notin {"asking", "cleared"} \cup AtPrinter
      BY DEF AtPrinter
    <3> QED
      BY <1>3, <2>1, <2>2, <2>5, <3>1, <3>2, <3>3
  <2> QED
    BY <2>1, <2>3, <2>4, <2>5 DEF Dispatch
<1>5. ASSUME NEW j \in Jobs,
             (Process(j) /\ ~ProcessBegin(j)) \/ BacklogCancelled(j)
      PROVE  PaperInv'
  <2>1. /\ phase[j] \in {"backlog", "waiting"}
        /\ UNCHANGED <<life, held, ledger, paper>>
    BY <1>5 DEF Process, ProcessExpired, ProcessLedgerFault, ProcessKnownSuccess,
       ProcessKnownUnknown, ProcessRefused, ProcessReady, BacklogCancelled, Processing, OnlyTask
  <2>2. PICK next \in {"closing", "returning", "waiting"} : phase' = [phase EXCEPT ![j] = next]
    BY <1>5 DEF Process, ProcessExpired, ProcessLedgerFault, ProcessKnownSuccess,
       ProcessKnownUnknown, ProcessRefused, ProcessReady, BacklogCancelled, ReportAndWait
  <2>3. next \in Phases
    BY <2>2 DEF Phases
  <2>4. life # "down" /\ held[j] # 0
    BY <2>1 DEF PaperInv
  <2> QED
    BY <1>3, <2>1, <2>2, <2>3, <2>4 DEF AtPrinter
(* BeginPrint accepts only a row that says the document is blank. *)
<1>6. ASSUME NEW j \in Jobs, ProcessBegin(j)
      PROVE  PaperInv'
  <2>1. paper[j] = 0 /\ life # "down" /\ held[j] # 0
    BY <1>6 DEF ProcessBegin, MayPrint, SafeLedger, PaperInv, AtPrinter
  <2>2. ledger'[j].status = "printing" /\ \A k \in Jobs : k # j => ledger'[k] = ledger[k]
    BY <1>6 DEF ProcessBegin, LedgerRow
  <2>3. phase' = [phase EXCEPT ![j] = "asking"] /\ UNCHANGED <<life, held, paper>>
    BY <1>6 DEF ProcessBegin, ReportAndWait, OnlyTask
  <2> QED
    BY <2>1, <2>2, <2>3 DEF PaperInv, OutcomeUnknown, AtPrinter
<1>7. ASSUME NEW j \in Jobs, phase[j] = "asking", Proceed(j), OnlyPhase
      PROVE  PaperInv'
  BY <1>7 DEF Proceed, OnlyPhase, PaperInv, OutcomeUnknown, AtPrinter
<1>8. ASSUME NEW j \in Jobs, phase[j] = "asking", Abort(j), OnlyPhase
      PROVE  PaperInv'
  <2>1. ledger'[j].status = "queued" /\ \A k \in Jobs : k # j => ledger'[k] = ledger[k]
    BY <1>8 DEF Abort, SafeLedger, LedgerRow
  <2>2. /\ phase' = [phase EXCEPT ![j] = "idle"] /\ held' = [held EXCEPT ![j] = 0]
        /\ UNCHANGED <<life, paper>>
    BY <1>8 DEF Abort, Forget, OnlyPhase
  <2> QED
    BY <1>8, <2>1, <2>2 DEF PaperInv, OutcomeUnknown, AtPrinter
<1>9. ASSUME NEW j \in Jobs, Hear(j) \/ WindowPasses(j)
      PROVE  PaperInv'
  <2>1. CASE Close(j)
    <3>1. "idle" \in Phases
      BY DEF Phases
    <3> QED
      BY <1>3, <2>1, <3>1 DEF Close, Forget, OnlyPhase, AtPrinter
  <2>2. CASE PrintingAccepted(j) \/ PrintingRefused(j) \/ PrintingUnanswered(j)
    BY <1>7, <1>8, <2>2 DEF PrintingAccepted, PrintingRefused, PrintingUnanswered
  <2>3. CASE WindowPasses(j)
    BY <1>1, <2>3 DEF WindowPasses, OnlyPhase
  <2> QED
    BY <1>9, <2>1, <2>2, <2>3 DEF Hear
<1>10. ASSUME NEW j \in Jobs, NEW outcome \in AtPrinter, PrintDocument(j, outcome)
       PROVE  PaperInv'
  <2>1. /\ phase[j] = "cleared" /\ phase' = [phase EXCEPT ![j] = outcome]
        /\ UNCHANGED <<life, held, ledger>>
        /\ \A k \in Jobs : k # j => paper'[k] = paper[k]
    BY <1>10 DEF PrintDocument
  <2>2. paper[j] = 0 /\ ledger[j].status = "printing" /\ life # "down" /\ held[j] # 0
    BY <2>1 DEF PaperInv
  <2>3. paper'[j] \in {0, 1} /\ (outcome = "broken" => paper'[j] = 0)
    BY <1>10, <2>2 DEF PrintDocument
  <2> QED
    BY <2>1, <2>2, <2>3 DEF PaperInv, OutcomeUnknown, AtPrinter
<1>11. ASSUME NEW j \in Jobs, RecordOutcome(j)
       PROVE  PaperInv'
  <2>1. phase[j] \in AtPrinter /\ UNCHANGED held
    BY <1>11 DEF RecordOutcome, OnlyTask
  <2>2. /\ ledger'[j].status = IF phase[j] = "printed" THEN "success" ELSE "failed"
        /\ phase[j] = "ambiguous" => ledger'[j].error = "UNKNOWN_PARTIAL_DELIVERY"
        /\ \A k \in Jobs : k # j => ledger'[k] = ledger[k]
        /\ paper' = paper /\ life' = life
        /\ phase' = [phase EXCEPT ![j] = "closing"]
    BY <1>11, RecordedOutcome
  <2> QED
    BY <2>1, <2>2 DEF PaperInv, OutcomeUnknown, AtPrinter, UnknownMarkers
<1>12. CASE Shutdown
  BY <1>12 DEF Shutdown, taskVars, PaperInv, OutcomeUnknown
<1>13. CASE Die
  BY <1>13 DEF Die, PaperInv, OutcomeUnknown, AtPrinter
(* After a restart no row is printing: recovery calls each one unknown. *)
<1>14. CASE Restart
  <2>1. ledger' = [j \in Jobs |-> IF ledger[j].status = "printing"
           THEN [ledger[j] EXCEPT !.status = "failed", !.error = "AGENT_RESTART_DURING_PRINT"]
           ELSE ledger[j]]
    BY <1>14 DEF Restart, SafeLedger
  <2>2. \A j \in Jobs : IF ledger[j].status = "printing"
          THEN ledger'[j].status = "failed" /\ ledger'[j].error = "AGENT_RESTART_DURING_PRINT"
          ELSE ledger'[j] = ledger[j]
    BY <2>1 DEF LedgerRow
  <2>3. life = "down" /\ UNCHANGED <<held, phase, paper>>
    BY <1>14 DEF Restart, taskVars
  <2> QED
    BY <2>2, <2>3 DEF PaperInv, OutcomeUnknown, AtPrinter, UnknownMarkers
<1>15. ~CleanupTerminal
  BY DEF CleanupTerminal, SafeLedger
<1> QED
  BY <1>2, <1>4, <1>5, <1>6, <1>9, <1>10, <1>11, <1>12, <1>13, <1>14, <1>15
     DEF Next, Executing, Living, Process

(* The invariant of the run protocol_faults, for every mix of lost calls,   *)
(* crashes of the agent, deaths of the Gateway and changes of presence.     *)
LEMMA PaperInvariant == SafeLedger => (Spec => []PaperInv)
<1> SUFFICES ASSUME SafeLedger PROVE Spec => []PaperInv
  OBVIOUS
<1>1. Init => PaperInv
  BY DEF Init, PaperInv, NoLedgerRow, AtPrinter
<1>2. ProtocolInv /\ PaperInv /\ [Next]_vars => PaperInv'
  BY PaperStep
<1> QED
  BY <1>1, <1>2, ProtocolInvariant, PTL DEF Spec

(* A document is put on paper once at most, as long as the operator did not *)
(* allow reprints and the ledger works and is not cleaned.                  *)
THEOREM PrintedOnce ==
  ASSUME ReprintAfterCrash = FALSE, Faults \cap {"ledger", "cleanup"} = {}
  PROVE  Spec => []AtMostOnePaper
<1>1. SafeLedger
  BY DEF SafeLedger
<1>2. PaperInv => AtMostOnePaper
  BY DEF PaperInv, AtMostOnePaper
<1>3. Spec => []PaperInv
  BY <1>1, PaperInvariant
<1> QED
  BY <1>2, <1>3, PTL

(* And whatever is on paper the ledger knows of, at any moment a crash may  *)
(* come: it says success, unknown, or printing while the outcome is open.   *)
THEOREM LedgerIsEvidence ==
  ASSUME ReprintAfterCrash = FALSE, Faults \cap {"ledger", "cleanup"} = {}
  PROVE  Spec => []LedgerKnowsPaper
<1>1. SafeLedger
  BY DEF SafeLedger
<1>2. ProtocolInv /\ PaperInv => LedgerKnowsPaper
  BY DEF PaperInv, LedgerKnowsPaper, AtPrinter, ProtocolInv, TypeOK
<1>3. Spec => []PaperInv
  BY <1>1, PaperInvariant
<1> QED
  BY <1>2, <1>3, ProtocolInvariant, PTL

-----------------------------------------------------------------------------
(* One document per claim.  A claim's token is on its way to the agent, or  *)
(* at work in a goroutine that may still print, or spent; the documents of  *)
(* a job are paid for by spent tokens, whatever faults there are.           *)

Handing(p) == push[p] # Idle /\ push[p].step = "claimed"

Handed(p) == [job |-> push[p].job, token |-> push[p].token]

Carried == frames \cup polled \cup {Handed(p) : p \in {q \in Pushers : Handing(q)}}

(* Nothing is carried twice. *)
CarriedOnce ==
  /\ frames \cap polled = {}
  /\ \A p \in Pushers : Handing(p) =>
       /\ Handed(p) \notin frames \cup polled
       /\ \A q \in Pushers : Handing(q) /\ Handed(q) = Handed(p) => q = p

UnderWay(j) == {t \in 1 .. issued[j] : [job |-> j, token |-> t] \in Carried}

AtWork(j) == IF phase[j] \in {"backlog", "waiting", "asking", "cleared"} THEN 1 ELSE 0

Paid(j) == paper[j] + AtWork(j) + Cardinality(UnderWay(j)) <= issued[j]

ClaimsInv == CarriedOnce /\ \A j \in Jobs : Paid(j)

(* A claim is the only source of tokens, and makes the next one of its job. *)
LEMMA ClaimsGiveNewTokens ==
  ASSUME ProtocolInv, Serving
  PROVE  /\ \A j \in Jobs : issued'[j] \in {issued[j], issued[j] + 1}
         /\ \A f \in Carried' : \/ f \in Carried
                                \/ /\ f.job \in Jobs /\ f.token = issued'[f.job]
                                   /\ issued'[f.job] = issued[f.job] + 1
         /\ CarriedOnce => CarriedOnce'
<1> USE DEF ProtocolInv, GatewayInv, TablesInv, GatewayTypeOK, Carried, Handing, Handed
<1> DEFINE Goal == /\ \A j \in Jobs : issued'[j] \in {issued[j], issued[j] + 1}
                   /\ \A f \in Carried' : \/ f \in Carried
                                          \/ /\ f.job \in Jobs /\ f.token = issued'[f.job]
                                             /\ issued'[f.job] = issued[f.job] + 1
                   /\ CarriedOnce => CarriedOnce'
<1>1. CASE /\ UNCHANGED issued
           /\ frames' \subseteq frames /\ polled' \subseteq polled
           /\ \A p \in Pushers : Handing(p)' => Handing(p) /\ push'[p] = push[p]
  <2>1. \A p \in Pushers : Handing(p)' => Handing(p) /\ Handed(p)' = Handed(p)
    BY <1>1
  <2> HIDE DEF Handing, Handed
  <2>2. CarriedOnce => CarriedOnce'
    BY <1>1, <2>1 DEF CarriedOnce
  <2>3. Carried' \subseteq Carried
    BY <1>1, <2>1
  <2> QED
    BY <1>1, <2>2, <2>3
<1>2. ASSUME NEW p \in Pushers, PushToSocket(p)
      PROVE  Goal
  <2>1. /\ Handing(p) /\ push[p] \in Delivery /\ UNCHANGED <<issued, polled>>
        /\ push' = [push EXCEPT ![p].step = "sent"]
        /\ frames' = frames \/ frames' = frames \cup {Handed(p)}
    BY <1>2 DEF PushToSocket, PushSend
  <2>2. \A q \in Pushers : Handing(q)' => Handing(q) /\ q # p /\ push'[q] = push[q]
    BY <2>1 DEF Delivery
  <2>3. CarriedOnce => CarriedOnce'
    BY <2>1, <2>2 DEF CarriedOnce
  <2> QED
    BY <2>1, <2>2, <2>3
(* A new token is nowhere yet. *)
<1>3. \A j \in Jobs : /\ issued[j] \in Nat
                     /\ [job |-> j, token |-> issued[j] + 1] \notin Carried
  <2>1. \A j \in Jobs : issued[j] \in Nat
    OBVIOUS
  <2>2. \A f \in frames \cup polled : f.job \in Jobs /\ f.token \in 1 .. issued[f.job]
    BY DEF TokensInv, TypeOK, Envelope
  <2>3. \A p \in Pushers : Handing(p) =>
          Handed(p).job \in Jobs /\ Handed(p).token \in 1 .. issued[Handed(p).job]
    BY DEF PushInv, Delivery
  <2>4. \A f \in Carried : f.job \in Jobs /\ f.token \in 1 .. issued[f.job]
    BY <2>2, <2>3
  <2> HIDE DEF Carried
  <2>5. ASSUME NEW j \in Jobs, [job |-> j, token |-> issued[j] + 1] \in Carried
        PROVE  FALSE
    <3>1. issued[j] + 1 \in 1 .. issued[j]
      BY <2>4, <2>5
    <3> QED
      BY <2>1, <3>1
  <2> QED
    BY <2>1, <2>5
<1>4. ASSUME NEW p \in Pushers, NEW k \in Jobs, WsClaim(p, k), UNCHANGED <<frames, polled>>
      PROVE  Goal
  <2>1. /\ push[p] = Idle /\ issued' = [issued EXCEPT ![k] = @ + 1]
        /\ push' = [push EXCEPT ![p] = [job |-> k, token |-> issued[k] + 1,
                                       step |-> "claimed"]]
    BY <1>4 DEF WsClaim
  <2>2. \A q \in Pushers : q # p => push'[q] = push[q]
    BY <2>1
  <2>3. /\ push'[p] = [job |-> k, token |-> issued[k] + 1, step |-> "claimed"]
        /\ Handed(p)' = [job |-> k, token |-> issued[k] + 1]
        /\ issued'[k] = issued[k] + 1
    BY <1>3, <2>1
  <2>4. /\ \A q \in Pushers : q # p => /\ Handing(q)' <=> Handing(q)
                                       /\ Handed(q)' = Handed(q)
                                       /\ Handing(q) => Handed(q) # Handed(p)'
        /\ Handed(p)' \notin frames' \cup polled'
    BY <1>3, <1>4, <2>2, <2>3
  <2>5. CarriedOnce => CarriedOnce'
    <3> HIDE DEF Handing, Handed
    <3> QED
      BY <1>4, <2>4 DEF CarriedOnce
  <2> QED
    BY <1>3, <1>4, <2>1, <2>2, <2>3, <2>5
<1>5. ASSUME NEW S \in SUBSET Jobs, AnswerPoll(S)
      PROVE  Goal
  <2>1. /\ issued' = [j \in Jobs |-> IF j \in S THEN issued[j] + 1 ELSE issued[j]]
        /\ UNCHANGED <<frames, push>>
        /\ \/ polled' = polled \cup {[job |-> j, token |-> issued'[j]] : j \in S}
           \/ polled' = polled
    BY <1>5 DEF AnswerPoll, PollClaim
  <2>2. \A f \in polled' : f \in polled \/ (f \notin Carried /\ f.job \in Jobs
                             /\ f.token = issued'[f.job] /\ issued'[f.job] = issued[f.job] + 1)
    BY <1>3, <2>1
  <2>3. CarriedOnce => CarriedOnce'
    BY <2>1, <2>2 DEF CarriedOnce
  <2> QED
    BY <2>1, <2>2, <2>3
<1>6. ASSUME NEW p \in Pushers, UNCHANGED <<frames, polled>>,
             PushFails(p) \/ MarkDelivered(p) \/ ReleaseUndelivered(p)
      PROVE  Goal
  <2>1. push[p] \in Delivery /\ UNCHANGED issued
    BY <1>6 DEF PushFails, MarkDelivered, ReleaseUndelivered
  <2>2. \A q \in Pushers : q # p => push'[q] = push[q]
    BY <1>6 DEF PushFails, MarkDelivered, ReleaseUndelivered
  <2>3. push'[p] = Idle \/ push'[p].step # "claimed" \/ push'[p] = push[p]
    BY <1>6, <2>1 DEF PushFails, MarkDelivered, ReleaseUndelivered, Delivery
  <2> QED
    BY <1>1, <1>6, <2>1, <2>2, <2>3
<1>7. CASE UNCHANGED <<issued, push, frames, polled>>
  BY <1>1, <1>7
<1>8. CASE GatewayDies
  BY <1>1, <1>8 DEF GatewayDies, GatewayRestart
<1>9. CASE GatewayAlone
  BY <1>4, <1>6, <1>7, <1>9 DEF GatewayAlone, networkVars, Sweep, SweepExpire, SweepRequeue,
     SweepSilent, SweepPrinting, SweepExhausted, TimePasses, TtlPasses, AgentPresence,
     PrinterPresence
<1> QED
  BY <1>2, <1>5, <1>7, <1>8, <1>9 DEF Serving, StartPoll, PollSnapshot, ReceiveAck, RecordAck,
     Heartbeat, KeepAlive, ServerError,
     ServeRead, PatchRead, ServeWrite, PatchWrite, OnlyReply, gatewayVars, networkVars

LEMMA UnderWayIsFinite ==
  ASSUME ProtocolInv, NEW j \in Jobs
  PROVE  /\ IsFiniteSet(UnderWay(j)) /\ Cardinality(UnderWay(j)) \in Nat
         /\ issued[j] \in Nat /\ paper[j] \in Nat /\ AtWork(j) \in {0, 1}
<1>1. issued[j] \in Nat /\ paper[j] \in Nat /\ AtWork(j) \in {0, 1}
  BY DEF ProtocolInv, TypeOK, GatewayTypeOK, AtWork
<1>2. IsFiniteSet(1 .. issued[j])
  BY <1>1, FS_Interval
<1> QED
  BY <1>1, <1>2, FS_Subset, FS_CardinalityType DEF UnderWay

LEMMA UnderWayStaysFinite ==
  ASSUME ProtocolInv', NEW j \in Jobs
  PROVE  /\ IsFiniteSet(UnderWay(j)') /\ Cardinality(UnderWay(j)') \in Nat
         /\ issued'[j] \in Nat /\ paper'[j] \in Nat /\ AtWork(j)' \in {0, 1}
<1>1. issued'[j] \in Nat /\ paper'[j] \in Nat /\ AtWork(j)' \in {0, 1}
  BY DEF ProtocolInv, TypeOK, GatewayTypeOK, AtWork
<1>2. IsFiniteSet(1 .. issued'[j])
  BY <1>1, FS_Interval
<1> QED
  BY <1>1, <1>2, FS_Subset, FS_CardinalityType DEF UnderWay

(* A claim pays for itself: its token is under way, and issued counts it.   *)
LEMMA ServingPays ==
  ASSUME ProtocolInv, ProtocolInv', ClaimsInv, Serving
  PROVE  ClaimsInv'
<1>1. CarriedOnce'
  BY ClaimsGiveNewTokens DEF ClaimsInv
<1>2. ASSUME NEW j \in Jobs
      PROVE  Paid(j)'
  <2>1. paper' = paper /\ phase' = phase
    BY DEF Serving, PushToSocket, StartPoll, AnswerPoll, ReceiveAck, Heartbeat,
       ServerError, ServeRead, ServeWrite, GatewayAlone, GatewayDies,
     OnlyReply, agentVars, networkVars
  <2>2. IsFiniteSet(UnderWay(j)) /\ issued[j] \in Nat /\ issued'[j] \in {issued[j], issued[j] + 1}
    BY UnderWayIsFinite, ClaimsGiveNewTokens
  <2>3. UnderWay(j)' \subseteq UnderWay(j) \cup
          (IF issued'[j] = issued[j] THEN {} ELSE {issued[j] + 1})
    <3> SUFFICES ASSUME NEW t \in UnderWay(j)', t \notin UnderWay(j)
                 PROVE  issued'[j] = issued[j] + 1 /\ t = issued[j] + 1
      BY <2>2
    <3>1. [job |-> j, token |-> t] \in Carried' /\ t \in 1 .. issued'[j]
      BY DEF UnderWay
    <3>2. CASE [job |-> j, token |-> t] \in Carried
      BY <2>2, <3>1, <3>2 DEF UnderWay
    <3>3. CASE [job |-> j, token |-> t] \notin Carried
      BY <3>1, <3>3, ClaimsGiveNewTokens
    <3> QED
      BY <3>2, <3>3
  <2>4. CASE issued'[j] = issued[j]
    <3>1. Cardinality(UnderWay(j)') <= Cardinality(UnderWay(j))
      BY <2>2, <2>3, <2>4, FS_Subset
    <3> QED
      BY <2>1, <2>4, <3>1, UnderWayIsFinite, UnderWayStaysFinite DEF Paid, AtWork, ClaimsInv
  <2>5. CASE issued'[j] = issued[j] + 1
    <3>1. issued[j] + 1 \notin UnderWay(j)
      BY <2>2 DEF UnderWay
    <3>2. /\ IsFiniteSet(UnderWay(j) \cup {issued[j] + 1})
          /\ Cardinality(UnderWay(j) \cup {issued[j] + 1}) = Cardinality(UnderWay(j)) + 1
      BY <2>2, <3>1, FS_AddElement
    <3>3. Cardinality(UnderWay(j)') <= Cardinality(UnderWay(j) \cup {issued[j] + 1})
      BY <2>2, <2>3, <2>5, <3>2, FS_Subset
    <3> QED
      BY <2>1, <2>5, <3>2, <3>3, UnderWayIsFinite, UnderWayStaysFinite DEF Paid, AtWork, ClaimsInv
  <2> QED
    BY <2>2, <2>4, <2>5
<1> QED
  BY <1>1, <1>2 DEF ClaimsInv

(* An agent that receives nothing carries no more, and pays for paper with  *)
(* the goroutine's turn.                                                    *)
LEMMA WorkPays ==
  ASSUME ProtocolInv, ProtocolInv', ClaimsInv, UNCHANGED <<issued, push>>,
         frames' \subseteq frames, polled' \subseteq polled,
         \A j \in Jobs : paper'[j] + AtWork(j)' <= paper[j] + AtWork(j)
  PROVE  ClaimsInv'
<1>1. CarriedOnce'
  BY DEF ClaimsInv, CarriedOnce, Handing, Handed
<1>2. ASSUME NEW j \in Jobs
      PROVE  Paid(j)'
  <2>1. UnderWay(j)' \subseteq UnderWay(j)
    BY DEF UnderWay, Carried, Handing, Handed
  <2>2. Cardinality(UnderWay(j)') <= Cardinality(UnderWay(j))
    BY <2>1, UnderWayIsFinite, FS_Subset
  <2> QED
    BY <2>2, UnderWayIsFinite, UnderWayStaysFinite DEF Paid, ClaimsInv
<1> QED
  BY <1>1, <1>2 DEF ClaimsInv

(* A delivery received is no longer under way; it may start a goroutine.    *)
LEMMA ReceivingPays ==
  ASSUME ProtocolInv, ProtocolInv', ClaimsInv, Receiving
  PROVE  ClaimsInv'
<1>1. UNCHANGED gatewayVars
  BY AgentLeavesGateway DEF AgentMoves
<1>2. PICK f \in frames \cup polled :
        /\ Dispatch(f.job, f.token) /\ UNCHANGED paper
        /\ \/ f \in frames /\ frames' = frames \ {f} /\ polled' = polled
           \/ f \in polled /\ polled' = polled \ {f} /\ frames' = frames
  BY DEF Receiving, ReceiveFrame, ReceivePolled
<1>3. f \in Envelope /\ f.token \in 1 .. issued[f.job]
  BY DEF ProtocolInv, TypeOK, TokensInv
<1>4. /\ CarriedOnce'
      /\ Carried' \subseteq Carried /\ f \in Carried /\ f \notin Carried'
  BY <1>1, <1>2 DEF ClaimsInv, CarriedOnce, Carried, Handing, Handed, gatewayVars
<1>5. ASSUME NEW j \in Jobs
      PROVE  Paid(j)'
  <2>1. UnderWay(j)' \subseteq UnderWay(j)
    BY <1>1, <1>4 DEF UnderWay, gatewayVars
  <2>2. CASE j = f.job
    <3>1. f.token \in UnderWay(j) /\ f.token \notin UnderWay(j)'
      BY <1>3, <1>4, <2>2 DEF UnderWay, Envelope
    <3>2. UnderWay(j)' \subseteq UnderWay(j) \ {f.token}
      BY <2>1, <3>1
    <3>3. /\ IsFiniteSet(UnderWay(j) \ {f.token})
          /\ Cardinality(UnderWay(j) \ {f.token}) = Cardinality(UnderWay(j)) - 1
      BY <3>1, UnderWayIsFinite, FS_RemoveElement
    <3>4. Cardinality(UnderWay(j)') <= Cardinality(UnderWay(j) \ {f.token})
      BY <3>2, <3>3, FS_Subset
    <3> QED
      BY <1>1, <1>2, <3>3, <3>4, UnderWayIsFinite, UnderWayStaysFinite DEF Paid, ClaimsInv, gatewayVars
  <2>3. CASE j # f.job
    <3>1. AtWork(j)' = AtWork(j)
      BY <1>2, <1>3, <2>3 DEF Dispatch, taskVars, AtWork, Envelope, ProtocolInv, TypeOK
    <3>2. Cardinality(UnderWay(j)') <= Cardinality(UnderWay(j))
      BY <2>1, UnderWayIsFinite, FS_Subset
    <3> QED
      BY <1>1, <1>2, <3>1, <3>2, UnderWayIsFinite, UnderWayStaysFinite DEF Paid, ClaimsInv, gatewayVars
  <2> QED
    BY <2>2, <2>3
<1> QED
  BY <1>4, <1>5 DEF ClaimsInv

LEMMA ExecutingPays ==
  ASSUME ProtocolInv, ProtocolInv', ClaimsInv, Executing
  PROVE  ClaimsInv'
<1> USE DEF ProtocolInv, TypeOK
<1>1. UNCHANGED gatewayVars
  BY AgentLeavesGateway DEF AgentMoves
<1>2. UNCHANGED <<frames, polled>>
  BY DEF Executing, Process, ProcessExpired, ProcessLedgerFault, ProcessKnownSuccess,
     ProcessKnownUnknown, ProcessRefused, ProcessReady, ProcessBegin, BacklogCancelled, Hear,
     PrintingAccepted, PrintingRefused, PrintingUnanswered, Close, WindowPasses,
     PrintDocument, RecordOutcome, OnlyTask, OnlyPhase, networkVars
<1>3. PICK j \in Jobs :
        \/ Process(j) \/ BacklogCancelled(j) \/ Hear(j) \/ WindowPasses(j)
        \/ \E outcome \in AtPrinter : PrintDocument(j, outcome)
        \/ RecordOutcome(j)
  BY DEF Executing
<1>4. \A k \in Jobs \ {j} : phase'[k] = phase[k] /\ paper'[k] = paper[k]
  <2>1. CASE \E outcome \in AtPrinter : PrintDocument(j, outcome)
    BY <2>1 DEF PrintDocument
  <2> QED
    BY <1>3, <2>1 DEF Process, ProcessExpired, ProcessLedgerFault, ProcessKnownSuccess,
       ProcessKnownUnknown, ProcessRefused, ProcessReady, ProcessBegin, BacklogCancelled, Hear,
       PrintingAccepted, PrintingRefused, PrintingUnanswered, Close, WindowPasses,
       RecordOutcome, OnlyTask, OnlyPhase, ReportAndWait, Proceed, Abort, Forget
<1>5. paper'[j] + AtWork(j)' <= paper[j] + AtWork(j)
  <2>1. ASSUME NEW outcome \in AtPrinter, PrintDocument(j, outcome)
        PROVE  paper'[j] + AtWork(j)' <= paper[j] + AtWork(j)
    BY <2>1 DEF PrintDocument, AtWork, AtPrinter
  <2>2. CASE Process(j) \/ BacklogCancelled(j)
    BY <2>2 DEF Process, ProcessExpired, ProcessLedgerFault, ProcessKnownSuccess,
       ProcessKnownUnknown, ProcessRefused, ProcessReady, ProcessBegin, Processing,
       BacklogCancelled, OnlyTask, ReportAndWait, AtWork
  <2>3. CASE Hear(j) \/ WindowPasses(j) \/ RecordOutcome(j)
    BY <2>3 DEF Hear, PrintingAccepted, PrintingRefused, PrintingUnanswered, Close, WindowPasses,
       RecordOutcome, OnlyTask, OnlyPhase, ReportAndWait, Proceed, Abort, Forget, AtWork
  <2> QED
    BY <1>3, <2>1, <2>2, <2>3
<1>6. \A k \in Jobs : paper'[k] + AtWork(k)' <= paper[k] + AtWork(k)
  BY <1>4, <1>5 DEF AtWork
<1> QED
  BY <1>1, <1>2, <1>6, WorkPays DEF gatewayVars

LEMMA LivingPays ==
  ASSUME ProtocolInv, ProtocolInv', ClaimsInv, Living
  PROVE  ClaimsInv'
<1>1. UNCHANGED gatewayVars
  BY AgentLeavesGateway DEF AgentMoves
<1>2. frames' \subseteq frames /\ polled' \subseteq polled /\ UNCHANGED paper
  BY DEF Living, Shutdown, Die, Restart, CleanupTerminal, networkVars
<1>3. \A j \in Jobs : AtWork(j)' <= AtWork(j)
  <2>1. phase' = phase \/ \A j \in Jobs : phase'[j] = "idle"
    BY DEF Living, Shutdown, Die, Restart, CleanupTerminal, taskVars
  <2> QED
    BY <2>1 DEF AtWork
<1>4. \A j \in Jobs : paper'[j] + AtWork(j)' <= paper[j] + AtWork(j)
  BY <1>2, <1>3 DEF ProtocolInv, TypeOK, AtWork
<1> QED
  BY <1>1, <1>2, <1>4, WorkPays DEF gatewayVars

LEMMA ClaimsInvariant == Spec => []ClaimsInv
<1>1. Init => ClaimsInv
  <2> SUFFICES ASSUME Init PROVE ClaimsInv
    OBVIOUS
  <2> USE DEF Init, GatewayInit
  <2>1. CarriedOnce
    BY DEF CarriedOnce, Handing
  <2>2. ASSUME NEW j \in Jobs PROVE Paid(j)
    <3>1. UnderWay(j) = {}
      BY DEF UnderWay
    <3> QED
      BY <3>1, FS_EmptySet DEF Paid, AtWork
  <2> QED
    BY <2>1, <2>2 DEF ClaimsInv
<1>2. ProtocolInv /\ ProtocolInv' /\ ClaimsInv /\ [Next]_vars => ClaimsInv'
  <2> SUFFICES ASSUME ProtocolInv, ProtocolInv', ClaimsInv, [Next]_vars PROVE ClaimsInv'
    OBVIOUS
  <2>1. CASE UNCHANGED vars
    BY <2>1 DEF vars, gatewayVars, networkVars, agentVars, ClaimsInv, CarriedOnce, Paid, AtWork,
       UnderWay, Carried, Handing, Handed
  <2> QED
    BY <2>1, ServingPays, ReceivingPays, ExecutingPays, LivingPays DEF Next
<1> QED
  BY <1>1, <1>2, ProtocolInvariant, PTL DEF Spec

(* "One claim, one document": with reprint_after_crash, a failing or cleaned *)
(* ledger, crashes and lost answers in any mix, a job's document is put on   *)
(* paper no oftener than the Gateway claimed the job.                        *)
THEOREM ClaimsPayForPaper == Spec => []OnePaperPerClaim
<1>1. ProtocolInv /\ ClaimsInv => OnePaperPerClaim
  BY UnderWayIsFinite DEF ClaimsInv, Paid, OnePaperPerClaim
<1> QED
  BY <1>1, ClaimsInvariant, ProtocolInvariant, PTL
=============================================================================
