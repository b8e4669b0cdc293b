--------------------------- MODULE PrintProtocol ---------------------------
(***************************************************************************)
(* End-to-end printing: the Gateway of GatewayJobs composed with the       *)
(* Windows agent that executes its jobs (agent/internal/agent/agent.go),   *)
(* the agent's durable SQLite ledger (agent/internal/queue), the network   *)
(* between them and the printer.                                           *)
(*                                                                         *)
(* A job's goroutine is described by phase:                                *)
(*   idle      not in the in-flight map                                    *)
(*   backlog   registered, waiting for an execution slot                   *)
(*   waiting   in its slot, checks passed, waiting for the printer's lock  *)
(*   asking    BeginPrint done, waiting for the answer to "printing"       *)
(*   cleared   allowed to send bytes                                       *)
(*   printed, ambiguous, broken    PrintDocument returned: transmitted,    *)
(*             outcome unknown, or provably nothing sent                   *)
(*   closing   waiting for the answer to its last report                   *)
(*   returning the same, without ever having had an execution slot         *)
(*                                                                         *)
(* Messages may be arbitrarily late; one that is never received is a lost  *)
(* one.  Faults names what else may go wrong in an instance:               *)
(*   "loss"     an HTTP call ends in a transport error for the agent, its  *)
(*              request lost, still under way, or already served           *)
(*   "crash"    the agent process dies without warning                     *)
(*   "gateway"  the Gateway process dies or fails: no answer, or a 5xx     *)
(*   "ledger"   a ledger read or write fails                               *)
(*   "cleanup"  the operator's cleanup command runs against the ledger     *)
(*   "presence" the agent and its printers change status at the Gateway    *)
(*   "snapshot" a row changes after a poll chose it and before the poll    *)
(*              locks it, and is claimed all the same                      *)
(***************************************************************************)
EXTENDS GatewayJobs

CONSTANTS
  Faults,              \* the kinds of fault of this instance
  MaxPending,          \* maxPendingJobs
  MaxConcurrent,       \* maxConcurrentJobs
  ReprintAfterCrash    \* agent.reprint_after_crash

ASSUME FaultsAssumption ==
  Faults \subseteq {"loss", "crash", "gateway", "ledger", "cleanup", "presence", "snapshot"}

ASSUME AgentAssumption == /\ MaxPending \in Nat
                          /\ MaxConcurrent \in Nat
                          /\ ReprintAfterCrash \in BOOLEAN

VARIABLES
  frames,    \* print_job envelopes on the WebSocket
  polled,    \* jobs in poll responses under way
  polling,   \* the agent process waits for the answer to the poll under way
  acks,      \* job_ack frames under way
  reports,   \* PATCH requests under way
  life,      \* the agent process: "up", "stopping", "down"
  held,      \* inFlightTokens: the token adopted last, 0 when not in flight
  fresh,     \* less than staleClaimSafetyWindow since inFlightReceived
  task,      \* the token of the envelope the goroutine was started with
  phase,     \* where the goroutine of a job is
  asked,     \* the report it is waiting on
  reply,     \* the answer to that report
  ledger,    \* the durable local row
  paper      \* how often the document was (or may have been) put on paper

networkVars == <<frames, polled, polling, acks, reports>>
taskVars == <<held, fresh, task, phase, asked, reply>>
agentVars == <<life, held, fresh, task, phase, asked, reply, ledger, paper>>
vars == <<gatewayVars, networkVars, agentVars>>

Phases == {"idle", "backlog", "waiting", "asking", "cleared", "printed", "ambiguous",
           "broken", "closing", "returning"}
AtPrinter == {"printed", "ambiguous", "broken"}

Envelope == [job: Jobs, token: Nat]
Report == [job: Jobs, want: Statuses, token: Nat, error: Errors]
LedgerRow == [status: {"none", "queued", "printing", "success", "failed"},
              error: Errors, token: Nat]

NoLedgerRow == [status |-> "none", error |-> "none", token |-> 0]

Init ==
  /\ GatewayInit
  /\ frames = {} /\ polled = {} /\ acks = {} /\ reports = {}
  /\ polling = FALSE
  /\ life = "up"
  /\ held = [j \in Jobs |-> 0]
  /\ fresh = [j \in Jobs |-> FALSE]
  /\ task = [j \in Jobs |-> 0]
  /\ phase = [j \in Jobs |-> "idle"]
  /\ asked = [j \in Jobs |-> Idle]
  /\ reply = [j \in Jobs |-> "none"]
  /\ ledger = [j \in Jobs |-> NoLedgerRow]
  /\ paper = [j \in Jobs |-> 0]

-----------------------------------------------------------------------------
(* The Gateway's steps, with the messages they consume and produce *)

PushToSocket(p) ==
  /\ PushSend(p)
  /\ frames' = IF life = "down" THEN frames
               ELSE frames \cup {[job |-> push[p].job, token |-> push[p].token]}
  /\ UNCHANGED <<polled, polling, acks, reports, agentVars>>

StartPoll(S) ==
  /\ life # "down"
  /\ PollSnapshot(S)
  /\ polling' = TRUE
  /\ UNCHANGED <<frames, polled, acks, reports, agentVars>>

(* An answer to a process that died since is lost, the claim is not.        *)
AnswerPoll(S) ==
  /\ PollClaim(S)
  /\ "snapshot" \in Faults \/ \A j \in S : StaleCandidate(j) \/ QueuedCandidate(j)
  /\ polled' = IF polling THEN polled \cup {[job |-> j, token |-> issued'[j]] : j \in S}
               ELSE polled
  /\ polling' = FALSE
  /\ UNCHANGED <<frames, acks, reports, agentVars>>

ReceiveAck(a) ==
  /\ acks' = acks \ {a}
  /\ \/ RecordAck(a.job, a.token)
     \/ ~LiveClaim(a.job, a.token) /\ UNCHANGED gatewayVars
  /\ UNCHANGED <<frames, polled, polling, reports, agentVars>>

Heartbeat(j) ==
  /\ life # "down"
  /\ agent # "disabled"
  /\ held[j] # 0
  /\ KeepAlive(j, held[j])
  /\ UNCHANGED <<networkVars, agentVars>>

(* The answer reaches the goroutine only if it still waits for this report. *)
Answered(j, want, t, answer) ==
  reply' = IF asked[j] = [want |-> want, token |-> t] /\ reply[j] = "none"
           THEN [reply EXCEPT ![j] = answer] ELSE reply

OnlyReply ==
  UNCHANGED <<frames, polled, polling, acks, life, held, fresh, task, phase, asked, ledger, paper>>

ServeRead(h, m) ==
  /\ patch[h] = Idle
  /\ reports' = reports \ {m}
  /\ \/ /\ PatchRead(h, m.job, m.want, m.token, m.error)
        /\ UNCHANGED reply
     \/ /\ agent = "disabled" \/ ~PatchAdmits(row[m.job], m.want, m.token)
        /\ Answered(m.job, m.want, m.token, "refused")
        /\ UNCHANGED gatewayVars
  /\ OnlyReply

ServeWrite(h) ==
  /\ PatchWrite(h)
  /\ Answered(patch[h].job, patch[h].to, patch[h].token,
              IF FenceHolds(patch[h]) THEN "ok" ELSE "refused")
  /\ UNCHANGED reports /\ OnlyReply

(* A 5xx answer: the agent takes it for a refusal, whether the request never *)
(* took effect, already has, or still will.                                  *)
ServerError(j) ==
  /\ "gateway" \in Faults
  /\ asked[j] # Idle /\ reply[j] = "none"
  /\ reply' = [reply EXCEPT ![j] = "refused"]
  /\ UNCHANGED <<gatewayVars, reports>> /\ OnlyReply

GatewayAlone ==
  /\ \/ \E p \in Pushers : \/ \E j \in Jobs : WsClaim(p, j)
                           \/ PushFails(p)
                           \/ MarkDelivered(p)
                           \/ ReleaseUndelivered(p)
     \/ Sweep
     \/ \E j \in Jobs : TimePasses(j) \/ TtlPasses(j)
     \/ /\ "presence" \in Faults
        /\ \/ \E s \in {"online", "offline", "disabled"} : AgentPresence(s)
           \/ \E p \in Printers : PrinterPresence(p)
  /\ UNCHANGED <<networkVars, agentVars>>

GatewayDies ==
  /\ "gateway" \in Faults
  /\ GatewayRestart
  /\ polling' = FALSE
  /\ UNCHANGED <<frames, polled, acks, reports, agentVars>>

-----------------------------------------------------------------------------
(* The agent: receiving a delivery *)

Send(j, want, t, error) == [job |-> j, want |-> want, token |-> t, error |-> error]

(* dispatchJob: reject while shutting down; adopt the token of a duplicate; *)
(* reject when the backlog is full; otherwise start a goroutine.            *)
Dispatch(j, t) ==
  \/ /\ life = "stopping"
     /\ reports' = reports \cup
          {Send(j, "queued", IF held[j] # 0 THEN held[j] ELSE t, "none")}
     /\ UNCHANGED taskVars
  \/ /\ life = "up" /\ held[j] # 0
     /\ held' = [held EXCEPT ![j] = t]
     /\ fresh' = [fresh EXCEPT ![j] = TRUE]
     /\ UNCHANGED <<reports, task, phase, asked, reply>>
  \/ /\ life = "up" /\ held[j] = 0
     /\ Cardinality({k \in Jobs : phase[k] # "idle"}) >= MaxPending
     /\ reports' = reports \cup {Send(j, "queued", t, "none")}
     /\ UNCHANGED taskVars
  \/ /\ life = "up" /\ held[j] = 0
     /\ Cardinality({k \in Jobs : phase[k] # "idle"}) < MaxPending
     /\ held' = [held EXCEPT ![j] = t]
     /\ fresh' = [fresh EXCEPT ![j] = TRUE]
     /\ task' = [task EXCEPT ![j] = t]
     /\ phase' = [phase EXCEPT ![j] = "backlog"]
     /\ UNCHANGED <<reports, asked, reply>>

ReceiveFrame(f) ==
  /\ frames' = frames \ {f}
  /\ acks' = acks \cup {f}
  /\ Dispatch(f.job, f.token)
  /\ UNCHANGED <<polled, polling, life, ledger, paper, gatewayVars>>

ReceivePolled(f) ==
  /\ polled' = polled \ {f}
  /\ Dispatch(f.job, f.token)
  /\ UNCHANGED <<frames, polling, acks, life, ledger, paper, gatewayVars>>

-----------------------------------------------------------------------------
(* The agent: executing a job *)

(* updateJobStatus and rejectJob send the token adopted last.               *)
ReportAndWait(j, want, error, next) ==
  /\ reports' = reports \cup {Send(j, want, held[j], error)}
  /\ asked' = [asked EXCEPT ![j] = [want |-> want, token |-> held[j]]]
  /\ reply' = [reply EXCEPT ![j] = "none"]
  /\ phase' = [phase EXCEPT ![j] = next]

Forget(j) ==
  /\ held' = [held EXCEPT ![j] = 0]
  /\ fresh' = [fresh EXCEPT ![j] = FALSE]
  /\ task' = [task EXCEPT ![j] = 0]
  /\ phase' = [phase EXCEPT ![j] = "idle"]
  /\ asked' = [asked EXCEPT ![j] = Idle]
  /\ reply' = [reply EXCEPT ![j] = "none"]

OutcomeUnknown(l) == l.status = "failed" /\ l.error \in UnknownMarkers

SlotFree == Cardinality({k \in Jobs : phase[k] \notin {"idle", "backlog", "returning"}})
              < MaxConcurrent

(* processJob has an execution slot and its TTL check passed. *)
Processing(j) == phase[j] = "backlog" /\ SlotFree /\ row[j].ttl = "live"

OnlyTask ==
  UNCHANGED <<gatewayVars, frames, polled, polling, acks, life, held, fresh, task, paper>>

ProcessExpired(j) ==
  /\ phase[j] = "backlog" /\ SlotFree
  /\ row[j].ttl # "live"
  /\ ReportAndWait(j, "expired", "plain", "closing")
  /\ UNCHANGED ledger /\ OnlyTask

(* The lookup in the ledger or BeginPrint fails. *)
ProcessLedgerFault(j) ==
  /\ "ledger" \in Faults
  /\ Processing(j) \/ phase[j] = "waiting"
  /\ ReportAndWait(j, "queued", "none", "closing")
  /\ UNCHANGED ledger /\ OnlyTask

(* A local success is re-reported, never printed again. *)
ProcessKnownSuccess(j) ==
  /\ Processing(j)
  /\ ledger[j].status = "success"
  /\ ReportAndWait(j, "success", "none", "closing")
  /\ UNCHANGED ledger /\ OnlyTask

ProcessKnownUnknown(j) ==
  /\ Processing(j)
  /\ OutcomeUnknown(ledger[j]) /\ ~ReprintAfterCrash
  /\ ReportAndWait(j, "failed",
       IF ledger[j].error = "AGENT_RESTART_DURING_PRINT" THEN ledger[j].error
       ELSE "UNKNOWN_PARTIAL_DELIVERY", "closing")
  /\ UNCHANGED ledger /\ OnlyTask

MayPrint(j) == /\ ledger[j].status # "success"
               /\ OutcomeUnknown(ledger[j]) => ReprintAfterCrash

(* Unconfigured printer, invalid payload or capability mismatch. *)
ProcessRefused(j) ==
  /\ Processing(j)
  /\ MayPrint(j)
  /\ ReportAndWait(j, "failed", "plain", "closing")
  /\ UNCHANGED ledger /\ OnlyTask

LockFree(p) == \A k \in Jobs : PrinterOf[k] = p => phase[k] \notin AtPrinter

ProcessReady(j) ==
  /\ Processing(j)
  /\ MayPrint(j)
  /\ phase' = [phase EXCEPT ![j] = "waiting"]
  /\ UNCHANGED <<reports, asked, reply, ledger>> /\ OnlyTask

(* Under the printer's lock BeginPrint commits the ledger row; "printing"   *)
(* is reported after the lock is released.  The TTL is not looked at again; *)
(* the ledger is, and says the same: only this goroutine writes the row.    *)
ProcessBegin(j) ==
  /\ phase[j] = "waiting"
  /\ MayPrint(j)
  /\ LockFree(PrinterOf[j])
  /\ ledger' = [ledger EXCEPT ![j].status = "printing", ![j].token = task[j]]
  /\ ReportAndWait(j, "printing", "none", "asking")
  /\ OnlyTask

(* A goroutine still in the backlog when the agent stops hands its job back. *)
BacklogCancelled(j) ==
  /\ life = "stopping"
  /\ phase[j] = "backlog"
  /\ ReportAndWait(j, "queued", "none", "returning")
  /\ UNCHANGED ledger /\ OnlyTask

OnlyPhase == UNCHANGED <<gatewayVars, networkVars, life, paper>>

Proceed(j) ==
  /\ phase' = [phase EXCEPT ![j] = "cleared"]
  /\ asked' = [asked EXCEPT ![j] = Idle]
  /\ reply' = [reply EXCEPT ![j] = "none"]
  /\ UNCHANGED <<held, fresh, task, ledger>>

(* AbortPrint rolls a printing ledger row back; a failing write leaves it. *)
Abort(j) ==
  /\ \/ ledger' = [ledger EXCEPT ![j] = [@ EXCEPT !.status = "queued", !.error = "plain",
                                                   !.token = 0]]
     \/ "ledger" \in Faults /\ UNCHANGED ledger
  /\ Forget(j)

PrintingAccepted(j) ==
  /\ phase[j] = "asking" /\ reply[j] = "ok"
  /\ Proceed(j)
  /\ OnlyPhase

(* Slip: a refusal is taken for a lost answer. *)
PrintingRefusedIgnored(j) ==
  /\ phase[j] = "asking" /\ reply[j] = "refused"
  /\ Proceed(j)
  /\ OnlyPhase

PrintingRefused(j) ==
  /\ phase[j] = "asking" /\ reply[j] = "refused"
  /\ Abort(j)
  /\ OnlyPhase

TransportErrors == {"loss", "gateway"} \cap Faults # {}

(* authorizeDispatchAfterReportFailure *)
PrintingUnanswered(j) ==
  /\ TransportErrors
  /\ phase[j] = "asking" /\ reply[j] = "none"
  /\ \/ fresh[j] /\ row[j].ttl = "live" /\ Proceed(j)
     \/ ~(fresh[j] /\ row[j].ttl = "live") /\ Abort(j)
  /\ OnlyPhase

WindowPasses(j) ==
  /\ fresh[j]
  /\ phase[j] \in {"backlog", "waiting", "asking"}
  /\ fresh' = [fresh EXCEPT ![j] = FALSE]
  /\ UNCHANGED <<held, task, phase, asked, reply, ledger>>
  /\ OnlyPhase

(* Slip: an ambiguous transmission is retried on the spot. *)
PrintDocumentRetried(j, outcome) ==
  /\ phase[j] = "cleared"
  /\ LockFree(PrinterOf[j])
  /\ phase' = [phase EXCEPT ![j] = IF outcome = "ambiguous" THEN "cleared" ELSE outcome]
  /\ paper' = [paper EXCEPT ![j] = IF outcome = "broken" THEN @ ELSE @ + 1]
  /\ paper[j] < 3
  /\ UNCHANGED <<gatewayVars, networkVars, life, held, fresh, task, asked, reply, ledger>>

(* PrintDocument under the printer's lock. *)
PrintDocument(j, outcome) ==
  /\ phase[j] = "cleared"
  /\ LockFree(PrinterOf[j])
  /\ phase' = [phase EXCEPT ![j] = outcome]
  /\ \/ outcome \in {"printed", "ambiguous"} /\ paper' = [paper EXCEPT ![j] = @ + 1]
     \/ outcome \in {"broken", "ambiguous"} /\ UNCHANGED paper
  /\ UNCHANGED <<gatewayVars, networkVars, life, held, fresh, task, asked, reply, ledger>>

(* Slip: wrapping the transport error loses its unknown-outcome marker. *)
RecordOutcomeUnmarked(j) ==
  /\ phase[j] \in AtPrinter
  /\ LET status == IF phase[j] = "printed" THEN "success" ELSE "failed"
         error == IF phase[j] = "printed" THEN "none" ELSE "plain"
     IN /\ ledger' = [ledger EXCEPT ![j].status = status, ![j].error = error]
        /\ ReportAndWait(j, status, error, "closing")
  /\ OnlyTask

(* Slip: an ambiguous transmission counts as transmitted. *)
RecordOutcomeOptimistic(j) ==
  /\ phase[j] \in AtPrinter
  /\ LET status == IF phase[j] = "broken" THEN "failed" ELSE "success"
         error == IF phase[j] = "broken" THEN "plain" ELSE "none"
     IN /\ ledger' = [ledger EXCEPT ![j].status = status, ![j].error = error]
        /\ ReportAndWait(j, status, error, "closing")
  /\ OnlyTask

(* Still under the lock the ledger gets the outcome; then it is reported. *)
RecordOutcome(j) ==
  /\ phase[j] \in AtPrinter
  /\ LET error == IF phase[j] = "printed" THEN "none"
                  ELSE IF phase[j] = "ambiguous" THEN "UNKNOWN_PARTIAL_DELIVERY"
                  ELSE "plain"
         status == IF phase[j] = "printed" THEN "success" ELSE "failed"
     IN /\ \/ ledger' = [ledger EXCEPT ![j].status = status,
                           ![j].error = IF status = "failed" THEN error ELSE @]
           \/ "ledger" \in Faults /\ UNCHANGED ledger
        /\ ReportAndWait(j, status, error, "closing")
  /\ OnlyTask

(* Slip: a refused last report keeps the job in the in-flight map. *)
CloseIfAccepted(j) ==
  /\ phase[j] \in {"closing", "returning"}
  /\ reply[j] = "ok"
  /\ Forget(j)
  /\ UNCHANGED ledger
  /\ OnlyPhase

Close(j) ==
  /\ phase[j] \in {"closing", "returning"}
  /\ reply[j] # "none" \/ TransportErrors
  /\ Forget(j)
  /\ UNCHANGED ledger
  /\ OnlyPhase

-----------------------------------------------------------------------------
(* The agent: process life *)

Shutdown ==
  /\ life = "up"
  /\ life' = "stopping"
  /\ UNCHANGED <<gatewayVars, networkVars, taskVars, ledger, paper>>

(* The process ends: killed, or stopping past its grace period. *)
Die ==
  /\ life = "stopping" \/ (life = "up" /\ "crash" \in Faults)
  /\ life' = "down"
  /\ frames' = {} /\ polled' = {} /\ polling' = FALSE
  /\ held' = [j \in Jobs |-> 0]
  /\ fresh' = [j \in Jobs |-> FALSE]
  /\ task' = [j \in Jobs |-> 0]
  /\ phase' = [j \in Jobs |-> "idle"]
  /\ asked' = [j \in Jobs |-> Idle]
  /\ reply' = [j \in Jobs |-> "none"]
  /\ UNCHANGED <<gatewayVars, acks, reports, ledger, paper>>

(* Slip: the process starts without recoverInterruptedJobs. *)
RestartUnrecovered ==
  /\ life = "down"
  /\ life' = "up"
  /\ UNCHANGED <<gatewayVars, networkVars, taskVars, ledger, paper>>

(* recoverInterruptedJobs runs before any delivery is accepted.  When the   *)
(* ledger fails it may find no row, or find them and mark only some.        *)
Restart ==
  /\ life = "down"
  /\ life' = "up"
  /\ LET interrupted == {j \in Jobs : ledger[j].status = "printing"}
         marker == "AGENT_RESTART_DURING_PRINT"
     IN \E found \in {{}, interrupted} : \E marked \in SUBSET found :
          /\ marked = interrupted \/ "ledger" \in Faults
          /\ ledger' = [j \in Jobs |-> IF j \in marked
                          THEN [ledger[j] EXCEPT !.status = "failed", !.error = marker]
                          ELSE ledger[j]]
          /\ reports' = IF ReprintAfterCrash THEN reports
                        ELSE reports \cup
                          {Send(j, "failed", ledger[j].token, marker) : j \in found}
  /\ UNCHANGED <<gatewayVars, frames, polled, polling, acks, taskVars, paper>>

(* CleanupTerminal: the CLI deletes local rows with a provable outcome. *)
CleanupTerminal ==
  LET provable(l) == l.status = "success" \/ (l.status = "failed" /\ ~OutcomeUnknown(l))
  IN  /\ "cleanup" \in Faults
      /\ \E j \in Jobs : provable(ledger[j])
      /\ ledger' = [j \in Jobs |-> IF provable(ledger[j]) THEN NoLedgerRow ELSE ledger[j]]
      /\ UNCHANGED <<gatewayVars, networkVars, life, taskVars, paper>>

-----------------------------------------------------------------------------
Serving ==
  \/ \E p \in Pushers : PushToSocket(p)
  \/ \E S \in SUBSET Jobs : StartPoll(S) \/ AnswerPoll(S)
  \/ \E a \in acks : ReceiveAck(a)
  \/ \E j \in Jobs : Heartbeat(j) \/ ServerError(j)
  \/ \E h \in Handlers : \/ \E m \in reports : ServeRead(h, m)
                         \/ ServeWrite(h)
  \/ GatewayAlone
  \/ GatewayDies

Receiving ==
  \/ \E f \in frames : ReceiveFrame(f)
  \/ \E f \in polled : ReceivePolled(f)

Process(j) == \/ ProcessExpired(j) \/ ProcessLedgerFault(j) \/ ProcessKnownSuccess(j)
              \/ ProcessKnownUnknown(j) \/ ProcessRefused(j) \/ ProcessReady(j)
              \/ ProcessBegin(j)

Hear(j) == PrintingAccepted(j) \/ PrintingRefused(j) \/ PrintingUnanswered(j) \/ Close(j)

Executing ==
  \E j \in Jobs :
    \/ Process(j)
    \/ BacklogCancelled(j)
    \/ Hear(j)
    \/ WindowPasses(j)
    \/ \E outcome \in AtPrinter : PrintDocument(j, outcome)
    \/ RecordOutcome(j)

Living == Shutdown \/ Die \/ Restart \/ CleanupTerminal

Next == Serving \/ Receiving \/ Executing \/ Living

Spec == Init /\ [][Next]_vars

(* Goroutines are scheduled, HTTP calls end (the client's 15 s timeout),    *)
(* PrintDocument ends (its own timeout), and a status request that arrived  *)
(* is served.                                                               *)
AgentFairness ==
  /\ \A j \in Jobs : /\ WF_vars(Process(j))
                     /\ WF_vars(Hear(j))
                     /\ WF_vars(\E outcome \in AtPrinter : PrintDocument(j, outcome))
                     /\ WF_vars(RecordOutcome(j))
  /\ WF_vars(\E h \in Handlers : (\E m \in reports : ServeRead(h, m)) \/ ServeWrite(h))

FairSpec == Spec /\ AgentFairness
-----------------------------------------------------------------------------
(* Every variable has its type. *)
TypeOK ==
  /\ GatewayTypeOK
  /\ frames \subseteq Envelope /\ polled \subseteq Envelope /\ acks \subseteq Envelope
  /\ reports \subseteq Report
  /\ polling \in BOOLEAN
  /\ life \in {"up", "stopping", "down"}
  /\ held \in [Jobs -> Nat]
  /\ fresh \in [Jobs -> BOOLEAN]
  /\ task \in [Jobs -> Nat]
  /\ phase \in [Jobs -> Phases]
  /\ asked \in [Jobs -> [want: Statuses, token: Nat] \cup {Idle}]
  /\ reply \in [Jobs -> {"none", "ok", "refused"}]
  /\ ledger \in [Jobs -> LedgerRow]
  /\ paper \in [Jobs -> Nat]

(* "Success" is never said of a document that no attempt transmitted, even  *)
(* when the report is a re-report after a restart, a late one, or follows   *)
(* a cleaned or unreadable ledger.                                          *)
SuccessMeansPaper == \A j \in Jobs : row[j].status = "success" => paper[j] > 0

(* "A job that already printed successfully on THIS agent is never printed  *)
(* again, no matter how often it is delivered" (agent.go), nor is one whose *)
(* outcome is unknown: however deliveries, crashes and lost calls mix.      *)
AtMostOnePaper == \A j \in Jobs : paper[j] <= 1

(* The durable ledger is the evidence base: paper always leaves a row that  *)
(* BeginPrint refuses to reopen once the process restarts or the job comes  *)
(* back.                                                                    *)
LedgerKnowsPaper ==
  \A j \in Jobs : paper[j] > 0 =>
    \/ ledger[j].status = "success"
    \/ OutcomeUnknown(ledger[j])
    \/ ledger[j].status = "printing" /\ (life = "down" \/ phase[j] \in AtPrinter)

(* Even where reprinting is allowed, or the ledger is cleaned or failing,   *)
(* one claim puts at most one document on paper: a token is executed once.  *)
OnePaperPerClaim == \A j \in Jobs : paper[j] <= issued[j]

(* A job that ends with outcome not_printed has no paper: submitting it     *)
(* again, as the callers do, duplicates nothing.                            *)
HonestOutcome ==
  \A j \in Jobs :
    /\ row[j].status \in TerminalStatuses
    /\ PhysicalOutcome(row[j].status, row[j].error) = "not_printed"
    => paper[j] = 0

(* While bytes may flow, the Gateway knows: the row says printing (or was   *)
(* given up with its outcome settled), never queued or merely claimed,      *)
(* unless a poll that had chosen the row before took it over for a newer    *)
(* claim than the one the goroutine was started with.                       *)
DispatchIsKnown ==
  \A j \in Jobs :
    phase[j] \in {"cleared"} \cup AtPrinter =>
      \/ row[j].status \notin {"queued", "claimed"}
      \/ "snapshot" \in Faults /\ task[j] < issued[j]

(* "success, failed and expired are terminal: no further transitions are    *)
(* accepted", the late success excepted (job-status.ts).                    *)
TerminalIsFinal ==
  [][\A j \in Jobs : row[j].status \in TerminalStatuses =>
        row'[j].status \in {row[j].status, "success"}]_vars

(* An executor slot taken by a job is given back, so duplicate detection    *)
(* and the backlog never hold a job for ever.                               *)
SlotIsReleased == \A j \in Jobs : phase[j] # "idle" ~> phase[j] = "idle"

(* The protocol implements the promise made to the submitting system.       *)
Promise == INSTANCE PrintPromise WITH
  outcome <- [j \in Jobs |-> IF row[j].status \in TerminalStatuses
                             THEN PhysicalOutcome(row[j].status, row[j].error) ELSE "open"],
  sheets <- paper

PromiseKept == Promise!Spec
=============================================================================
