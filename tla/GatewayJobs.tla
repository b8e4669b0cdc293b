---------------------------- MODULE GatewayJobs ----------------------------
(***************************************************************************)
(* The Gateway's side of print delivery: the print_jobs rows of one agent, *)
(* the two claim paths (WebSocket push and poll), delivery evidence,       *)
(* release, the PATCH status handler and the maintenance sweep.            *)
(*                                                                         *)
(* The agent is left arbitrary here: any status report, with any token the *)
(* Gateway ever issued, may arrive at any time.  What this module promises *)
(* therefore holds whatever the agent does; PrintProtocol adds the real    *)
(* agent.  All agents are independent (every statement filters on one      *)
(* agent_id), so one agent's rows are enough.                              *)
(*                                                                         *)
(* Each SQL statement or transaction is one step.  A handler that awaits   *)
(* between two statements is two actions, and what it remembers in between *)
(* is kept in patch (status handlers) and push (WebSocket deliveries).     *)
(* The poll's claim is one statement but two steps: PostgreSQL reads its   *)
(* candidates in a snapshot, and locks and updates the newest version of   *)
(* their rows later, looking again only at the id, agent and printer.      *)
(***************************************************************************)
EXTENDS JobStatus, FiniteSets

CONSTANTS
  Jobs,          \* print_jobs rows of the agent
  Printers,      \* its printers
  PrinterOf,     \* the printer of each row
  Handlers,      \* PATCH requests the Gateway can serve at once
  Pushers,       \* WebSocket deliveries it can run at once
  Idle,          \* a handler or pusher with nothing in hand
  MaxDelivery,   \* MAX_DELIVERY_ATTEMPTS
  MaxRetries,    \* MAX_RETRIES
  MaxInFlight,   \* MAX_AGENT_IN_FLIGHT_JOBS
  MaxBatch       \* MAX_CLAIM_BATCH

ASSUME JobsAssumption == PrinterOf \in [Jobs -> Printers]

ASSUME BudgetAssumption ==
  /\ MaxDelivery \in Nat \ {0}
  /\ MaxRetries \in Nat \ {0}
  /\ MaxInFlight \in Nat
  /\ MaxBatch \in Nat

VARIABLES
  row,      \* the print_jobs row of each job
  issued,   \* how many claim tokens (gen_random_uuid) each job has been given
  patch,    \* each PATCH handler between its read and its fenced UPDATE
  push,     \* each claimAndPushJobToAgent call between two of its awaits
  poll,     \* the rows chosen by the poll that holds the agent's advisory lock
  agent,    \* the agents row: "online", "offline", or "disabled" (lifecycle)
  printer   \* the printers rows' status

gatewayVars == <<row, issued, patch, push, poll, agent, printer>>

(* token 0 is SQL NULL; evidence merges delivered_at and acked_at (an ack  *)
(* always stamps both, and both are always tested together).               *)
Row == [status   : Statuses,
        token    : Nat,
        evidence : {"none", "delivered", "acked"},
        attempts : Nat,
        retries  : Nat,
        error    : Errors,
        age      : Ages,
        ttl      : Ttls]

FencedWrite == [job: Jobs, expect: Statuses, to: Statuses, token: Nat, error: Errors]

Delivery == [job: Jobs, token: Nat, step: {"claimed", "sent", "release"}]

NewRow == [status |-> "queued", token |-> 0, evidence |-> "none", attempts |-> 0,
           retries |-> 0, error |-> "none", age |-> 0, ttl |-> "live"]

GatewayInit ==
  /\ row = [j \in Jobs |-> NewRow]
  /\ issued = [j \in Jobs |-> 0]
  /\ patch = [h \in Handlers |-> Idle]
  /\ push = [p \in Pushers |-> Idle]
  /\ poll = {}
  /\ agent = "online"
  /\ printer = [p \in Printers |-> "online"]

-----------------------------------------------------------------------------
(* Claiming *)

Routable(j) == agent = "online" /\ printer[PrinterOf[j]] = "online"

InFlight == {j \in Jobs : /\ row[j].status \in {"claimed", "printing"}
                          /\ row[j].ttl = "live"
                          /\ Routable(j)}

(* Slip: only deliveries are budgeted, hand-backs are free. *)
WithinDeliveries(r) == r.attempts < MaxDelivery

WithinBudget(r) == r.attempts < MaxDelivery /\ r.retries < MaxRetries

QueuedCandidate(j) == /\ row[j].status = "queued"
                      /\ row[j].ttl = "live"
                      /\ WithinBudget(row[j])
                      /\ Routable(j)

StaleCandidate(j) == /\ row[j].status = "claimed"
                     /\ row[j].evidence = "none"
                     /\ ClaimLeaseOver(row[j].age)
                     /\ row[j].ttl = "live"
                     /\ WithinBudget(row[j])
                     /\ Routable(j)

(* The WebSocket claim: one transaction under the agent's advisory lock,   *)
(* which locks the row before it looks at it again.                        *)
WsClaim(p, j) ==
  /\ push[p] = Idle
  /\ poll = {}
  /\ Cardinality(InFlight) < MaxInFlight
  /\ QueuedCandidate(j)
  /\ row' = [row EXCEPT ![j].status = "claimed", ![j].token = issued[j] + 1,
                        ![j].evidence = "none", ![j].attempts = @ + 1, ![j].age = 0]
  /\ issued' = [issued EXCEPT ![j] = @ + 1]
  /\ push' = [push EXCEPT ![p] = [job |-> j, token |-> issued[j] + 1, step |-> "claimed"]]
  /\ UNCHANGED <<patch, poll, agent, printer>>

(* Slip: the batch is bounded, the free slots are not looked at. *)
PollSnapshotUncounted(S) ==
  /\ poll = {}
  /\ S # {}
  /\ \A j \in S : StaleCandidate(j) \/ QueuedCandidate(j)
  /\ Cardinality(S) <= MaxBatch
  /\ poll' = S
  /\ UNCHANGED <<row, issued, patch, push, agent, printer>>

(* A poll takes the advisory lock, counts, and chooses stale claims and     *)
(* queued rows, the latter within the free slots; what SKIP LOCKED and the  *)
(* order by created_at leave out makes S any such set.  A poll that finds   *)
(* nothing is no step.                                                      *)
PollSnapshot(S) ==
  /\ poll = {}
  /\ S # {}
  /\ \A j \in S : StaleCandidate(j) \/ QueuedCandidate(j)
  /\ LET fromQueue == {j \in S : row[j].status = "queued"}
     IN  /\ Cardinality(S \ fromQueue) <= MaxBatch
         /\ Cardinality(fromQueue) <= MaxBatch
         /\ fromQueue # {} => Cardinality(fromQueue) + Cardinality(InFlight) <= MaxInFlight
  /\ poll' = S
  /\ UNCHANGED <<row, issued, patch, push, agent, printer>>

(* The poll's UPDATE, on whatever the row has become: a takeover of a       *)
(* claimed row is charged as a retry, and delivered_at stays.               *)
PollClaimed(r, token) ==
  [r EXCEPT !.status = "claimed", !.token = token, !.attempts = @ + 1, !.age = 0,
            !.evidence = IF @ = "none" THEN "none" ELSE "delivered",
            !.retries = IF r.status = "claimed" THEN @ + 1 ELSE @]

(* Slip: a claimed row is taken over without a fresh token. *)
PollClaimKeepsToken(S) ==
  /\ poll # {}
  /\ S \subseteq poll
  /\ row' = [j \in Jobs |->
               IF j \notin S THEN row[j]
               ELSE PollClaimed(row[j], IF row[j].status = "claimed" THEN row[j].token
                                        ELSE issued[j] + 1)]
  /\ issued' = [j \in Jobs |-> IF j \in S THEN issued[j] + 1 ELSE issued[j]]
  /\ poll' = {}
  /\ UNCHANGED <<patch, push, agent, printer>>

(* The poll locks those of its rows that are free and still routable,       *)
(* claims them and commits.                                                 *)
PollClaim(S) ==
  /\ poll # {}
  /\ S \subseteq poll
  /\ Cardinality(S) <= MaxBatch
  /\ \A j \in S : Routable(j)
  /\ row' = [j \in Jobs |->
               IF j \in S THEN PollClaimed(row[j], issued[j] + 1) ELSE row[j]]
  /\ issued' = [j \in Jobs |-> IF j \in S THEN issued[j] + 1 ELSE issued[j]]
  /\ poll' = {}
  /\ UNCHANGED <<patch, push, agent, printer>>

-----------------------------------------------------------------------------
(* Delivery evidence *)

LiveClaim(j, t) == row[j].status \in {"claimed", "printing"} /\ row[j].token = t

Stamped(evidence) == IF evidence = "none" THEN "delivered" ELSE evidence

(* sendToAgent wrote the envelope to an open socket, or found none.        *)
PushSend(p) ==
  /\ push[p] # Idle
  /\ push[p].step = "claimed"
  /\ push' = [push EXCEPT ![p].step = "sent"]
  /\ UNCHANGED <<row, issued, patch, poll, agent, printer>>

PushFails(p) ==
  /\ push[p] # Idle
  /\ push[p].step = "claimed"
  /\ push' = [push EXCEPT ![p].step = "release"]
  /\ UNCHANGED <<row, issued, patch, poll, agent, printer>>

(* Evidence that does not land for this token falls back to the release.   *)
MarkDelivered(p) ==
  /\ push[p] # Idle
  /\ push[p].step = "sent"
  /\ LET d == push[p] IN
       \/ /\ LiveClaim(d.job, d.token)
          /\ row' = [row EXCEPT ![d.job].evidence = Stamped(@), ![d.job].age = 0]
          /\ push' = [push EXCEPT ![p] = Idle]
       \/ /\ ~LiveClaim(d.job, d.token)
          /\ push' = [push EXCEPT ![p].step = "release"]
          /\ UNCHANGED row
  /\ UNCHANGED <<issued, patch, poll, agent, printer>>

(* The requeue and the give-up statement of a release select disjoint rows *)
(* and attempts never changes under one token, so the pair is one step.    *)
ReleaseUndelivered(p) ==
  /\ push[p] # Idle
  /\ push[p].step = "release"
  /\ LET j == push[p].job
         held == /\ row[j].status = "claimed"
                 /\ row[j].token = push[p].token
                 /\ row[j].evidence = "none"
     IN \/ /\ held
           /\ row[j].attempts < MaxDelivery
           /\ row' = [row EXCEPT ![j].status = "queued", ![j].token = 0,
                                 ![j].error = "plain", ![j].age = 0]
        \/ /\ held
           /\ row[j].attempts >= MaxDelivery
           /\ row' = [row EXCEPT ![j].status = "failed", ![j].error = "plain", ![j].age = 0]
        \/ /\ ~held
           /\ UNCHANGED row
  /\ push' = [push EXCEPT ![p] = Idle]
  /\ UNCHANGED <<issued, patch, poll, agent, printer>>

RecordAck(j, t) ==
  /\ LiveClaim(j, t)
  /\ row' = [row EXCEPT ![j].evidence = "acked", ![j].age = 0]
  /\ UNCHANGED <<issued, patch, push, poll, agent, printer>>

(* The heartbeat's keep-alive for one (jobId, claimToken) pair.            *)
KeepAlive(j, t) ==
  /\ LiveClaim(j, t)
  /\ row' = [row EXCEPT ![j].age = 0]
  /\ UNCHANGED <<issued, patch, push, poll, agent, printer>>

-----------------------------------------------------------------------------
(* PATCH /api/agent/jobs: an unlocked read, then one fenced UPDATE *)

PatchAdmits(r, want, t) ==
  IF want = "expired" THEN TRUE
  ELSE /\ r.token # 0 => t = r.token
       /\ \/ CanTransition(r.status, want)
          \/ want = "success" /\ LateSuccessAllowed(r.status, r.error, r.age)
          \/ want = "success" /\ ExpiredLateSuccessAllowed(r.status, r.ttl)

(* The error text the UPDATE will write, fixed by what the read saw.       *)
PatchError(r, want, error) ==
  CASE want = "expired" ->
         IF r.status = "printing" THEN "JOB_EXPIRED_DURING_PRINT"
         ELSE IF r.status = "claimed" /\ r.evidence # "none"
              THEN "UNKNOWN_PARTIAL_DELIVERY" ELSE "none"
    [] want = "queued" -> "plain"
    [] want = "success" /\ r.status = "failed"  -> "LATE_SUCCESS"
    [] want = "success" /\ r.status = "expired" -> "PRINTED_POST_EXPIRATION"
    [] OTHER -> error

PatchRead(h, j, want, t, error) ==
  /\ patch[h] = Idle
  /\ agent # "disabled"
  /\ PatchAdmits(row[j], want, t)
  /\ patch' = [patch EXCEPT ![h] =
                 [job |-> j, expect |-> row[j].status, to |-> want, token |-> t,
                  error |-> PatchError(row[j], want, error)]]
  /\ UNCHANGED <<row, issued, push, poll, agent, printer>>

(* Slip: the write is fenced on the status it read, not on the token. *)
FenceOnStatus(w) == row[w.job].status = w.expect

FenceHolds(w) ==
  /\ row[w.job].status = w.expect
  /\ row[w.job].token = w.token
  /\ w.to = "expired" => row[w.job].ttl # "live"

(* Slip: the evidence of the attempt handed back stays on the row. *)
HandbackKeepsEvidence(r, w) ==
  [r EXCEPT !.status = "queued", !.token = 0, !.error = w.error,
            !.attempts = IF @ > 0 THEN @ - 1 ELSE 0, !.retries = @ + 1, !.age = 0]

(* Slip: the delivery attempt is refunded twice. *)
HandbackRefundsTwice(r, w) ==
  [r EXCEPT !.status = "queued", !.token = 0, !.evidence = "none", !.error = w.error,
            !.attempts = @ - 2, !.retries = @ + 1, !.age = 0]

Handback(r, w) ==
  [r EXCEPT !.status = "queued", !.token = 0, !.evidence = "none", !.error = w.error,
            !.attempts = IF @ > 0 THEN @ - 1 ELSE 0, !.retries = @ + 1, !.age = 0]

Reported(r, w) ==
  [r EXCEPT !.status = w.to, !.error = w.error, !.age = 0,
            !.evidence = IF w.to = "expired" /\ w.expect \notin {"claimed", "printing"}
                         THEN @ ELSE Stamped(@)]

PatchWrite(h) ==
  /\ patch[h] # Idle
  /\ LET w == patch[h] IN
       \/ /\ FenceHolds(w)
          /\ row' = [row EXCEPT ![w.job] =
                       IF w.to = "queued" THEN Handback(@, w) ELSE Reported(@, w)]
       \/ /\ ~FenceHolds(w)
          /\ UNCHANGED row
  /\ patch' = [patch EXCEPT ![h] = Idle]
  /\ UNCHANGED <<issued, push, poll, agent, printer>>

-----------------------------------------------------------------------------
(* sweepPrintJobs.  Its five UPDATEs run in order but not in a transaction, *)
(* in every Gateway process, with arbitrary pauses between them: each may   *)
(* therefore run at any time, and each changes every row it selects.        *)

(* Slip: only rows never handed out expire. *)
SweepExpireQueued ==
  LET due(r) == r.status = "queued" /\ r.ttl # "live"
  IN  /\ \E j \in Jobs : due(row[j])
      /\ row' = [j \in Jobs |-> IF due(row[j]) THEN [row[j] EXCEPT !.status = "expired"]
                               ELSE row[j]]
      /\ UNCHANGED <<issued, patch, push, poll, agent, printer>>

(* Slip: a printing row expires without a marker. *)
SweepExpireUnmarked ==
  LET due(r) == r.status \notin TerminalStatuses /\ r.ttl # "live"
  IN  /\ \E j \in Jobs : due(row[j])
      /\ row' = [j \in Jobs |->
                   IF due(row[j])
                   THEN [row[j] EXCEPT !.status = "expired", !.error = "none", !.age = 0]
                   ELSE row[j]]
      /\ UNCHANGED <<issued, patch, push, poll, agent, printer>>

SweepExpire ==
  LET due(r) == r.status \notin TerminalStatuses /\ r.ttl # "live"
      error(r) == IF r.status = "printing" THEN "JOB_EXPIRED_DURING_PRINT"
                  ELSE IF r.status = "claimed" /\ r.evidence # "none"
                       THEN "UNKNOWN_PARTIAL_DELIVERY" ELSE "none"
  IN  /\ \E j \in Jobs : due(row[j])
      /\ row' = [j \in Jobs |->
                   IF due(row[j])
                   THEN [row[j] EXCEPT !.status = "expired", !.error = error(row[j]), !.age = 0]
                   ELSE row[j]]
      /\ UNCHANGED <<issued, patch, push, poll, agent, printer>>

(* Slip: a stale claim is requeued whether or not it was delivered. *)
SweepRequeueDelivered ==
  LET due(r) == /\ r.status = "claimed" /\ ClaimLeaseOver(r.age)
                /\ r.retries < MaxRetries /\ r.ttl = "live"
  IN  /\ \E j \in Jobs : due(row[j])
      /\ row' = [j \in Jobs |->
                   IF due(row[j])
                   THEN [row[j] EXCEPT !.status = "queued", !.token = 0, !.evidence = "none",
                                       !.retries = @ + 1, !.age = 0]
                   ELSE row[j]]
      /\ UNCHANGED <<issued, patch, push, poll, agent, printer>>

SweepRequeue ==
  LET due(r) == /\ r.status = "claimed" /\ r.evidence = "none" /\ ClaimLeaseOver(r.age)
                /\ r.retries < MaxRetries /\ r.ttl = "live"
  IN  /\ \E j \in Jobs : due(row[j])
      /\ row' = [j \in Jobs |->
                   IF due(row[j])
                   THEN [row[j] EXCEPT !.status = "queued", !.token = 0,
                                       !.retries = @ + 1, !.age = 0]
                   ELSE row[j]]
      /\ UNCHANGED <<issued, patch, push, poll, agent, printer>>

SweepSilent ==
  LET due(r) == r.status = "claimed" /\ r.evidence # "none" /\ ClaimLeaseOver(r.age)
  IN  /\ \E j \in Jobs : due(row[j])
      /\ row' = [j \in Jobs |->
                   IF due(row[j])
                   THEN [row[j] EXCEPT !.status = "failed", !.age = 0,
                                       !.error = "UNKNOWN_PARTIAL_DELIVERY"]
                   ELSE row[j]]
      /\ UNCHANGED <<issued, patch, push, poll, agent, printer>>

SweepPrinting ==
  LET due(r) == r.status = "printing" /\ PrintingLeaseOver(r.age)
      error(r) == IF r.ttl # "live" THEN "JOB_EXPIRED_DURING_PRINT"
                  ELSE "AGENT_EXECUTION_TIMEOUT"
  IN  /\ \E j \in Jobs : due(row[j])
      /\ row' = [j \in Jobs |->
                   IF due(row[j])
                   THEN [row[j] EXCEPT !.status = "failed", !.error = error(row[j]), !.age = 0]
                   ELSE row[j]]
      /\ UNCHANGED <<issued, patch, push, poll, agent, printer>>

SweepExhausted ==
  LET due(r) == /\ r.status = "claimed" /\ r.evidence = "none" /\ ClaimLeaseOver(r.age)
                /\ r.retries >= MaxRetries
  IN  /\ \E j \in Jobs : due(row[j])
      /\ row' = [j \in Jobs |->
                   IF due(row[j])
                   THEN [row[j] EXCEPT !.status = "failed", !.error = "plain", !.age = 0]
                   ELSE row[j]]
      /\ UNCHANGED <<issued, patch, push, poll, agent, printer>>

Sweep == SweepExpire \/ SweepRequeue \/ SweepSilent \/ SweepPrinting \/ SweepExhausted

-----------------------------------------------------------------------------
(* Surroundings *)

(* A lease window passes.  Only these statuses have their age read.        *)
TimePasses(j) ==
  /\ row[j].status \in {"claimed", "printing", "failed"}
  /\ row[j].age < 3
  /\ row' = [row EXCEPT ![j].age = @ + 1]
  /\ UNCHANGED <<issued, patch, push, poll, agent, printer>>

TtlPasses(j) ==
  /\ row[j].ttl # "over"
  /\ row' = [row EXCEPT ![j].ttl = IF @ = "live" THEN "grace" ELSE "over"]
  /\ UNCHANGED <<issued, patch, push, poll, agent, printer>>

(* Heartbeats, closed sockets and operators change the agents row.         *)
AgentPresence(s) ==
  /\ s \in {"online", "offline", "disabled"} \ {agent}
  /\ agent' = s
  /\ UNCHANGED <<row, issued, patch, push, poll, printer>>

PrinterPresence(p) ==
  /\ printer' = [printer EXCEPT ![p] = IF @ = "online" THEN "offline" ELSE "online"]
  /\ UNCHANGED <<row, issued, patch, push, poll, agent>>

(* The Gateway process dies: what its handlers remembered is gone, and its *)
(* open transactions are rolled back.                                      *)
GatewayRestart ==
  /\ \/ \E h \in Handlers : patch[h] # Idle
     \/ \E p \in Pushers : push[p] # Idle
     \/ poll # {}
  /\ patch' = [h \in Handlers |-> Idle]
  /\ push' = [p \in Pushers |-> Idle]
  /\ poll' = {}
  /\ UNCHANGED <<row, issued, agent, printer>>
-----------------------------------------------------------------------------
(* Whatever an agent may report: any status, any token ever issued or none. *)
AgentErrors == {"none", "plain", "AGENT_RESTART_DURING_PRINT", "UNKNOWN_PARTIAL_DELIVERY"}

AnyReport ==
  \E h \in Handlers, j \in Jobs, want \in Statuses, error \in AgentErrors :
    \E t \in 0 .. issued[j] : PatchRead(h, j, want, t, error)

Delivering ==
  \E p \in Pushers :
    \/ \E j \in Jobs : WsClaim(p, j)
    \/ PushSend(p)
    \/ PushFails(p)
    \/ MarkDelivered(p)
    \/ ReleaseUndelivered(p)

Surroundings ==
  \/ \E j \in Jobs : TimePasses(j) \/ TtlPasses(j)
  \/ \E s \in {"online", "offline", "disabled"} : AgentPresence(s)
  \/ \E p \in Printers : PrinterPresence(p)
  \/ GatewayRestart

GatewayNext ==
  \/ Delivering
  \/ \E S \in SUBSET Jobs : PollSnapshot(S) \/ PollClaim(S)
  \/ \E j \in Jobs : \E t \in 1 .. issued[j] : RecordAck(j, t) \/ KeepAlive(j, t)
  \/ AnyReport
  \/ \E h \in Handlers : PatchWrite(h)
  \/ Sweep
  \/ Surroundings

GatewaySpec == GatewayInit /\ [][GatewayNext]_gatewayVars

(* The sweep timer keeps firing in server.ts and time does pass.           *)
GatewayFairness ==
  /\ WF_gatewayVars(SweepExpire)
  /\ \A j \in Jobs : WF_gatewayVars(TtlPasses(j))

FairGatewaySpec == GatewaySpec /\ GatewayFairness
-----------------------------------------------------------------------------
(* Every variable has its type. *)
GatewayTypeOK ==
  /\ row \in [Jobs -> Row]
  /\ issued \in [Jobs -> Nat]
  /\ patch \in [Handlers -> FencedWrite \cup {Idle}]
  /\ push \in [Pushers -> Delivery \cup {Idle}]
  /\ poll \subseteq Jobs
  /\ agent \in {"online", "offline", "disabled"}
  /\ printer \in [Printers -> {"online", "offline"}]

(* A row handed back to the queue carries nothing of the attempt it left:   *)
(* no token a late report could match, no evidence that would make the next *)
(* attempt look delivered (the requeues of the sweep, of the release and of *)
(* the rejection each clear it on their own).                               *)
QueuedIsClean ==
  \A j \in Jobs : row[j].status = "queued" => row[j].token = 0 /\ row[j].evidence = "none"

(* At most one attempt of a job is alive: a row names the newest token or   *)
(* none, a live claim names one, and no delivery holds a token from the     *)
(* future.                                                                  *)
OneLiveAttempt ==
  /\ \A j \in Jobs :
       /\ row[j].token \in {0, issued[j]}
       /\ row[j].status \in {"claimed", "printing"} => row[j].token # 0
  /\ \A p \in Pushers : push[p] # Idle => push[p].token \in 1 .. issued[push[p].job]

(* The two counters bound how often one job is ever handed to an agent,     *)
(* although a rejection gives its delivery attempt back and a sweep or a    *)
(* stale poll does not: no claim/reject loop runs for ever.                 *)
ClaimBudget ==
  \A j \in Jobs :
    /\ row[j].attempts <= MaxDelivery
    /\ row[j].retries <= MaxRetries + 1
    /\ issued[j] <= row[j].attempts + row[j].retries

(* The number of live jobs in an agent's hands never exceeds the ceiling,   *)
(* "a true invariant, not a best-effort pre-check" (job-delivery.ts).       *)
InFlightCeiling ==
  Cardinality({j \in Jobs : /\ row[j].status \in {"claimed", "printing"}
                            /\ row[j].ttl = "live"}) <= MaxInFlight

ReachedAgent(r) == r.status = "printing" \/ (r.status = "claimed" /\ r.evidence # "none")

(* No poll chooses a row that ended, or whose job reached an agent          *)
(* (evidence, or a printing report); such a row is given a new token only   *)
(* by a poll that chose it before it came to that, and goes back to the     *)
(* queue only because the newest attempt hands it back.                     *)
OnlyHandbackRedelivers ==
  \A j \in Jobs : ReachedAgent(row[j]) \/ row[j].status \in TerminalStatuses =>
      /\ j \in poll' => j \in poll
      /\ issued'[j] # issued[j] => j \in poll
      /\ row'[j].status = "queued" =>
           /\ row[j].status = "claimed"
           /\ \E h \in Handlers : /\ patch[h] # Idle
                                  /\ patch[h].job = j
                                  /\ patch[h].to = "queued"
                                  /\ patch[h].token = issued[j]

(* Neither the sweep, nor a push, nor a release takes a job from an agent   *)
(* that gave a sign of having it, or reopens one that ended; a poll does so *)
(* only with a row it had chosen before.                                    *)
EvidencedJobIsNotRedelivered == [][OnlyHandbackRedelivers]_gatewayVars

(* "A claim whose lease expired AFTER delivery is deliberately absent here  *)
(* [...] because re-delivering could print a document twice" (route.ts),    *)
(* "the gateway never auto-redelivers a DELIVERED-but-silent claim"         *)
(* (WEBSOCKET_PROTOCOL.md): nothing gives a new token to a row whose job    *)
(* reached an agent.                                                        *)
NeverRedelivered ==
  [][\A j \in Jobs : ReachedAgent(row[j]) => issued'[j] = issued[j]]_gatewayVars

(* A status handler whose UPDATE changes something acts for the newest      *)
(* attempt, or for a row that names none.                                   *)
OnlyNewestMoves ==
  \A h \in Handlers :
    patch[h] # Idle /\ patch'[h] = Idle /\ row' # row
      => patch[h].token \in {issued[patch[h].job], 0}

(* A report moves a row only for the newest attempt, even when the claim    *)
(* was taken over between the handler's read and its write.                 *)
NewestAttemptReports == [][OnlyNewestMoves]_gatewayVars

(* Every job comes to a terminal status and stays in one, whatever the      *)
(* agent does: the TTL passes, no poll chooses the row any more, and the    *)
(* sweep expires what is still open or was opened again.                    *)
EveryJobEnds == \A j \in Jobs : <>[](row[j].status \in TerminalStatuses)
=============================================================================
