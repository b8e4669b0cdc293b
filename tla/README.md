# A verification of print delivery, from the till to the paper

The repository is a print service. Business systems (Odoo, the manager's console, an HTTP
API) submit documents to a **Gateway** (Next.js + PostgreSQL), which hands them as *jobs*
to a Windows **agent** (Go + SQLite) that feeds the printer. Documents are receipts,
labels and kitchen tickets, so the questions that matter are: can a document print
twice, can the system say "printed" of one that never was, can it say "not printed" of
one that was, does every job come to an end, and do those who watch get to see it.

This directory holds TLA+ models of the code that answers them, the TLC instances that
check the models, and proofs checked by TLAPS. Definitions carry the names of the code
where TLA+ allows it; `PROJECT.json` names the source lines of every one of them.

    tlc -workers 2 -config gateway_rows.cfg MCGatewayJobs
    tlapm GatewayJobs_proofs.tla

## 1. The system and its parts

| part | state | operations | where |
|---|---|---|---|
| job state machine | - | transition table, late-success rules, physical outcome | `lib/job-status.ts` |
| job table | `print_jobs` rows | WebSocket claim, poll claim, release, evidence, PATCH, sweep | `lib/job-delivery.ts`, `job-fencing.ts`, `job-maintenance.ts`, `api/agent/jobs/route.ts` |
| WebSocket push | registry of open sockets, message budgets, pushes under way | upgrade, eviction, push, ack, ping, close | `server/ws.ts` |
| notification listener | a pool client, a reconnect timer | LISTEN, reconnect, stop | `server/ws.ts` |
| presence | `agents` and `printers` rows | heartbeat, keep-alive of claims | `api/agent/heartbeat/route.ts` |
| agent lifecycle | agent status, pairing code, secret | pair, register, disable, retire, delete | `lib/agent-lifecycle.ts`, `api/agent/register`, `actions.ts` |
| discovery | sessions, devices | start, poll, report, cancel, verify, provision | `api/*/discovery*` |
| rate limits | failure counters with windows and locks | inspect, record, clear, upsert | `lib/auth-rate-limit.ts`, `ws-rate-limit` |
| managers | users, session tokens | sign in, validate, revoke, change roles | `lib/manager-*.ts` |
| body guard | one byte budget per process | reserve, release | `server/request-guard.ts` |
| admission | idempotency keys, ceilings, API keys | create, batch, retry, reprint, clean up | `lib/print-job-service.ts`, `entitlements.ts`, `actions.ts` |
| capability rules | - | what a printer accepts, what a page says | `lib/routing.ts`, `printers.ts`, `agent/internal/printer/capability.go` |
| agent executor | in-flight map, slots, printer locks | dispatch, process, report, shut down, recover | `agent/internal/agent/agent.go` |
| agent ledger | SQLite rows | BeginPrint, AbortPrint, outcomes, MarkInterrupted, cleanup | `agent/internal/queue/*.go` |
| transports | sockets, spoolers | PrintDocument | `agent/internal/printer/*.go` |
| Odoo outbox | `print.job` records | submit, fail over, back off, sync, retry, reprint | `odoo_addons/print_gateway/models/print_job.py` |
| Odoo web clients | a print action in a browser | take over or leave to the browser | `report_interceptor.js`, `pos_*_router.js`, `binding.py`, `print_router.py` |
| web console | what a dashboard page remembers | poll, filter, inspect, pair | `app/dashboard/dashboard-client.tsx` |
| desktop manager | agent process, ownership record | start, stop, restart, show | `src-tauri/src/*.rs`, `desktop/` |

**How they interact.** Odoo's clients call the outbox; the outbox (and API callers, and
the console) post to admission, which inserts a row *queued* under the tenant's advisory
lock. It is claimed by a push (one transaction under the agent's advisory lock, then the
envelope on the socket, then the delivery evidence, or a release) or by the agent's poll
(one statement, which chooses its rows in a snapshot and locks and updates them
afterwards). A claim writes a fresh `claim_token`, and every later write of that attempt
is fenced on it. The agent registers the job, waits for a slot, checks its ledger,
commits `BeginPrint`, reports *printing*, sends the bytes, writes the outcome to the
ledger and reports *success* or *failed*. The sweep gives up what is stale: undelivered
claims go back to the queue; silent delivered ones, silent printing ones and rows past
their TTL become terminal, with a marker where the paper is in doubt. The outbox reads
the outcome back and decides whether a document may be submitted again. Operators watch
through the console and the desktop manager, which read by polling and show what their
last answers said.

**What is hard.** Nothing here is one transaction from end to end. The PATCH handler
awaits between its read and its UPDATE, a push between claim, send and evidence, a poll
claims what a row has become since it was chosen, a
lifecycle change between the row it judged and the row it writes; the sweep runs in
every Gateway process; HTTP answers get lost, and the outbox must not take silence for
refusal; both processes crash; deliveries of two claims can pass each other; a socket's
close event arrives after its successor has registered; the listener's client breaks
while the next is being set up; the page's answers overtake each other. `PROJECT.json`
lists these hazards at their lines, with the property that watches each, or the reason
there is none.

**What makes each part correct.**

- *Job table*: one live attempt per row; a requeued row carries nothing of the attempt it
  left; a job that reached the agent is not redelivered behind its back, but by a poll
  that had chosen it before; only the newest attempt's reports count; claims are bounded;
  the in-flight ceiling; every job ends.
- *Executor and ledger*: one document per job at most, whatever the network and crashes
  do, and a ledger that knows it; slots are given back.
- *Both together*: the Gateway knows while bytes may flow; "printed" and "not printed"
  are never said wrongly (`PrintPromise`).
- *Control plane*: a retired or disabled agent has no usable credential; a pairing code
  buys one secret; a socket that is open can be reached and its agent's budget is not
  refreshed by reconnecting; no pool client is lost; a failure is not forgotten while its
  window lasts, a lock admits nobody and ends early only by an attempt let in before it; a
  device becomes one printer; a manager acts with the authority he has now; push delivery
  comes back.
- *Print desk*: ceilings hold under concurrent creation, batches and retries; the same
  key never gets two answers; a document is submitted again only when it was not and
  will not be printed; it is printed by the browser or the Gateway, not both; the body
  budget is exact; the outbox, the console and the desktop window all catch up.
- *Rules written twice* (TypeScript and Go, page and server): they agree.

## 2. The modules

### Delivery

**`JobStatus`** - the pure rules: statuses, error markers, `AllowedTransitions`, the two
late-success rules, `PhysicalOutcome`. Clocks are reduced to the windows the rules
compare with: `age` of `updated_at` (lease, printing lease, 24 h) and `ttl` around
`expires_at` (live, 5-minute grace, over).

**`GatewayJobs`** (extends `JobStatus`) - the rows of one agent with *an arbitrary
agent*: any status with any token ever issued may be reported at any time. What holds
here holds whatever the agent does.

- `row[j]` is the `print_jobs` row. `token = 0` is SQL NULL, the *n*-th
  `gen_random_uuid()` of a job is *n*, and `issued[j]` counts them. `evidence` merges
  `delivered_at` and `acked_at`, which are always tested together. One agent is enough:
  every statement filters on `agent_id`.
- `patch[h]` is a PATCH handler between its read (`PatchRead`: checks, and the error
  text that will be written) and its fenced UPDATE (`PatchWrite`). Requests the handler
  refuses before writing (400, 404, 409) change nothing and are not steps here.
- `push[p]` is a `claimAndPushJobToAgent` call: `WsClaim`, `PushSend` or `PushFails`,
  `MarkDelivered` (which falls back to a release when the evidence does not land),
  `ReleaseUndelivered`. Its two statements are one step: they select disjoint rows and
  `delivery_attempts` never changes under one token.
- `poll` are the rows chosen by the poll that holds the agent's advisory lock.
  `PollSnapshot(S)` takes the lock, counts and chooses candidates; `PollClaim(S)` locks,
  claims and commits. In between a push may write evidence, a report or the sweep may move
  the row: the statement locks the newest version and looks again only at the id, the agent
  and the printer (`route.ts:106-132`), so the row is claimed whatever its status, and
  `delivered_at` stays. `SKIP LOCKED` and the order leave any subset of the rows possible. A
  push's claim needs the lock too and waits. The count is a statement before the one that
  chooses; they are read in one step here, and under the lock only a change of presence
  between them could raise the count.
- The sweep's five UPDATEs are five actions, each enabled at any time: they are not one
  transaction, and several Gateway processes may be at different statements.
- `AgentPresence`, `PrinterPresence`: heartbeats, closed sockets and operators.
  `GatewayRestart`: what handlers and pushers remembered is gone.

**`PrintProtocol`** (extends `GatewayJobs`) - the Gateway composed with the real agent.
Messages (`frames`, `polled`, `acks`, `reports`) are sets from which a message may be
taken arbitrarily late; one never taken is lost. `phase[j]` is where the goroutine of a
job is, `held[j]` the adopted claim token (`inFlightTokens`), `task[j]` the token of the
envelope it was started with, `fresh[j]` the freshness window, `asked` and `reply` the
HTTP call it waits on, `ledger[j]` the SQLite row, `paper[j]` how many documents were,
or may have been, put on paper. `ReportAndWait` is `updateJobStatus`; the `Process...`
actions are the ways through `processJob` in their order (slot and checks, then the
printer's lock, where the TTL is not looked at again); `PrintingAccepted`,
`PrintingRefused` and `PrintingUnanswered` its three answers, `ServerError` a 5xx, which
the agent takes for a refusal whether or not the row was written; `Restart` is
`recoverInterruptedJobs`. `Faults` selects what may go wrong, so that a run or a theorem
says which faults a property survives.

A poll is `StartPoll` and `AnswerPoll`; `polling` says whether the process that asked still
waits. The gap of the poll is a fault of its own, `"snapshot"`: without it `AnswerPoll`
claims only rows that are still candidates. Whatever is shown without it is shown of a
poll whose rows do not change while it runs.

The age of a row and the agent's freshness window advance independently, which
over-approximates the two clocks. The re-checks of the ledger under the printer's lock
find what the first look found (only the job's own goroutine writes its row, and the
cleanup command touches only final ones), except after a failed first look, where
`BeginPrint` refuses and the agent re-reports exactly as `ProcessKnownUnknown` does.

**`PrintPromise`** - the abstract specification, in terms of the outcome told to the
submitter and the sheets on the printer only: at most one sheet; "printed" only with a
sheet, and final; "not printed" only when nothing was and nothing will be printed;
otherwise "unknown". Several jobs may move in one step. `PrintProtocol!PromiseKept`
instantiates it with the derived physical outcome of the row and with `paper`.

### Control plane

**`ControlPlane`** composes, for one tenant: **`Lifecycle`** (which transitions are
legal), **`Agents`** (the `agents` and `printers` rows and the requests that change
them), **`Sockets`** (the registry of one Gateway process), **`Listener`** (its
notification client), **`RateLimits`** (the failure counters), **`Discovery`** and
**`ManagerAccess`**.

- `work[w]` is what a request remembers between the row it read and the row it writes:
  each SQL statement or transaction is one step, and the requests of two workers
  interleave at every await. `exchanged` keeps, for each secret issued, the code that
  bought it: history, for the properties.
- `sets` are the JavaScript `Set` objects of the registry: a close handler captured the
  one its socket was added to, which may no longer be the one in the map. `bucket` is
  the per-agent message budget, `handled` how many messages it let through.
- `Listener` cuts `connect()` at each await; `held` are the clients out of the pool,
  `broken` counts the events a client has emitted ('error', then 'end').
- The clock of `RateLimits` moves only in workloads with "time"; locks of 1 and 4 ticks,
  shorter and longer than the window of 2, so that a late failure meets a lock whose
  window is over.

**`MCControlPlane`** names the workloads: sets of request kinds, with a number of
requests and the agents and printers there are at the start. The workload is chosen in
`Init`, so one run explores each combination of components that share state without
multiplying those that do not.

### Print desk

**`PrintDesk`** composes: **`PrintRules`** (payload table, virtual printers,
availability, and the words used for an outcome), **`Admission`** (requests cut at their
awaits, keys, ceilings, cleanup), **`Outbox`** (Odoo's operations; a click's and the
cron's transactions with their different locks), **`PosPrinting`** (the clients of the
outbox in the browser), **`Console`** (the dashboard page), **`RequestGuard`** (the body
budget) and **`Workstation`** (the agent's process under the desktop manager).

- `Admission` keeps `jobs[i]`, the *i*-th row ever inserted, with its status and marker
  only: what may happen to a row between admission and its end is `Deliver` and `Expire`,
  the moves of one row under `PrintPromise`. A row of unknown outcome may still become a
  success, or lose its marker to a report that it expired; one that was "not printed"
  stays so. `PromiseKept` is proved of the protocol with crashes and changing presence.
  Where the agent's calls are lost it fails (`honesty_under_loss`), so what the desk's
  properties say of a document's paper is said of deliveries that keep the promise.
- Idempotency keys are of kinds that never meet: the UUIDs of Odoo's operations, those of
  other callers of the API (`ApiIdem`), and the keys derived from a job for its reprints.
- `Outbox` sees the Gateway through answers: a 2xx, a refusal, silence, a 5xx or a
  broken body behind which the job may or may not exist. Odoo's transactions are
  external: a write to a row that changed since the transaction began is refused.
- `unsure` (operations whose record was lost or overwritten) and `overlapped`
  (workstation commands that ran at once) are history: a property that excludes these
  cases says so, and section 4 says what happens in them.
- As in `ControlPlane`, workloads select what arrives.

### Pure rules

**`Inventory`** (capability lists as the agent's configuration writes them and the
heartbeat cleans them), **`JobViews`** (filters, tabs, timeline and words of a job in the
desktop and the console) and **`ConsoleOffers`** (which buttons are offered, which the
server accepts) are operators without state; what is to be said of them is proved for
every input in `Rules_proofs`.

### Instances and proofs

`MC...` modules hold the constants of the instances. `GatewayJobs_proofs`,
`PrintProtocol_proofs`, `Honesty_proofs`, `Rules_proofs`, `Tables_proofs`,
`Process_proofs`, `Desk_proofs` and `Outbox_proofs` hold the theorems of section 6.
Definitions marked *Slip* are plausible mistakes (a dropped guard, a missing reset, a
swapped order); replacing the definition they stand for by the slip must break the
property that `PROJECT.json` names beside it. They are part of no specification.

## 3. The runs

| run | instance | checks |
|---|---|---|
| `gateway_rows` | 1 job, 1 handler, 1 pusher, arbitrary agent | types, clean requeues, one live attempt, bounded claims, no redelivery but by a poll that chose the row before, fenced reports, every job ends |
| `protocol_crash` | 1 job, crashes and shutdowns, answered calls | honest outcomes, the promise is kept, slots come back |
| `protocol_faults` | the same with lost answers, a dying Gateway and rows that change under a poll | success means paper, at most one paper, the ledger knows |
| `protocol_reprint` | `reprint_after_crash` on, failing ledger, cleanup, changing presence, rows that change under a poll | paper may repeat, yet never twice for one claim; dispatch is known to the Gateway, but where such a poll overtook it |
| `protocol_two_jobs` | 2 jobs, one backlog place and one place in flight | the ceiling, when the agent rejects for want of room |
| `honesty_under_loss` | lost answers | **violated**: section 4 |
| `terminal_is_final` | no fault | **violated**: section 4 |
| `stale_poll` | rows that change under a poll | **violated**: section 4 |
| `control_plane` | 12 workloads: pairing, lifecycles, printers, heartbeats, connections with lost peers, messages and time, notifications, discovery, sign-ins | credentials end with activity, one secret per code, open sockets are reachable, budgets survive reconnects, no leaked client, counted failures, locks that admit nobody, one printer per device, current authority, printers keep their owner, the listener recovers, dead sockets are reaped |
| `retired_is_terminal` | one agent, its lifecycle and printers | **violated**: section 4 |
| `print_desk` | 22 workloads: API and manager requests, deliveries, expiry, minutes, cleanup, keys, clicks with time-outs, faults and no network, operators, the four clients, the page's three concerns, bodies, workstation commands | live jobs bounded, answers agree, what counts as unprinted is safe to send again, one way out, bodies fit the budget, the running agent is owned, the outbox settles, a lost agent looks lost, the console catches up |
| `stale_payload` | the inspector of the page | **violated**: section 4 |

The instances end: no constraint cuts the state space. `ClaimBudget` bounds the tokens,
every clock stops in its last window, and the message sets range over the issued tokens.
In `gateway_rows` the properties are checked against *any* report, so one job and one
handler already contain overlapping attempts of the job: a handler or pusher keeps
acting for a token that has since been replaced. `control_plane` and `print_desk` turn
deadlock checking off, because a behaviour ends when its workload is used up.

## 4. Where the code and its documentation part

Five runs show a disagreement.

1. **A delivered job can be delivered again** (`stale_poll`). The poll chooses stale claims
   without evidence in its snapshot and looks at neither evidence nor status again when it
   locks them. In the trace a push has sent its envelope, its lease passes, the poll
   chooses the row, `markJobDelivered` lands, and the poll claims the delivered row with a
   new token. `route.ts:28-30` says such a claim is "deliberately absent",
   `WEBSOCKET_PROTOCOL.md:132-133` that the Gateway never does it. The agent's in-flight
   map and ledger still keep the paper single (`protocol_faults`), but not the outcome
   honest: with this fault `HonestOutcome` fails too, for a row that was *printing* is
   claimed again, the agent's late reports of the first attempt are fenced off, and the
   TTL ends the row as *expired* without a marker although the paper is out.
2. **A polled job can be printed and called not printed** (`honesty_under_loss`).
   Polled jobs leave no evidence before the first report (`pollJobs` sends no ack).
   When the *printing* report goes unanswered the agent prints on the strength of its
   freshness window; the row is still *claimed* without evidence and the sweep ends it
   as not printed. With answered calls the property holds, and is proved.
3. **A terminal row can move** (`terminal_is_final`). The expired branch of PATCH has no
   terminal check, so a row the sweep has just failed becomes *expired* with a new error
   text; for a terminal row that text is NULL, and an unknown-outcome marker is lost.
4. **A retired printer can come back** (`retired_is_terminal`). Disabling an agent sets
   all its printers to *disabled*, the retired ones too (`agent-lifecycle.ts:70`), and a
   lifecycle judged on a row read before the transaction may be written over a newer one;
   `PRINTERS.md:261` says retirement is terminal.
5. **The inspector can show another job's payload** (`stale_payload`). The effect looks at
   `cancelled` before it awaits the body (`dashboard-client.tsx:209`) and not again before
   it sets the payload (215), so selecting another job while the body is being parsed
   shows the first job's payload; the comment beside it (222-223) describes the guard.

Met while modelling and not given a run of their own.

*Delivery.* The in-flight ceiling counts only jobs whose printer is online: jobs claimed
for a printer that goes offline leave the count, others are claimed, and when it is back
there are more live jobs than the ceiling, which `job-delivery.ts:94-96` calls "a true
invariant, not a best-effort pre-check" (`CeilingWhileOnline` has it with constant
presence). `rejectJob` says it hands a job back "WITHOUT incrementing the retry budget"
while the Gateway charges a retry; the token adopted from duplicates is the last to
arrive, not the newest; `BeginPrint` records the token of the envelope, not the adopted
one; "exactly one more physical attempt" of `reprint_after_crash` is per crash, not per
job; an agent that prints on its freshness window may overlap a requeue
(`agent.go:927-931` says it cannot).

*Control plane.* `max_printers` is not looked at by heartbeat inserts and provisioning,
and can be exceeded after an un-retire; a socket can be tracked after the teardown of
its agent (the upgrade was validated before); the status UPDATE of a heartbeat has no
lifecycle guard and may leave a disabled agent "online"; a cancelled discovery session
can be overwritten by a report; provisioning two devices with the same endpoint at the
same time can make two printers; a lock that outlasts its window is shortened or
cleared by a failure recorded after the window ended (`auth-rate-limit.ts:173-177`;
`LockoutHolds` names the case); the LISTEN client is not released if the
server closes before the promise of the listener resolves.

*Admission.* A retry under a rotated key creates a second job, and status reads by the
new key answer 404; two clicks on "reprint" compute two keys and make two reprints
(`actions.ts:182-190` says otherwise), and after a cleanup the derived key may equal an
old one; the cleanup deletes by id what it selected by status; requeues may exceed the
queued ceiling (the total of live jobs stays bounded).

*Odoo.* "Definitely failed" (docstring at `print_job.py:1100`) also follows five hidden
answers behind which a job exists; races of a click with the cron drop a success record
or write *failed* over a row the cron advanced (454-471); a forced reprint whose process
dies after the call leaves its derived key to the next forced reprint, which then gets
the first one's job, so that an operation may be called unprinted whose job is that of
another (`UnprintedIsSafe` leaves out operations that share a key with one whose record
was lost); a retry submits before its row
is committed; an operation whose key was revoked never settles (`OutboxSettles` excludes
it); `binding.py:587` says "the document was not sent" also when that is unknown, and
returns no status, so the interceptor's branch for it is never taken; a kitchen ticket
retried with the Gateway switched off prints natively although an operation exists; a
receipt call answered *native* is shown as sent.

*Pages.* A late answer of `refreshData` may replace a newer filter's list (the next poll
heals it); the pairing dialog says "paired" of an agent another manager disabled; the page
takes a `lastSeen` of the future for fresh, the server for stale; "N jobs failed" and the
number on the failed tab count jobs of unknown outcome, which no word or list calls failed
(`UnknownIsCalledUnknown`; `main.tsx:412` against `job-vocabulary.ts:53-54`); retired
printers are offered "Re-enable" and printers of unknown language are badged "ESC/POS"
(`PrinterOffersExceed`); late successes are shown as failures with an offer to resend
(`LateSuccessLooksFailed`, against `job-vocabulary.ts:53-54`); a heartbeat drops a list of
only unknown tokens, so that Gateway and agent disagree about that printer
(`UnknownListsDivide`, against `heartbeat/route.ts:12-15`).

*Desktop.* Start, stop and restart of the tray are not guarded by `busy` and there is no
single-instance lock: overlapping starts leave an agent nobody owns (against
`agent.rs:189-190`; `AgentIsOwned` holds while commands do not overlap); a late `me`
answer after a logout shows the user signed in; a late 401 to an old token clears the
newer one; jobs of the old Gateway may fill the list after a change of configuration.

## 5. Bounds and fairness

*Delivery.*

- `MaxDelivery` 2 (code 5) and `MaxRetries` 1 (code 5): each budget can be exhausted
  *and* left over, so first claim, requeue, takeover, refund and exhaustion all occur.
  `protocol_two_jobs` uses 1 and 1. `MaxInFlight` 1 (code 500): full with one job.
  `MaxBatch` 2: a batch of every job. `MaxPending`, `MaxConcurrent` 1 (code 64, 8): a
  second job meets a full backlog and is rejected; what waiting for a slot or a lock can
  do to a job is already in the runs with one job, since every step may be delayed.
- One PATCH handler serves the requests one after the other in any order; its gap
  between read and write is interleaved with pushes, polls, sweeps and restarts.
- *GatewayFairness*: the sweep timer of `server.ts` keeps firing and the TTL passes.
  Nothing is assumed of the agent. *AgentFairness*: goroutines are scheduled, HTTP calls
  end (the client has a 15 s timeout), `PrintDocument` ends (it has a budget), a request
  that arrived is served. Nothing is assumed of the network's delivery of jobs, of the
  process staying alive or of time, and `SlotIsReleased` needs none of it.

*Control plane.* Two agents, two printers, two workers (every race here is between two
requests), three sockets under a cap of one (a third evicts the second while the first
is still closing), two pool clients (one breaks while the other is set up), one
discovery session, two devices seen at one address, one user and the legacy manager, two
tokens. Each workload brings between two and six requests: enough to pair, disable,
re-pair and retire. *Fairness*: the ping interval fires; a socket whose close was asked
for emits 'close'; the reconnect timer fires; LISTEN on a broken client fails and a
destroyed client ends; of the connections tried for ever some succeed (strong fairness:
the database may break the client each time before it is adopted, but not always).

*Print desk.* Two agents with one printer each, each the other's backup; three documents
(one both printers take, one only the second takes, one neither takes); two API keys;
at most three rows (two requests that race and one more); a queue of one, one place in
flight, two live jobs per plan; two outbox operations with two attempts each and one
fault; one print action of each client; a clock of four units of 60 s around the 90 s of
staleness; two requests of a kind under way in the page; two bodies against a budget of
three units; two workstation threads and two process ids. *Fairness*: a request in the
Gateway is served; a submission goes on to its commit; cron and backoff come back; jobs
end by their TTL (which `EveryJobEnds` shows); the page's timers fire, and of its polls
and queries some are answered (strong fairness: an answer may be overtaken, but not
always); the desktop's status questions are asked and answered.
`OutboxSettles` holds in workloads where jobs expire.

## 6. What is proved

Every theorem is checked by TLAPS for every value of the constants, under the named
assumptions of the modules: types of constants and little more (`JobsAssumption`,
`FaultsAssumption`, `AgentAssumption`, `ListenerAssumption`, `MintAssumption`,
`DiscoveryAssumption`, `SessionAssumption`, `PosAssumption`, `ConsoleAssumption`,
`WorkstationAssumption`, `DeskAssumption`); both counters' limits are positive
(`BudgetAssumption`); an agent may have at least one socket (`SocketsAssumption`); the
table of lock durations is sorted and not empty and there are finitely many requests under
way at once (`LimitsAssumption`); printers are installed only where an agent is paired
(`WorkloadsAssumption`); the ceilings of agent and tenant are positive, each printer has
an agent (`AdmissionAssumption`, with `CeilingAssumption`); an operation has at least one
attempt, and a click is not the cron (`OutboxAssumption`); the bodies under way are
finitely many and of bounded length (`GuardAssumption`).

**The Gateway with any agent** (`GatewayJobs_proofs`; specification
`GatewaySpec`: any number of jobs, printers, handlers and pushers).

| theorem | says |
|---|---|
| `GatewayInvariant` | `[]GatewayInv` |
| `GatewayTypeCorrect` | `[]GatewayTypeOK`: no refund takes a counter below zero |
| `RequeuedRowsAreClean` | `[]QueuedIsClean` |
| `AttemptsAreExclusive` | `[]OneLiveAttempt` |
| `ClaimsAreBounded` | `[]ClaimBudget` |
| `NoRedelivery` | `EvidencedJobIsNotRedelivered`: only a poll that had chosen the row before gives a new token to a job that reached the agent |
| `StaleReportsAreFenced` | `NewestAttemptReports` |
| `CeilingWhileOnline` | `[]InFlightCeiling` while agent and printers stay online |

The invariant is `GatewayInv = TablesInv /\ PollInv`, with `TablesInv = GatewayTypeOK /\
RowsInv /\ PatchInv /\ PushInv`. The checked properties are not inductive as they stand.
`ClaimBudget` fails to survive a hand-back unless a *claimed* row is known to have room
for one more retry, which is so because both claim paths demand `retries < MaxRetries`
before they claim and a takeover adds one. `QueuedIsClean` and `OneLiveAttempt` need to
know what a handler between read and write can hold: an allowed transition (to *queued* or
*printing* only from *claimed*, to *claimed* never), and a token that is not from the
future. With the fence on status and token, `PatchWrite` then preserves the invariant
without looking at what happened during the gap. There is one lemma per action, reduced by
`OneRowStep` and `RowsStep` to the row that changes. `PollInv` says what a row may have
become since a poll chose it: whatever its status, its counters still have room for the
claim that is coming, for no other claim can be made meanwhile (the advisory lock), and
what hands back or requeues only lowers a counter or moves the row out of *claimed*. That
is why the budgets survive the gap. The ceiling's proof counts the live rows together with
those a poll has chosen from the queue: whoever takes the lock counted room, and nothing
else adds one while presence stays as it is.

**The Gateway with its agent** (`PrintProtocol_proofs`; specification `Spec`).

| theorem | says | provided |
|---|---|---|
| `ProtocolTypeCorrect` | `[]TypeOK` | |
| `ProtocolRefinesGateway` | `Spec => GatewaySpec`: this agent is one of the arbitrary ones | |
| `ProtocolKeepsGatewayPromises` | so the budgets, fences and what `NoRedelivery` says hold here | |
| `SuccessIsPaper` | `[]SuccessMeansPaper` | any faults at once |
| `PrintedOnce` | `[]AtMostOnePaper` | no reprinting, ledger works and is not cleaned |
| `LedgerIsEvidence` | `[]LedgerKnowsPaper` | the same |
| `ClaimsPayForPaper` | `[]OnePaperPerClaim`: sheets never outnumber claims | any faults, with reprinting |

`ProtocolInv` adds to the Gateway's invariant that nobody holds a token that was not
issued, which is what makes a step of the composition one of the Gateway's.
`SuccessInv` names everyone who may say "success" (row, handler, report, ledger,
goroutine): each speaks of a job with paper. `PaperInv` follows the ledger: its row is
*printing* from `BeginPrint` to the outcome, across a crash, and only a row that is
neither printing nor settled belongs to a blank document. `ClaimsInv` pays for
each sheet with a token: the sheets of a job, the goroutine that may still print, and the
tokens on their way to the agent together never exceed the tokens issued, and no token
travels twice.

**Honesty** (`Honesty_proofs`), with crashes, shutdowns, arbitrarily late messages and
changing presence.

| theorem | says | provided |
|---|---|---|
| `OutcomesAreHonest` | `[]HonestOutcome`: "not printed" means no paper | no reprinting, `Faults \subseteq {"crash", "presence"}` |
| `PromiseIsKept` | `PromiseKept`: the protocol implements `PrintPromise` | the same |
| `DispatchesAreKnown` | `[]DispatchIsKnown`: while bytes may flow the row is neither queued nor merely claimed, unless a poll that had chosen it overtook the claim | calls are answered and the Gateway lives; any ledger, cleanup, reprinting, rows that change under a poll |

The argument is about the newest token of a job. It travels once (`OnceInv`), so one
goroutine at most acts on it; the Gateway answers *ok* to no other; after that answer the
row is never handed out again; and a report that would make the Gateway say "not printed"
is sent only by a goroutine that will not print, never beside one that may. Each
assumption is needed: lost answers break the theorem (`honesty_under_loss`), so does a
poll that claims a row which ceased to be a candidate (section 4), and a failing ledger
breaks "once". `DispatchesAreKnown` has an invariant of its own (`KnownInv`): where the
agent was told it may print, or prints, the row is *printing* or settled, or a poll gave
it a newer token than the one the goroutine was started with.

**The rules** (`Rules_proofs`), for every printer, payload, row and report.

| theorem | says |
|---|---|
| `TablesAgree` | the Go agent's capability table is the Gateway's |
| `GatewayAgreesWithAgent` | so what the Gateway routes the agent accepts, after both cleaned their lists, |
| `UnknownListsDivide` | except for a list of only unknown tokens |
| `TestPageIsAccepted` | the test page built for a printer is accepted by both, for a printer without a list of its own |
| `GreenAgentIsAvailable`, `OnlinePrinterIsOnline` | what the pages show as available the server takes for available |
| `UnknownIsCalledUnknown` | a job of unknown outcome is worded, listed and counted as such, except in the desktop's number of failed jobs, which includes it |
| `WordsMatchOutcome` | "Failed (not printed)" and "Printed" are said only where the Gateway says so |
| `EndedJobIsListedOnce`, `TabsAgreeWithFilters` | every ended job is in one tab, and the server's filter is the page's |
| `LateSuccessLooksFailed` | except that a late success is worded as a failure |
| `ReprintOffersAreHonest`, `AgentOffersAreLegal` | what the console offers the server accepts, |
| `PrinterOffersExceed` | except for retired printers |

**The control plane** (`Tables_proofs`, `Process_proofs`; specification `Spec` of
`ControlPlane`): any number of agents, printers, codes, devices, sockets, pool clients,
sign-ins and requests under way.

| theorem | says |
|---|---|
| `ControlPlaneTypes` | `[]TypeOK` |
| `TablesAreConsistent` | `[]TablesInv` |
| `CredentialsHold` | `[]CredentialsOnlyWhenActive` |
| `CodesAreSingleUse` | `[]OneSecretPerCode` |
| `OwnersAreKept` | `PrintersKeepTheirOwner` |
| `DevicesProvisionedOnce` | `[]OnePrinterPerDevice` |
| `ClientsAreReturned` | `[]NoLeakedClient` |
| `OpenSocketsAreReachable` | `[]OpenSocketIsReachable` |
| `BudgetsSurvive` | `[]BudgetSurvivesReconnect` |
| `FailuresAreCounted` | `[]EveryFailureCounts` |
| `LockoutsHold` | `LockoutHolds`: a lock admits nobody; only an attempt let in before can end it early |
| `AuthorityStaysCurrent` | `[]AuthorityIsCurrent` |

`TablesInv` is about the rows and the requests that read them some steps ago. A code is in
one place only: in an agent's row, with the request about to write it, or among those
exchanged, which is why two registrations cannot both spend it. A device about to become a
printer is locked by the request that provisions it, and a printer made from a device
belongs to the agent that found it. What a request remembers of a row may be out of date,
and no conjunct says otherwise: the guards in the final statement carry the proof.

`ProcessInv` adds what each part of a process needs, and `PartSteps` shows that a step of
the system is a step of one part or leaves the part alone, so every part is proved by
itself. *Listener*: `connect()`, the reconnect timer and an adopted client exclude one
another, and a client out of the pool is one of theirs. *Sockets*: the `Set` to which an
open socket was added is the one in the map, since a set leaves the map only when it is
empty and still the one there. *Budget*: messages let through plus tokens left never
exceed what was given. *Lockout*: the failures after the lock, with the attempts that
passed the gate before it, are fewer than the workers; and a lock ends no later than its
count says from now on (`LockEnds`), so with a sorted table one failure more never
shortens it, unless the count starts anew. *Sessions*: the row of a session that has
logged out is revoked or deleted.

**The print desk** (`Desk_proofs`, `Outbox_proofs`; specification `Spec` of `PrintDesk`):
any number of requests, API keys, printers, documents, submitters, print actions, bodies
and commands, any ceilings, attempts and workloads.

| theorem | says |
|---|---|
| `DeskTypes` | `[]TypeOK` |
| `CeilingsHold` | `[]LiveJobsBounded` |
| `KeysNameOneJob` | `[]AnswersAgree` |
| `RetriesPrintOnce` | `[]UnprintedIsSafe` |
| `DocumentsLeaveOneWay` | `[]OneWayOut` |
| `BodiesStayInBudget` | `[]BodiesFitTheBudget` |
| `AgentsStayOwned` | `[]AgentIsOwned` |

*Rows.* Every step of the desk lets the rows fade or inserts one (`Faded`): a row keeps
what was asked for, never comes back to life, and one that is not printed stays so.
*Ceilings*: only who holds the tenant's lock is about to insert (`LockInv`), it counted
room, and until it inserts the counts only go down; one row adds one to each.
*Keys* (`KeysInv`): of the rows of one key all but the last are deleted, and what a request
was told, or is about to be told, stands for what it asked. The unique index and the reread
after a conflict carry the proof, not the lookup before the insert.

*Outbox* (`OutboxInv`): an operation that waits to be sent has attempts left and names no
job; two operations share a key only where the first one's record was lost; and whoever
carries an outbox key in the Gateway is known to an operation with that key. Then the
argument of `UnprintedIsSafe`, which is not inductive: as long as none of an operation's
records was lost, every job under its key that is not known to be unprinted is *followed*
(`FollowInv`). Its answer is under way to the submitter, or the commit that will name it
is, or the operation's row names it, or the row says success or unknown, or a commit about
to say unknown is under way; and while a clerk still serves a request with that key, its
submitter waits for it or the row says unknown. An operation that is failed, called not
printed and not being submitted is none of these, so its jobs are unprinted, and stay so.

*Clients* (`PosInv`): a document printed natively has no operation and no call that could
still make one, except for the retry that found the Gateway switched off. *Bodies*:
`reserved` is the sum of the lengths whose release was not heard yet; the sum is shown to
be a cardinality by taking a smallest subset for which it is not (the subsets of a finite
set are well-founded), since induction with an operator parameter is not available.
*Workstation*: what a single command looked at still holds when it acts, except that the
agent may have ended.

## 7. What is only model-checked

Liveness (`EveryJobEnds`, `SlotIsReleased`, `ListenerRecovers`, `DeadSocketIsReaped`,
`OutboxSettles`, `LostAgentLooksLost`, `ConsoleCatchesUp`): fairness and ENABLED are out
of the prover's reach. Every invariant and every action property that a passing run checks
is stated by a theorem; `InFlightCeiling` only while agent and printers stay online, which
is also where it holds. The violated properties of section 4 are counterexamples of
instances; nothing is proved about them.

## 8. What is not modelled, and why

- Contents and formats: payload sizes and encodings, rendering, drawer-kick bytes, error
  wording beyond its marker. `PrintDocument` is three results: transmitted, ambiguous,
  nothing sent.
- Clock skew between agent, Gateway and database; socket buffers and frame parsing;
  token signing and hashing; CORS and proxy headers.
- The order of a graceful shutdown in `server.ts` (each part's own end is modelled).
- `PurgeOutcomeUnknown`, an operator's statement to have looked at the paper.
- Overlapping commands of the desktop manager, beyond showing that they are the
  exception to `AgentIsOwned`; its secure storage and session.
- A `tasklist` or `sc` that cannot be run, which the manager takes for "no agent is running"
  (`agent.rs:65-94`).
- The agent's own scan during discovery; its configuration files. Provisioning looks for a
  printer at the device's endpoint among those made from devices; one registered by hand
  with the same address is not told apart from others.
- Odoo's form pickers (`runtime_*_field.js`), the component library and page layout
  (`components/ui.tsx`, `desktop/pages`): they hold no state the others depend on.

## 9. What could come next

1. `PrintDesk` composed with `PrintProtocol`, so that `Deliver` is a step of the protocol
   and not of its promise.
2. Overlapping workstation commands, with the property that remains true of them.
