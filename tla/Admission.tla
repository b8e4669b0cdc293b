----------------------------- MODULE Admission -----------------------------
(***************************************************************************)
(* How a print job comes to be (api/print/jobs, actions.ts,                *)
(* print-job-service.ts): the request's checks, the idempotency keys, and  *)
(* the ceilings enforced in one transaction under the tenant's advisory    *)
(* lock; the API keys that may ask (odoo/keys); and the deletion of old    *)
(* rows (api/jobs).                                                        *)
(*                                                                         *)
(* jobs[i] is the i-th row ever inserted; a deleted one stays as history.   *)
(* What happens to a row between is what GatewayJobs and PrintProtocol     *)
(* show of it, reduced to status and marker (Deliver).                     *)
(***************************************************************************)
EXTENDS PrintRules, Sequences

CONSTANTS
  Agents, Printers, OwnerOf,   \* OwnerOf \in [Printers -> Agents]
  Describe,         \* what each printer declared: the fields PrintRules reads
  Languages,        \* the payload of each document
  Documents,        \* documentType, destination and payload, as fingerprinted
  Keys, NoKey,      \* API keys in the order they are minted; a manager has none
  ReadOnly,         \* the keys of scope "read_only"
  Allowed,          \* the documents whose type each key allows
  MaxJobs,          \* bound: rows ever inserted
  MaxQueued,        \* MAX_AGENT_QUEUED_JOBS
  MaxInFlight,      \* MAX_AGENT_IN_FLIGHT_JOBS
  MaxConcurrent,    \* the plan's max_concurrent_jobs
  TenantPerMinute,  \* the plan's max_jobs_per_minute
  KeyPerMinute,     \* PRINT_JOB_RATE_LIMIT_PER_MINUTE
  KeyPerHour,       \* PRINT_JOB_RATE_LIMIT_PER_HOUR
  Clerks, NoClerk,  \* requests being served, by number
  Idle

CeilingAssumption == /\ MaxQueued \in Nat \ {0} /\ MaxInFlight \in Nat \ {0}
                     /\ MaxConcurrent \in Nat \ {0} /\ TenantPerMinute \in Nat

VARIABLES
  jobs,       \* print_jobs
  agentRow,   \* [lifecycle, status, seen, age]
  printerRow, \* [lifecycle, status]
  keyState,   \* api_keys: "unborn", "active", "revoked" or "removed"
  rate,       \* print_job_rate_limits per key: counts and windows elapsed
  lock,       \* who holds print_jobs:tenant
  clerk,      \* the request each clerk serves
  told        \* the answers that named a job, per idempotency key

admissionVars == <<jobs, agentRow, printerRow, keyState, rate, lock, clerk, told>>
KeepSurroundings == UNCHANGED <<agentRow, printerRow, keyState>>

(* An idempotency key: none, the number Odoo's outbox gave its operation,   *)
(* that of another caller of the API (both are UUIDs: none is ever chosen   *)
(* twice), or the n-th reprint of job `of`.                                *)
NoIdem == [kind |-> "none", of |-> 0, n |-> 0]
Idem(number) == [kind |-> "caller", of |-> number, n |-> 0]
ApiIdem(number) == [kind |-> "api", of |-> number, n |-> 0]
ReprintKey(job, n) == [kind |-> "gw-reprint", of |-> job, n |-> n]

Live(job) == job.status \in {"queued", "claimed", "printing"} /\ job.ttl = "live"
Exists(i) == i \in DOMAIN jobs /\ ~jobs[i].deleted
Rows == {i \in DOMAIN jobs : ~jobs[i].deleted}

(* What an answer says of a job.                                           *)
NoBody == [status |-> "none", error |-> "none"]
Body(i) == IF i \in DOMAIN jobs THEN [status |-> jobs[i].status, error |-> jobs[i].error]
           ELSE [status |-> "queued", error |-> "none"]

Answer(c, code, job) ==
  clerk' = [clerk EXCEPT ![c] = [@ EXCEPT !.step = "answered", !.code = code, !.job = job,
                                          !.body = IF job = 0 THEN NoBody ELSE Body(job)]]

(* Only the requests that carry a key can be told of a job twice.          *)
Tell(c, job) ==
  LET request == clerk[c] IN
    told' = IF request.idem = NoIdem THEN told
            ELSE told \cup {[key |-> request.key, idem |-> request.idem, job |-> job,
                             printer |-> request.printer, document |-> request.document]}

Codes == {0, 200, 201, 400, 401, 403, 409, 422, 500, 503}
ClerkSteps == {"lookup", "count", "check", "admit", "insert", "reread", "conflict", "answered"}

IdemKey == [kind : {"none", "api", "caller", "gw-reprint", "odoo-reprint", "kitchen"},
            of : Nat, n : Nat]

JobRow == [key : Keys \cup {NoKey}, idem : IdemKey, printer : Printers, document : Documents,
           status : Statuses, error : Errors, ttl : {"live", "over"},
           recent : BOOLEAN, deleted : BOOLEAN]

RequestRow == [step : ClerkSteps, key : Keys \cup {NoKey}, idem : IdemKey,
               printer : Printers, document : Documents, code : Codes, job : Nat,
               body : [status : Statuses \cup {"none"}, error : Errors]]

ASSUME AdmissionAssumption ==
  /\ CeilingAssumption
  /\ OwnerOf \in [Printers -> Agents]
  /\ NoClerk \notin Clerks /\ NoKey \notin Keys /\ Idle \notin RequestRow

AdmissionInit ==
  /\ jobs = <<>>
  /\ agentRow = [a \in Agents |-> [lifecycle |-> "active", status |-> "online",
                                   seen |-> TRUE, age |-> 0]]
  /\ printerRow = [p \in Printers |-> [lifecycle |-> "active", status |-> "online"]]
  /\ keyState = [k \in Keys |-> IF k = 1 THEN "active" ELSE "unborn"]
  /\ rate = [k \in Keys |-> [minute |-> 0, hour |-> 0, minuteOver |-> TRUE, hourOver |-> TRUE]]
  /\ lock = NoClerk
  /\ clerk = [c \in Clerks |-> Idle]
  /\ told = {}

-----------------------------------------------------------------------------
(* Requests                                                                *)

Request(step, key, idem, p, document) ==
  [step |-> step, key |-> key, idem |-> idem, printer |-> p, document |-> document,
   code |-> 0, job |-> 0, body |-> NoBody]

(* validateOdooKey: the key of the request stands in the table, unrevoked.  *)
ValidOdooKey(key) == keyState[key] = "active"

(* isOdooKeyAllowedForDocumentType.                                        *)
KeyReads(key, document) == document \in Allowed[key]
KeyWrites(key, document) == key \notin ReadOnly /\ KeyReads(key, document)

(* POST /api/print/jobs, up to the first await that matters: the key, its  *)
(* scope and document types, and the payload's schema.                     *)
Receive(c, key, idem, p, document) ==
  /\ clerk[c] = Idle
  /\ LET request == Request("lookup", key, idem, p, document)
         code == IF ~ValidOdooKey(key) THEN 401
                 ELSE IF ~KeyWrites(key, document) THEN 403
                 ELSE IF ~ValidPayload(Languages[document]) THEN 400 ELSE 0
     IN  clerk' = [clerk EXCEPT ![c] =
                     IF code # 0 THEN [request EXCEPT !.step = "answered", !.code = code]
                     ELSE IF idem = NoIdem THEN [request EXCEPT !.step = "check"] ELSE request]
  /\ KeepSurroundings /\ UNCHANGED <<jobs, rate, lock, told>>

(* createPrintJob and createTestPrintJob: a manager, no idempotency key.    *)
ManagerPrints(c, p, document) ==
  /\ clerk[c] = Idle
  /\ clerk' = [clerk EXCEPT ![c] = Request("check", NoKey, NoIdem, p, document)]
  /\ KeepSurroundings /\ UNCHANGED <<jobs, rate, lock, told>>

(* The ticket in the printer's own language, where there is one; otherwise *)
(* the action throws and nothing is created.                               *)
ManagerTests(c, p, document) ==
  /\ HasTestPage(Describe[p])
  /\ Languages[document] = TestPayloadFor(Describe[p])
  /\ ManagerPrints(c, p, document)

(* reprintJob: the row is read, its reprints are counted by a later        *)
(* statement.                                                              *)
ReprintRead(c, i) ==
  /\ clerk[c] = Idle
  /\ Exists(i)
  /\ jobs[i].status \in TerminalStatuses
  /\ clerk' = [clerk EXCEPT ![c] =
       [Request("count", NoKey, NoIdem, jobs[i].printer, jobs[i].document) EXCEPT !.job = i]]
  /\ KeepSurroundings /\ UNCHANGED <<jobs, rate, lock, told>>

ReprintCount(c) ==
  /\ clerk[c] # Idle /\ clerk[c].step = "count"
  /\ LET i == clerk[c].job
         reprints == {k \in Rows : jobs[k].idem.kind = "gw-reprint" /\ jobs[k].idem.of = i}
     IN  clerk' = [clerk EXCEPT ![c].step = "check", ![c].job = 0,
                                ![c].idem = ReprintKey(i, Cardinality(reprints) + 1)]
  /\ KeepSurroundings /\ UNCHANGED <<jobs, rate, lock, told>>

(* The unique index print_jobs (api_key_id, idempotency_key), or its twin   *)
(* for rows without a key: at most one such row.                           *)
Under(key, idem) == {i \in Rows : jobs[i].key = key /\ jobs[i].idem = idem}

(* Slip: the fingerprint leaves the document out. *)
MatchesPrinter(i, request) == jobs[i].printer = request.printer

(* idempotencyFingerprint: destinations and document types are part of     *)
(* what a document is here.                                                *)
Fingerprint(order) == <<order.printer, order.document>>

Matches(i, request) == Fingerprint(jobs[i]) = Fingerprint(request)

(* The optimistic look before anything else is checked.                    *)
Lookup(c) ==
  /\ clerk[c] # Idle /\ clerk[c].step = "lookup"
  /\ LET found == Under(clerk[c].key, clerk[c].idem) IN
       \/ /\ found = {}
          /\ clerk' = [clerk EXCEPT ![c].step = "check"]
          /\ UNCHANGED told
       \/ \E i \in found :
            \/ Matches(i, clerk[c]) /\ Answer(c, 200, i) /\ Tell(c, i)
            \/ ~Matches(i, clerk[c]) /\ Answer(c, 409, 0) /\ UNCHANGED told
  /\ KeepSurroundings /\ UNCHANGED <<jobs, rate, lock>>

(* createPrintJobForPrinter up to the transaction.  The rows of the printer *)
(* and of its agent are read one after the other; nothing relates them.    *)
Refusal(request) ==
  LET p == request.printer
      a == agentRow[OwnerOf[p]]
  IN  IF printerRow[p].lifecycle # "active" THEN 409
      ELSE IF IsVirtualPrinterRecord(Describe[p]) THEN 409
      ELSE IF printerRow[p].status # "online" THEN 503
      ELSE IF ~ValidPayload(Languages[request.document]) THEN 400
      ELSE IF ~ValidatePayloadForPrinter(Languages[request.document], Describe[p]) THEN 422
      ELSE IF a.lifecycle # "active" THEN 409
      ELSE IF ~IsAgentAvailableForJob(a) THEN 503 ELSE 0

Check(c) ==
  /\ clerk[c] # Idle /\ clerk[c].step = "check"
  /\ \/ Refusal(clerk[c]) = 0 /\ clerk' = [clerk EXCEPT ![c].step = "admit"]
     \/ Refusal(clerk[c]) # 0 /\ Answer(c, Refusal(clerk[c]), 0)
  /\ KeepSurroundings /\ UNCHANGED <<jobs, rate, lock, told>>

-----------------------------------------------------------------------------
(* insertQueuedJobAtomically                                               *)

OfAgent(a) == {i \in Rows : OwnerOf[jobs[i].printer] = a /\ jobs[i].ttl = "live"}
QueuedOf(a) == {i \in OfAgent(a) : jobs[i].status = "queued"}
InFlightOf(a) == {i \in OfAgent(a) : jobs[i].status \in {"claimed", "printing"}}
LiveOfTenant == {i \in Rows : Live(jobs[i])}

(* enforceTenantJobEntitlements and the agent's two ceilings.              *)
HasRoom(a) ==
  /\ Cardinality({i \in Rows : jobs[i].recent}) < TenantPerMinute
  /\ Cardinality(LiveOfTenant) < MaxConcurrent
  /\ Cardinality(QueuedOf(a)) < MaxQueued
  /\ Cardinality(InFlightOf(a)) < MaxInFlight

Counted(r) ==
  [minute |-> IF r.minuteOver THEN 1 ELSE r.minute + 1,
   hour |-> IF r.hourOver THEN 1 ELSE r.hour + 1,
   minuteOver |-> FALSE, hourOver |-> FALSE]

WithinRate(key) ==
  key # NoKey => /\ Counted(rate[key]).minute <= KeyPerMinute
                 /\ Counted(rate[key]).hour <= KeyPerHour

(* Slip: the transaction starts without waiting for the tenant's lock. *)
AdmitUnlocked(c) ==
  /\ clerk[c] # Idle /\ clerk[c].step = "admit"
  /\ Under(clerk[c].key, clerk[c].idem) = {} \/ clerk[c].idem = NoIdem
  /\ HasRoom(OwnerOf[clerk[c].printer]) /\ WithinRate(clerk[c].key)
  /\ clerk' = [clerk EXCEPT ![c].step = "insert"]
  /\ lock' = c
  /\ KeepSurroundings /\ UNCHANGED <<jobs, rate, told>>

(* The transaction up to its INSERT, under the tenant's lock.  The locks on *)
(* agent, key and idempotency key are taken inside it and add nothing.     *)
Admit(c) ==
  /\ clerk[c] # Idle /\ clerk[c].step = "admit"
  /\ lock = NoClerk
  /\ LET found == IF clerk[c].idem = NoIdem THEN {} ELSE Under(clerk[c].key, clerk[c].idem) IN
       \/ \E i \in found :
            /\ clerk' = [clerk EXCEPT ![c].step = IF Matches(i, clerk[c]) THEN "reread" ELSE "conflict",
                                      ![c].job = i]
            /\ UNCHANGED lock
       \/ /\ found = {}
          /\ ~HasRoom(OwnerOf[clerk[c].printer]) \/ ~WithinRate(clerk[c].key)
          /\ Answer(c, 503, 0)            \* 429 or 503: the caller may try again
          /\ UNCHANGED lock
       \/ /\ found = {}
          /\ HasRoom(OwnerOf[clerk[c].printer]) /\ WithinRate(clerk[c].key)
          /\ clerk' = [clerk EXCEPT ![c].step = "insert"]
          /\ lock' = c
  /\ KeepSurroundings /\ UNCHANGED <<jobs, rate, told>>

NewJob(request) ==
  [key |-> request.key, idem |-> request.idem, printer |-> request.printer,
   document |-> request.document, status |-> "queued", error |-> "none", ttl |-> "live",
   recent |-> TRUE, deleted |-> FALSE]

(* The unique index, and the foreign key of a key removed meanwhile.        *)
Storable(request) ==
  /\ request.idem = NoIdem \/ Under(request.key, request.idem) = {}
  /\ request.key # NoKey => keyState[request.key] # "removed"

(* INSERT and COMMIT.  The push that follows is a delivery step like others *)
(* and never fails the request.                                            *)
Insert(c) ==
  /\ clerk[c] # Idle /\ clerk[c].step = "insert"
  /\ Len(jobs) < MaxJobs
  /\ lock' = IF lock = c THEN NoClerk ELSE lock
  /\ \/ /\ Storable(clerk[c])
        /\ jobs' = Append(jobs, NewJob(clerk[c]))
        /\ rate' = IF clerk[c].key = NoKey THEN rate
                   ELSE [rate EXCEPT ![clerk[c].key] = Counted(@)]
        /\ Answer(c, 201, Len(jobs) + 1)
        /\ Tell(c, Len(jobs) + 1)
     \/ /\ ~Storable(clerk[c])
        /\ Answer(c, 500, 0)
        /\ UNCHANGED <<jobs, rate, told>>
  /\ KeepSurroundings

(* The process or its connection dies inside the transaction.              *)
RollBack(c) ==
  /\ clerk[c] # Idle /\ clerk[c].step = "insert"
  /\ Answer(c, 500, 0)
  /\ lock' = IF lock = c THEN NoClerk ELSE lock
  /\ KeepSurroundings /\ UNCHANGED <<jobs, rate, told>>

(* A reused row is read again, and the answer is made from that; a manager *)
(* gets its id at once.                                                    *)
Reread(c) ==
  /\ clerk[c] # Idle /\ clerk[c].step = "reread"
  /\ \/ /\ Exists(clerk[c].job) \/ clerk[c].key = NoKey
        /\ Answer(c, 200, clerk[c].job)
        /\ Tell(c, clerk[c].job)
     \/ /\ ~Exists(clerk[c].job) /\ clerk[c].key # NoKey
        /\ Answer(c, 409, 0)
        /\ UNCHANGED told
  /\ KeepSurroundings /\ UNCHANGED <<jobs, rate, lock>>

(* After IDEMPOTENCY_CONFLICT the row is looked up once more: it may have   *)
(* been replaced by one that does match.                                   *)
Conflict(c) ==
  /\ clerk[c] # Idle /\ clerk[c].step = "conflict"
  /\ LET found == {i \in Under(clerk[c].key, clerk[c].idem) :
                    clerk[c].key # NoKey /\ Matches(i, clerk[c])} IN
       \/ \E i \in found : Answer(c, 200, i) /\ Tell(c, i)
       \/ found = {} /\ Answer(c, 409, 0) /\ UNCHANGED told
  /\ KeepSurroundings /\ UNCHANGED <<jobs, rate, lock>>

(* The answer is out, read or lost.                                        *)
Close(c) ==
  /\ clerk[c] # Idle /\ clerk[c].step = "answered"
  /\ clerk' = [clerk EXCEPT ![c] = Idle]
  /\ KeepSurroundings /\ UNCHANGED <<jobs, rate, lock, told>>

Serve(c) ==
  \/ ReprintCount(c) \/ Lookup(c) \/ Check(c) \/ Admit(c) \/ Insert(c) \/ RollBack(c)
  \/ Reread(c) \/ Conflict(c)

-----------------------------------------------------------------------------
(* What is read of a job, by id or in a batch; the batch leaves out what    *)
(* the single read refuses.                                                *)

StatusCode(key, i) ==
  IF ~ValidOdooKey(key) THEN 401
  ELSE IF ~Exists(i) \/ jobs[i].key # key THEN 404
  ELSE IF ~KeyReads(key, jobs[i].document) THEN 403 ELSE 200

-----------------------------------------------------------------------------
(* Surroundings                                                            *)

KeepRequests == UNCHANGED <<rate, lock, clerk, told>>

(* Delivery, as PrintPromise has it of one row: a claim may be handed back, *)
(* an outcome that was unknown may late turn out to be a success, or        *)
(* nothing, and one that was "not printed" stays so.                        *)
Deliveries ==
  {<<"queued", "claimed", "none">>, <<"claimed", "queued", "plain">>,
   <<"claimed", "printing", "none">>, <<"claimed", "failed", "plain">>,
   <<"claimed", "failed", "UNKNOWN_PARTIAL_DELIVERY">>,
   <<"printing", "success", "none">>, <<"printing", "failed", "plain">>,
   <<"printing", "failed", "AGENT_EXECUTION_TIMEOUT">>}

Expiries ==
  {<<"queued", "expired", "none">>, <<"claimed", "expired", "none">>,
   <<"claimed", "expired", "UNKNOWN_PARTIAL_DELIVERY">>,
   <<"printing", "expired", "JOB_EXPIRED_DURING_PRINT">>}

Becomes(i, status, error) == jobs' = [jobs EXCEPT ![i].status = status, ![i].error = error]

Deliver(i) ==
  /\ Exists(i)
  /\ \/ \E d \in Deliveries : jobs[i].status = d[1] /\ Becomes(i, d[2], d[3])
     \/ /\ jobs[i].status \in {"failed", "expired"} /\ jobs[i].error \in UnknownMarkers
        /\ Becomes(i, "success", "LATE_SUCCESS")
  /\ KeepSurroundings /\ KeepRequests

(* An agent's report that a job expired is taken of an ended row too, whose *)
(* marker it removes.                                                       *)
ExpiryReported(i) ==
  /\ jobs[i].status \in {"failed", "expired"}
  /\ Becomes(i, "expired", "none")

Expire(i) ==
  /\ Exists(i) /\ jobs[i].ttl = "over"
  /\ \/ \E d \in Expiries : jobs[i].status = d[1] /\ Becomes(i, d[2], d[3])
     \/ ExpiryReported(i)
  /\ KeepSurroundings /\ KeepRequests

JobTtlPasses(i) ==
  /\ Exists(i) /\ jobs[i].ttl = "live"
  /\ jobs' = [jobs EXCEPT ![i].ttl = "over"]
  /\ KeepSurroundings /\ KeepRequests

(* The oldest row of the last minute leaves it.                            *)
MinutePasses ==
  /\ \E i \in DOMAIN jobs :
       /\ jobs[i].recent /\ \A k \in 1 .. (i - 1) : ~jobs[k].recent
       /\ jobs' = [jobs EXCEPT ![i].recent = FALSE]
  /\ KeepSurroundings /\ KeepRequests

RateWindowPasses(k) ==
  /\ ~rate[k].minuteOver \/ ~rate[k].hourOver
  /\ rate' = [rate EXCEPT ![k].minuteOver = TRUE, ![k].hourOver = rate[k].minuteOver]
  /\ KeepSurroundings /\ UNCHANGED <<jobs, lock, clerk, told>>

(* DELETE /api/jobs: the oldest finished rows, up to a date and a number.   *)
Cleanup(last) ==
  LET old == {i \in Rows : jobs[i].status \in TerminalStatuses /\ i <= last}
  IN  /\ old # {}
      /\ jobs' = [i \in DOMAIN jobs |-> IF i \in old THEN [jobs[i] EXCEPT !.deleted = TRUE]
                                       ELSE jobs[i]]
      /\ KeepSurroundings /\ KeepRequests

(* What heartbeats, closed sockets, operators and time do to the rows the  *)
(* checks read.                                                            *)
PresenceChanges ==
  /\ \/ \E a \in Agents, row \in
             [lifecycle : {"active", "disabled"}, status : {"online", "offline"},
              seen : BOOLEAN, age : {-1, 0, StaleAfter, StaleAfter + 1}] :
           agentRow' = [agentRow EXCEPT ![a] = row] /\ UNCHANGED printerRow
     \/ \E p \in Printers, row \in
             [lifecycle : {"active", "disabled", "retired"}, status : {"online", "offline", ""}] :
           printerRow' = [printerRow EXCEPT ![p] = row] /\ UNCHANGED agentRow
  /\ UNCHANGED <<jobs, keyState>> /\ KeepRequests

(* API keys                                                                *)

(* Keys are minted in the order of their numbers.                          *)
Fresh(k) == keyState[k] = "unborn" /\ \A l \in Keys : l < k => keyState[l] # "unborn"
KeepAllButKeys == UNCHANGED <<agentRow, printerRow, jobs>> /\ KeepRequests

CreateKey(k) ==
  /\ Fresh(k)
  /\ keyState' = [keyState EXCEPT ![k] = "active"]
  /\ KeepAllButKeys

(* The new key has the settings of the old one, in one transaction.        *)
RotateKey(k, new) ==
  /\ keyState[k] = "active"
  /\ Fresh(new)
  /\ Allowed[new] = Allowed[k] /\ (new \in ReadOnly <=> k \in ReadOnly)
  /\ keyState' = [keyState EXCEPT ![k] = "revoked", ![new] = "active"]
  /\ KeepAllButKeys

RevokeKey(k) ==
  /\ keyState[k] \in {"active", "revoked"}
  /\ keyState' = [keyState EXCEPT ![k] = "revoked"]
  /\ KeepAllButKeys

(* The foreign key protects the jobs of a key that made some.              *)
RemoveKey(k) ==
  /\ keyState[k] = "revoked"
  /\ \A i \in Rows : jobs[i].key # k
  /\ keyState' = [keyState EXCEPT ![k] = "removed"]
  /\ KeepAllButKeys

-----------------------------------------------------------------------------
(* Properties                                                              *)

AdmissionTypeOK ==
  /\ jobs \in Seq(JobRow)
  /\ lock \in Clerks \cup {NoClerk}
  /\ clerk \in [Clerks -> RequestRow \cup {Idle}]
  /\ keyState \in [Keys -> {"unborn", "active", "revoked", "removed"}]

(* The ceilings hold however requests race, whatever is handed back to the *)
(* queue in between: what an agent has not finished, what the tenant has    *)
(* not finished, and what it asked for within a minute.  ("Serialize        *)
(* admission per tenant so max_jobs_per_minute and max_concurrent_jobs      *)
(* cannot be exceeded by racing requests.")                                *)
LiveJobsBounded ==
  /\ \A a \in Agents :
       Cardinality(QueuedOf(a) \cup InFlightOf(a)) <= MaxQueued + MaxInFlight - 1
  /\ Cardinality(LiveOfTenant) <= MaxConcurrent
  /\ Cardinality({i \in Rows : jobs[i].recent}) <= TenantPerMinute

(* Whoever asks twice with one idempotency key is told of one job, and one *)
(* that is what was asked for, unless the first was deleted in between;     *)
(* however the requests, a reprint's second click and the cleanup          *)
(* interleave.                                                             *)
AnswersAgree ==
  /\ \A t \in told : /\ jobs[t.job].key = t.key /\ jobs[t.job].idem = t.idem
                     /\ jobs[t.job].printer = t.printer /\ jobs[t.job].document = t.document
  /\ \A t, u \in told : t.key = u.key /\ t.idem = u.idem /\ t.job < u.job => jobs[t.job].deleted
=============================================================================
