------------------------------- MODULE Outbox -------------------------------
(***************************************************************************)
(* The Odoo module's durable outbox (print_job.py): operations, the        *)
(* submissions that post them to the Gateway - a user's click, the cron    *)
(* job, an operator's retry - and the synchronisation of their outcome.    *)
(*                                                                         *)
(* A submission runs in a database transaction.  The cron job's holds the  *)
(* rows it selected FOR UPDATE until it commits.  A click's only reads the *)
(* row, and records a failure at once through a second cursor; Odoo's      *)
(* transactions (external) are refused when they write a row that changed  *)
(* since they began.                                                       *)
(***************************************************************************)
EXTENDS Admission

CONSTANTS
  Web, Cron,      \* the processes that submit
  MaxAttempts,    \* 5 in the code
  BackupOf,       \* the printer of the fallback binding of each printer's binding
  NoPrinter,
  MaxOps,         \* bound: operations ever created
  MaxFaults       \* bound: submitters that die, answers hidden behind a 5xx

VARIABLES
  ops,        \* print_gateway.print_job
  sub,        \* the submission each process is in
  odooKey,    \* the API key in Odoo's configuration
  unsure,     \* operations whose record was lost or overwritten (history)
  faults      \* faults so far

outboxVars == <<ops, sub, odooKey, unsure, faults>>

OpTerminal == {"success", "failed", "partial", "unknown"}

ValidTransitions ==
  [queued    |-> {"submitted", "failed", "unknown"},
   submitted |-> {"claimed", "failed", "unknown"},
   claimed   |-> {"printing", "failed", "unknown"},
   printing  |-> {"success", "failed", "unknown"},
   success   |-> {}, failed |-> {}, unknown |-> {}, gone |-> {}]

(* write() lets an unchanged status pass.                                  *)
MayBecome(from, to) == from = to \/ to \in ValidTransitions[from]

OpRow == [idem : IdemKey, printer : Printers, document : Documents,
          status : DOMAIN ValidTransitions, attempts : Nat, remote : Nat,
          error : Errors, due : BOOLEAN, reprints : Nat]

SubmissionRow == [op : Nat, row : OpRow, new : OpRow, mode : {"click", "cron", "minted"},
                  step : {"stored", "ready", "sent", "written"}, clerk : Clerks \cup {NoClerk},
                  visited : SUBSET Printers, next : Printers \cup {NoPrinter},
                  depth : 0..3, parent : Nat]

ASSUME OutboxAssumption ==
  /\ MaxAttempts \in Nat \ {0} /\ Web \cap Cron = {} /\ 1 \in Keys
  /\ BackupOf \in [Printers -> Printers \cup {NoPrinter}] /\ Idle \notin SubmissionRow

Position == [queued |-> 1, submitted |-> 2, claimed |-> 3, printing |-> 4, success |-> 5]

(* _advance_status goes hop by hop through the chain, never back.          *)
Advances(from, to) ==
  IF to \in {"failed", "unknown"} THEN MayBecome(from, to)
  ELSE from \in DOMAIN Position /\ Position[from] <= Position[to]

OpOutcome(op) ==
  IF op.status = "success" THEN "printed"
  ELSE IF op.status \in {"unknown", "partial"} \/ op.error \in UnknownMarkers THEN "unknown"
  ELSE "not_printed"

NewOp(idem, p, document) ==
  [idem |-> idem, printer |-> p, document |-> document, status |-> "queued", attempts |-> 0,
   remote |-> 0, error |-> "none", due |-> TRUE, reprints |-> 0]

OutboxInit ==
  /\ ops = <<>> /\ unsure = {} /\ faults = 0
  /\ sub = [s \in Web \cup Cron |-> Idle]
  /\ odooKey = 1

On(s, o) == sub[s] # Idle /\ sub[s].op = o

(* Rows another transaction cannot take or write: locked by the cron job,   *)
(* or not yet committed by the operator's action that created them.        *)
Held(o) == \E s \in Web \cup Cron : On(s, o) /\ sub[s].mode \in {"cron", "minted"}

-----------------------------------------------------------------------------
(* Creating and starting                                                   *)

(* `row` is the operation as the submission's transaction sees it.         *)
Submission(o, row, mode, step) ==
  [op |-> o, row |-> row, new |-> row, mode |-> mode, step |-> step, clerk |-> NoClerk,
   visited |-> {row.printer}, next |-> BackupOf[row.printer], depth |-> 0, parent |-> 0]

(* _persist_durable_job: the row is committed before it is submitted.  A    *)
(* key seen before stands for the operation already there.                 *)
Click(s, idem, p, document) ==
  /\ sub[s] = Idle
  /\ \/ \E o \in DOMAIN ops :
          /\ ops[o].idem = idem /\ ops[o].printer = p /\ ops[o].document = document
          /\ sub' = [sub EXCEPT ![s] = Submission(o, ops[o], "click", "stored")]
          /\ UNCHANGED ops
     \/ /\ \A o \in DOMAIN ops : ops[o].idem # idem
        /\ Len(ops) < MaxOps
        /\ ops' = Append(ops, NewOp(idem, p, document))
        /\ sub' = [sub EXCEPT ![s] = Submission(Len(ops) + 1, ops'[Len(ops) + 1], "click", "stored")]
  /\ UNCHANGED <<odooKey, unsure, faults>>

(* _submit_durable_job reads the row again, in a transaction of its own.   *)
StartClick(s) ==
  /\ sub[s] # Idle /\ sub[s].step = "stored"
  /\ LET o == sub[s].op IN
       \/ /\ ops[o].status \in OpTerminal
          /\ sub' = [sub EXCEPT ![s] = Idle]
          /\ UNCHANGED unsure
       \/ /\ ops[o].status \notin OpTerminal
          /\ sub' = [sub EXCEPT ![s] = Submission(o, ops[o], "click", "ready")]
          /\ unsure' = IF ops[o].status = "queued" THEN unsure ELSE unsure \cup {o}
  /\ UNCHANGED <<ops, odooKey, faults>>

StartCron(s, o) ==
  /\ sub[s] = Idle
  /\ o \in DOMAIN ops /\ ops[o].status = "queued" /\ ops[o].due
  /\ ~Held(o)
  /\ sub' = [sub EXCEPT ![s] = Submission(o, ops[o], "cron", "ready")]
  /\ UNCHANGED <<ops, odooKey, unsure, faults>>

(* A new operation and its submission in one transaction.                  *)
Mint(s, o, idem, parent) ==
  /\ sub[s] = Idle
  /\ Len(ops) < MaxOps
  /\ \A q \in DOMAIN ops : ops[q].idem = idem => ops[q].status = "gone"
  /\ ops' = Append(ops, NewOp(idem, ops[o].printer, ops[o].document))
  /\ sub' = [sub EXCEPT ![s] =
                [Submission(Len(ops) + 1, ops'[Len(ops) + 1], "minted", "ready") EXCEPT !.parent = parent]]
  /\ UNCHANGED <<odooKey, unsure, faults>>

(* action_retry: a definitely failed operation, again, under a new key.    *)
Retry(s, o) ==
  /\ o \in DOMAIN ops /\ ~Held(o)
  /\ ops[o].status = "failed" /\ OpOutcome(ops[o]) = "not_printed"
  /\ Mint(s, o, Idem(Len(ops) + 1), 0)

(* action_force_reprint: an unknown outcome, under a derived key.          *)
ForceReprint(s, o) ==
  /\ o \in DOMAIN ops /\ ~Held(o)
  /\ OpOutcome(ops[o]) = "unknown"
  /\ Mint(s, o, [kind |-> "odoo-reprint", of |-> o, n |-> ops[o].reprints + 1], o)

-----------------------------------------------------------------------------
(* The attempt                                                             *)

(* Slip: one attempt more. *)
AgainOnceMore(row, atOnce) ==
  [row EXCEPT !.attempts = @ + 1, !.error = "plain",
              !.status = IF row.attempts >= MaxAttempts THEN "failed" ELSE "queued",
              !.due = atOnce]

(* The row after an attempt that may be repeated: at once after an answer, *)
(* later after a connection that failed.                                   *)
Again(row, atOnce) ==
  [row EXCEPT !.attempts = @ + 1, !.error = "plain",
              !.status = IF row.attempts + 1 >= MaxAttempts THEN "failed" ELSE "queued",
              !.due = atOnce]

Rejected(row) == [row EXCEPT !.attempts = @ + 1, !.error = "plain", !.status = "failed"]

Ambiguous(row) ==
  [row EXCEPT !.attempts = @ + 1, !.error = "UNKNOWN_SUBMISSION_OUTCOME", !.status = "unknown"]

(* The row after a 200 or 201.  An expired job is told apart by its marker. *)
Accepted(row, job, body) ==
  LET now == CASE body.status = "queued" -> "submitted"
               [] body.status = "expired" -> IF body.error \in UnknownMarkers THEN "unknown" ELSE "failed"
               [] OTHER -> body.status
  IN  [row EXCEPT !.remote = job, !.attempts = @ + 1, !.status = now,
                  !.error = IF now \in {"failed", "unknown"} THEN body.error ELSE "none"]

Doubt(s, doubted) == unsure' = IF doubted THEN unsure \cup {sub[s].op} ELSE unsure

(* A transaction's record waits for its commit.  `reached` says whether the *)
(* Gateway may hold the job: "no", "maybe", or "hidden" where the record    *)
(* does not show it.                                                       *)
RecordAtCommit(s, new, reached) ==
  /\ sub' = [sub EXCEPT ![s].step = "written", ![s].new = new]
  /\ Doubt(s, reached = "hidden")
  /\ UNCHANGED ops

(* _persist_state: a cursor of its own, on the row as it is now.  It fails  *)
(* against a lock or the transition matrix, and the record is lost.        *)
PersistState(s, new, reached) ==
  LET o == sub[s].op
      fits == ~Held(o) /\ MayBecome(ops[o].status, new.status)
  IN  /\ sub' = [sub EXCEPT ![s] = Idle]
      /\ ops' = IF fits THEN [ops EXCEPT ![o].status = new.status, ![o].attempts = new.attempts,
                                         ![o].error = new.error, ![o].due = new.due]
                ELSE ops
      /\ Doubt(s, \/ reached = "hidden"
                  \/ ~fits /\ reached = "maybe"
                  \/ fits /\ ops[o] # sub[s].row)

RecordFailure(s, new, reached) ==
  \/ sub[s].mode = "click" /\ PersistState(s, new, reached)
  \/ sub[s].mode # "click" /\ RecordAtCommit(s, new, reached)

(* Failover wants the payload's own language, or a document connection.    *)
BackupFits(document, p) ==
  LET payload == Languages[document]
      language == Describe[p].protocol
  IN  CASE payload.type = "pdf" -> language \in DocumentTransports
        [] payload.type = "image" -> language \in {"spooler", "escpos"}
        [] OTHER -> language = payload.protocol

Ready(s) == sub[s] # Idle /\ sub[s].step = "ready"
Under_Way(s) == sub[s] # Idle /\ sub[s].step \in {"ready", "sent"}

(* requests.post, as it reaches the Gateway.                               *)
Send(s, c) ==
  /\ Ready(s)
  /\ LET row == sub[s].row IN Receive(c, odooKey, row.idem, row.printer, row.document)
  /\ sub' = [sub EXCEPT ![s].step = "sent", ![s].clerk = c]
  /\ UNCHANGED <<ops, odooKey, unsure, faults>>

(* Nothing left this host: the backup printer is tried, on the first        *)
(* attempt only, to a depth of three and never twice; else it is put off.  *)
CanFailOver(s) ==
  LET q == sub[s].next IN
    /\ sub[s].row.attempts = 0 /\ sub[s].depth < 3
    /\ q # NoPrinter /\ q \notin sub[s].visited
    /\ BackupFits(sub[s].row.document, q)

(* A click writes the new printer through its second cursor; whether its    *)
(* own transaction reads it back is up to the isolation of Odoo's cursors. *)
FailOver(s) ==
  /\ Ready(s) /\ CanFailOver(s)
  /\ LET o == sub[s].op
         q == sub[s].next
         moved == [sub[s].row EXCEPT !.printer = q, !.error = "plain"]
     IN  \E seen \in IF sub[s].mode = "click" THEN {sub[s].row, moved} ELSE {moved} :
           \/ /\ sub[s].mode # "click" \/ ~Held(o)
              /\ sub' = [sub EXCEPT ![s] = [sub[s] EXCEPT !.row = seen, !.visited = @ \cup {q},
                                                          !.next = BackupOf[q], !.depth = @ + 1]]
              /\ ops' = IF sub[s].mode = "click"
                        THEN [ops EXCEPT ![o].printer = q, ![o].error = "plain"] ELSE ops
           \/ /\ sub[s].mode = "click" /\ Held(o)
              /\ sub' = [sub EXCEPT ![s] = Idle]
              /\ UNCHANGED ops
  /\ UNCHANGED <<odooKey, unsure, faults>>

PutOff(s) ==
  /\ Ready(s) /\ ~CanFailOver(s)
  /\ RecordFailure(s, Again(sub[s].row, FALSE), "no")
  /\ UNCHANGED <<odooKey, faults>>

(* Slip: a broken connection is taken for one that was never made. *)
TimeOutAsPreDispatch(s) ==
  /\ Under_Way(s)
  /\ RecordFailure(s, Again(sub[s].row, FALSE), "maybe")
  /\ UNCHANGED <<odooKey, faults>>

(* A timeout, or a connection that broke, before or after the Gateway got   *)
(* the request, while it serves it or when it has answered.                *)
TimeOut(s) ==
  /\ Under_Way(s)
  /\ RecordFailure(s, Ambiguous(sub[s].row), "maybe")
  /\ UNCHANGED <<odooKey, faults>>

(* A 5xx that says nothing of what the Gateway did (a proxy's).            *)
HiddenAnswer(s) ==
  /\ Under_Way(s)
  /\ faults < MaxFaults /\ faults' = faults + 1
  /\ RecordFailure(s, Again(sub[s].row, TRUE), "hidden")
  /\ UNCHANGED odooKey

(* The Gateway's answer.  A regression of an acknowledged row (a click's,   *)
(* for the others start from a queued one) raises, and is recorded as a    *)
(* failure that no retry could mend.                                       *)
Answered(s) ==
  /\ sub[s] # Idle /\ sub[s].step = "sent"
  /\ LET a == clerk[sub[s].clerk]
         row == sub[s].row
         new == Accepted(row, a.job, a.body)
     IN  /\ a.step = "answered"
         /\ \/ /\ a.code \in {200, 201} /\ Advances(row.status, new.status)
               /\ RecordAtCommit(s, new, "maybe")
            \/ /\ a.code \in {200, 201} /\ ~Advances(row.status, new.status)
               /\ PersistState(s, Rejected(row), "maybe")
            \/ /\ a.code \in {400, 403, 404, 409, 422}
               /\ RecordFailure(s, Rejected(row), "no")
            \/ /\ a.code \in {401, 500, 503}        \* any other code
               /\ RecordFailure(s, Again(row, TRUE), "no")
         /\ Close(sub[s].clerk)
  /\ UNCHANGED <<odooKey, faults>>

(* The commit.  A click's waits for a lock on its row, and is refused when  *)
(* the row has changed since it was read.                                  *)
Commit(s) ==
  /\ sub[s] # Idle /\ sub[s].step = "written"
  /\ LET o == sub[s].op
         n == sub[s].new
         unchanged == ops[o] = sub[s].row \/ sub[s].mode # "click"
         parent == sub[s].parent
     IN  /\ sub[s].mode = "click" => ~Held(o)
         /\ sub' = [sub EXCEPT ![s] = Idle]
         /\ ops' = [q \in DOMAIN ops |->
                      IF q = o /\ unchanged THEN n
                      ELSE IF q = parent THEN [ops[q] EXCEPT !.reprints = @ + 1] ELSE ops[q]]
         /\ Doubt(s, ~unchanged)
  /\ UNCHANGED <<odooKey, faults>>

(* The worker process dies, and its transaction with it.                   *)
Dies(s) ==
  /\ sub[s] # Idle
  /\ faults < MaxFaults /\ faults' = faults + 1
  /\ sub' = [sub EXCEPT ![s] = Idle]
  /\ ops' = IF sub[s].mode = "minted" THEN [ops EXCEPT ![sub[s].op].status = "gone"] ELSE ops
  /\ Doubt(s, TRUE)
  /\ UNCHANGED odooKey

(* The time of next_retry_at comes.                                        *)
BackoffEnds(o) ==
  /\ o \in DOMAIN ops /\ ops[o].status = "queued" /\ ~ops[o].due /\ ~Held(o)
  /\ ops' = [ops EXCEPT ![o].due = TRUE]
  /\ UNCHANGED <<sub, odooKey, unsure, faults>>

-----------------------------------------------------------------------------
(* Synchronisation                                                         *)

(* Slip: an expired job is not recognised as an end. *)
SyncedNotExpired(row, body) ==
  IF body.status = "expired" \/ ~Advances(row.status, body.status) THEN row
  ELSE [row EXCEPT !.status = body.status, !.error = body.error]

(* _apply_synced_status, with the row unchanged where it refuses: a         *)
(* regression raises, and the caller goes on to the next row.              *)
Synced(row, body) ==
  LET unknown == body.error \in UnknownMarkers
      now == CASE body.status = "queued" -> "submitted"
               [] body.status \in {"expired", "failed"} -> IF unknown THEN "unknown" ELSE "failed"
               [] OTHER -> body.status
      error == IF now = "failed" /\ body.error = "none" THEN "plain" ELSE body.error
  IN  IF Advances(row.status, now) THEN [row EXCEPT !.status = now, !.error = error] ELSE row

(* cron_sync_status, and action_sync_status row by row: a job the Gateway   *)
(* no longer knows, or no longer shows to this key, has an unknown end; a   *)
(* refused key changes nothing.                                            *)
Sync(o) ==
  /\ o \in DOMAIN ops /\ ops[o].remote # 0
  /\ ops[o].status \notin {"success", "failed", "unknown"}
  /\ ~Held(o)
  /\ \/ /\ StatusCode(odooKey, ops[o].remote) = 200
        /\ ops' = [ops EXCEPT ![o] = Synced(@, Body(ops[o].remote))]
     \/ /\ StatusCode(odooKey, ops[o].remote) \in {403, 404}
        /\ ops' = [ops EXCEPT ![o].status = "unknown", ![o].error = "plain"]
  /\ UNCHANGED <<sub, odooKey, unsure, faults>>

(* An administrator enters another key.                                    *)
ConfigureKey(k) ==
  /\ keyState[k] # "unborn" /\ k # odooKey
  /\ odooKey' = k
  /\ UNCHANGED <<ops, sub, unsure, faults>>

-----------------------------------------------------------------------------
(* Properties                                                              *)

OutboxTypeOK ==
  /\ ops \in Seq(OpRow)
  /\ \A o \in DOMAIN ops :
       /\ ops[o].remote \in 0 .. Len(jobs)
       /\ ops[o].status = "queued" => ops[o].attempts < MaxAttempts
  /\ sub \in [Web \cup Cron -> SubmissionRow \cup {Idle}]
  /\ \A s \in Web \cup Cron : sub[s] # Idle => sub[s].op \in DOMAIN ops
  /\ odooKey \in Keys /\ unsure \subseteq DOMAIN ops

(* Somebody is still working on the operation, here or at the Gateway.     *)
UnderWay(o) ==
  \/ \E s \in Web \cup Cron : On(s, o)
  \/ \E c \in Clerks : clerk[c] # Idle /\ clerk[c].step # "answered" /\ clerk[c].idem = ops[o].idem

(* The Retry button is offered on a failed operation that did not print:   *)
(* then no job the Gateway made of it, whatever key and printer it was      *)
(* posted with, printed or will, so that retrying prints once.  The         *)
(* operations in `unsure` are those for which the code cannot know; a        *)
(* forced reprint that died leaves its key to the next one.                *)
UnprintedIsSafe ==
  \A o \in DOMAIN ops :
    /\ \A q \in unsure : ops[q].idem # ops[o].idem
    /\ ops[o].status = "failed" /\ OpOutcome(ops[o]) = "not_printed"
    /\ ~UnderWay(o)
    => \A i \in DOMAIN jobs : jobs[i].idem = ops[o].idem =>
         /\ jobs[i].status \in TerminalStatuses
         /\ PhysicalOutcome(jobs[i].status, jobs[i].error) = "not_printed"

=============================================================================
