--------------------------- MODULE Outbox_proofs ---------------------------
(***************************************************************************)
(* Invariants of the print desk, second part: Odoo's outbox, the clients   *)
(* that feed it, and what the outbox may conclude from the answers it got. *)
(*                                                                         *)
(* The last part follows an operation.  As long as none of its records was *)
(* lost, the live job made for it is known to somebody: its answer is      *)
(* under way, the commit that will name it is, its row names it, or its    *)
(* row says that the outcome is unknown.  A row that says "not printed" is *)
(* therefore one of an operation without a live or printed job.            *)
(***************************************************************************)
EXTENDS Desk_proofs

-----------------------------------------------------------------------------
(* The outbox's rows.                                                      *)

LEMMA StatusesOfOps ==
  DOMAIN ValidTransitions =
    {"queued", "submitted", "claimed", "printing", "success", "failed", "unknown", "gone"}
BY DEF ValidTransitions

(* The transition matrix leads back to no status, and out of no end.       *)
LEMMA Transitions ==
  ASSUME NEW from \in DOMAIN ValidTransitions, NEW to, MayBecome(from, to)
  PROVE  /\ to \in DOMAIN ValidTransitions
         /\ to = "queued" => from = "queued"
         /\ to = "gone" => from = "gone"
         /\ from \in {"success", "failed", "unknown", "gone"} => to = from
         /\ from = "queued" => to \in {"queued", "submitted", "failed", "unknown"}
BY StatusesOfOps DEF MayBecome, ValidTransitions

(* What holds of every row, where the Gateway has made n jobs.             *)
Fine(row, n) ==
  /\ row \in OpRow /\ row.remote \in 0 .. n
  /\ row.status = "queued" => row.attempts < MaxAttempts /\ row.remote = 0

SameOrder(new, old) == new.idem = old.idem /\ new.printer = old.printer /\ new.document = old.document

LEMMA AgainRow ==
  ASSUME NEW n \in Nat, NEW row, Fine(row, n), NEW atOnce \in BOOLEAN
  PROVE  /\ Again(row, atOnce) \in OpRow /\ Again(row, atOnce).status \in {"queued", "failed"}
         /\ Again(row, atOnce).status = "queued" => Again(row, atOnce).attempts < MaxAttempts
         /\ Again(row, atOnce).remote = row.remote /\ Again(row, atOnce).error = "plain"
         /\ row.status = "queued" => Fine(Again(row, atOnce), n)
         /\ SameOrder(Again(row, atOnce), row)
<1>1. row \in OpRow /\ row.attempts \in Nat /\ row.attempts + 1 \in Nat /\ MaxAttempts \in Nat
  BY OutboxAssumption DEF Fine, OpRow
<1>2. row.attempts + 1 < MaxAttempts \/ row.attempts + 1 >= MaxAttempts
  BY <1>1
<1>3. Again(row, atOnce) \in OpRow /\ Again(row, atOnce).remote = row.remote
      /\ Again(row, atOnce).error = "plain" /\ SameOrder(Again(row, atOnce), row)
      /\ Again(row, atOnce).attempts = row.attempts + 1
      /\ Again(row, atOnce).status = IF row.attempts + 1 >= MaxAttempts THEN "failed" ELSE "queued"
  BY <1>1, StatusesOfOps DEF Again, OpRow, SameOrder, Errors
<1> QED
  BY <1>1, <1>2, <1>3 DEF Fine

LEMMA RejectedRow ==
  ASSUME NEW n \in Nat, NEW row, Fine(row, n)
  PROVE  /\ Fine(Rejected(row), n) /\ Rejected(row).status = "failed" /\ Rejected(row).error = "plain"
         /\ SameOrder(Rejected(row), row)
<1>1. row \in OpRow /\ row.attempts + 1 \in Nat
  BY DEF Fine, OpRow
<1> QED
  BY <1>1, StatusesOfOps DEF Fine, Rejected, OpRow, SameOrder, Errors

LEMMA AmbiguousRow ==
  ASSUME NEW n \in Nat, NEW row, Fine(row, n)
  PROVE  /\ Fine(Ambiguous(row), n) /\ Ambiguous(row).status = "unknown"
         /\ SameOrder(Ambiguous(row), row)
<1>1. row \in OpRow /\ row.attempts + 1 \in Nat
  BY DEF Fine, OpRow
<1> QED
  BY <1>1, StatusesOfOps DEF Fine, Ambiguous, OpRow, SameOrder, Errors, UnknownMarkers

LEMMA AcceptedRow ==
  ASSUME NEW n \in Nat, NEW row, Fine(row, n), NEW job \in 1 .. n,
         NEW answer, answer.status \in Statuses, answer.error \in Errors
  PROVE  /\ Fine(Accepted(row, job, answer), n) /\ Accepted(row, job, answer).remote = job
         /\ Accepted(row, job, answer).status \notin {"queued", "gone"}
         /\ SameOrder(Accepted(row, job, answer), row)
         /\ answer.status = "queued" => Accepted(row, job, answer).status = "submitted"
<1> DEFINE now == CASE answer.status = "queued" -> "submitted"
                    [] answer.status = "expired" -> IF answer.error \in UnknownMarkers THEN "unknown" ELSE "failed"
                    [] OTHER -> answer.status
           error == IF now \in {"failed", "unknown"} THEN answer.error ELSE "none"
<1>1. row \in OpRow /\ row.attempts + 1 \in Nat /\ job \in Nat
  BY DEF Fine, OpRow
<1>2. now \in DOMAIN ValidTransitions /\ now \notin {"queued", "gone"}
      /\ (answer.status = "queued" => now = "submitted")
  BY StatusesOfOps DEF Statuses
<1>3. error \in Errors
  BY DEF Errors
<1> HIDE DEF now, error
<1>4. Accepted(row, job, answer)
        = [row EXCEPT !.remote = job, !.attempts = @ + 1, !.status = now, !.error = error]
  BY DEF Accepted, now, error
<1>5. Accepted(row, job, answer) \in OpRow
  BY <1>1, <1>2, <1>3, <1>4 DEF OpRow
<1>6. Accepted(row, job, answer).remote = job /\ Accepted(row, job, answer).status = now
      /\ SameOrder(Accepted(row, job, answer), row)
  BY <1>1, <1>4 DEF OpRow, SameOrder
<1>7. job \in 0 .. n
  OBVIOUS
<1> QED
  BY <1>2, <1>5, <1>6, <1>7 DEF Fine

LEMMA SyncedRow ==
  ASSUME NEW n \in Nat, NEW row, Fine(row, n), row.status # "queued",
         NEW answer, answer.status \in Statuses, answer.error \in Errors
  PROVE  /\ Fine(Synced(row, answer), n) /\ SameOrder(Synced(row, answer), row)
         /\ Synced(row, answer).remote = row.remote
<1> DEFINE unknown == answer.error \in UnknownMarkers
           now == CASE answer.status = "queued" -> "submitted"
                    [] answer.status \in {"expired", "failed"} -> IF unknown THEN "unknown" ELSE "failed"
                    [] OTHER -> answer.status
           error == IF now = "failed" /\ answer.error = "none" THEN "plain" ELSE answer.error
<1>1. row \in OpRow
  BY DEF Fine
<1>2. now \in DOMAIN ValidTransitions /\ now # "queued"
  BY StatusesOfOps DEF Statuses
<1>3. error \in Errors
  BY DEF Errors
<1> HIDE DEF now, error
<1>4. Synced(row, answer) = row \/ Synced(row, answer) = [row EXCEPT !.status = now, !.error = error]
  BY DEF Synced, now, error
<1> QED
  BY <1>1, <1>2, <1>3, <1>4 DEF Fine, OpRow, SameOrder

(* From a queued row everything the Gateway can say is an advance.          *)
LEMMA QueuedAdvances == \A to \in DOMAIN ValidTransitions \ {"queued", "gone"} : Advances("queued", to)
BY StatusesOfOps DEF Advances, Position, MayBecome, ValidTransitions

LEMMA NewRow ==
  ASSUME NEW n \in Nat, NEW idem \in IdemKey, NEW p \in Printers, NEW document \in Documents
  PROVE  /\ Fine(NewOp(idem, p, document), n)
         /\ NewOp(idem, p, document).status = "queued" /\ NewOp(idem, p, document).idem = idem
BY OutboxAssumption, StatusesOfOps DEF NewOp, Fine, OpRow, Errors

-----------------------------------------------------------------------------
(* The structure of the outbox.  Two operations share a key only when the  *)
(* earlier one is in `unsure`, jobs and requests with a key of the outbox's *)
(* own are an operation's, and each submission goes on with a copy of its  *)
(* operation's row.  The operation of the cron job, or of an operator's    *)
(* action, stays as it was selected; a click's was queued when it was read, *)
(* or is in `unsure`.  The clerk a submission waits for is at work for it  *)
(* alone.                                                                  *)

Clean(o, rows, doubts) == \A q \in doubts : rows[q].idem # rows[o].idem

SentTo(s, c) == sub[s] # Idle /\ sub[s].step = "sent" /\ sub[s].clerk = c

Known(key, rows) == key.kind \in OwnKinds => \E o \in DOMAIN rows : rows[o].idem = key

RowsInv ==
  /\ ops \in Seq(OpRow) /\ unsure \subseteq DOMAIN ops
  /\ \A o \in DOMAIN ops : /\ Fine(ops[o], Len(jobs)) /\ ops[o].idem \in OwnKey
                           /\ ops[o].status = "gone" => o \in unsure
  /\ \A o, q \in DOMAIN ops : o < q /\ ops[o].idem = ops[q].idem =>
       o \in unsure /\ ops[o].idem.kind # "kitchen"

KnownInv ==
  /\ \A i \in DOMAIN jobs : Known(jobs[i].idem, ops)
  /\ \A c \in Clerks : clerk[c] # Idle => Known(clerk[c].idem, ops)

SubFine(s) ==
  sub[s] # Idle =>
    /\ sub[s].op \in DOMAIN ops /\ Fine(sub[s].row, Len(jobs)) /\ Fine(sub[s].new, Len(jobs))
    /\ sub[s].row.idem = ops[sub[s].op].idem
    /\ sub[s].step = "written" => sub[s].new.idem = ops[sub[s].op].idem /\ sub[s].new.status # "gone"
    /\ sub[s].mode # "click" =>
         /\ sub[s].step # "stored" /\ sub[s].row.status = "queued"
         /\ ops[sub[s].op].status = "queued"
         /\ \A r \in Submitters : On(r, sub[s].op) /\ sub[r].mode # "click" => r = s
    /\ sub[s].step = "sent" =>
         /\ sub[s].clerk \in Clerks /\ clerk[sub[s].clerk] # Idle
         /\ clerk[sub[s].clerk].idem = ops[sub[s].op].idem
         /\ \A r \in Submitters : SentTo(r, sub[s].clerk) => r = s
    /\ Clean(sub[s].op, ops, unsure) /\ sub[s].step # "stored" => sub[s].row.status = "queued"

OutboxInv ==
  /\ RowsInv /\ KnownInv
  /\ sub \in [Submitters -> SubmissionRow \cup {Idle}]
  /\ \A s \in Submitters : SubFine(s)
  /\ odooKey \in Keys

LEMMA OutboxTypes == OutboxInv => OutboxTypeOK
BY DEF OutboxInv, RowsInv, OutboxTypeOK, SubFine, Fine, Submitters

(* How any step leaves the rows.                                           *)
Onward ==
  /\ ops' \in Seq(OpRow)
  /\ \A o \in DOMAIN ops : o \in DOMAIN ops' /\ ops'[o].idem = ops[o].idem
  /\ unsure \subseteq unsure' /\ unsure' \subseteq DOMAIN ops'
  /\ Len(jobs) \in Nat /\ Len(jobs') \in Nat /\ Len(jobs) <= Len(jobs')

LEMMA FineLater ==
  ASSUME NEW n \in Nat, NEW m \in Nat, n <= m, NEW row, Fine(row, n)
  PROVE  Fine(row, m)
BY DEF Fine

LEMMA CleanBefore ==
  ASSUME OutboxInv, Onward, NEW o \in DOMAIN ops, Clean(o, ops', unsure')
  PROVE  Clean(o, ops, unsure)
BY DEF OutboxInv, RowsInv, Onward, Clean

LEMMA KnownLater ==
  ASSUME Onward, NEW key, Known(key, ops)
  PROVE  Known(key, ops')
BY DEF Onward, Known

(* What a submission must be to go on as x, given the others.              *)
Joins(s, x) ==
  /\ x.op \in DOMAIN ops' /\ Fine(x.row, Len(jobs')) /\ Fine(x.new, Len(jobs'))
  /\ x.row.idem = ops'[x.op].idem
  /\ x.step = "written" => x.new.idem = ops'[x.op].idem /\ x.new.status # "gone"
  /\ x.mode # "click" =>
       /\ x.step # "stored" /\ x.row.status = "queued"
       /\ ops'[x.op].status = "queued"
       /\ \A r \in Submitters : r # s /\ On(r, x.op) => sub[r].mode = "click"
  /\ x.step = "sent" =>
       /\ x.clerk \in Clerks /\ clerk'[x.clerk] # Idle
       /\ clerk'[x.clerk].idem = ops'[x.op].idem
       /\ \A r \in Submitters : r # s => ~SentTo(r, x.clerk)
  /\ Clean(x.op, ops', unsure') /\ x.step # "stored" => x.row.status = "queued"

(* What the others need of the step.                                       *)
LetsStay(r) ==
  sub[r] # Idle =>
    /\ sub[r].mode # "click" => ops'[sub[r].op].status = "queued"
    /\ sub[r].step = "sent" => /\ clerk'[sub[r].clerk] # Idle
                               /\ clerk'[sub[r].clerk].idem = clerk[sub[r].clerk].idem

LEMMA SubReplaced ==
  ASSUME OutboxInv, Onward, NEW s \in Submitters, NEW x \in SubmissionRow \cup {Idle},
         sub' = [sub EXCEPT ![s] = x],
         \A r \in Submitters : r # s => LetsStay(r),
         x # Idle => Joins(s, x)
  PROVE  /\ sub' \in [Submitters -> SubmissionRow \cup {Idle}]
         /\ \A r \in Submitters : SubFine(r)'
<1>1. sub' \in [Submitters -> SubmissionRow \cup {Idle}] /\ sub'[s] = x
      /\ \A r \in Submitters : r # s => sub'[r] = sub[r]
  BY DEF OutboxInv
<1>2. \A row : Fine(row, Len(jobs)) => Fine(row, Len(jobs'))
  BY FineLater DEF Onward
<1>3. ASSUME x # Idle PROVE SubFine(s)'
  BY <1>1, <1>3 DEF SubFine, Joins, SentTo, On
<1>4. ASSUME NEW r \in Submitters, r # s, sub[r] # Idle PROVE SubFine(r)'
  <2>1. SubFine(r) /\ LetsStay(r) /\ sub'[r] = sub[r] /\ sub[r].op \in DOMAIN ops
    BY <1>1, <1>4 DEF OutboxInv, SubFine
  <2>2. ops'[sub[r].op].idem = ops[sub[r].op].idem /\ sub[r].op \in DOMAIN ops'
    BY <2>1 DEF Onward
  <2>3. ASSUME sub[r].mode # "click", NEW u \in Submitters, sub'[u] # Idle, sub'[u].op = sub[r].op,
               sub'[u].mode # "click"
        PROVE  u = r
    BY <1>1, <1>4, <2>1, <2>3 DEF SubFine, Joins, On
  <2>4. ASSUME sub[r].step = "sent", NEW u \in Submitters, sub'[u] # Idle, sub'[u].step = "sent",
               sub'[u].clerk = sub[r].clerk
        PROVE  u = r
    BY <1>1, <1>4, <2>1, <2>4 DEF SubFine, Joins, SentTo
  <2>5. Clean(sub[r].op, ops', unsure') => Clean(sub[r].op, ops, unsure)
    BY <2>1, CleanBefore
  <2> QED
    BY <1>2, <2>1, <2>2, <2>3, <2>4, <2>5 DEF SubFine, LetsStay, SentTo, On
<1> QED
  BY <1>1, <1>3, <1>4 DEF SubFine

LEMMA RowsReplaced ==
  ASSUME OutboxInv, DOMAIN ops' = DOMAIN ops, unsure \subseteq unsure', unsure' \subseteq DOMAIN ops,
         Len(jobs) \in Nat, Len(jobs') \in Nat, Len(jobs) <= Len(jobs'), ops' \in Seq(OpRow),
         \A o \in DOMAIN ops : /\ Fine(ops'[o], Len(jobs')) /\ ops'[o].idem = ops[o].idem
                               /\ ops'[o].status = "gone" => o \in unsure'
  PROVE  Onward /\ RowsInv'
BY DEF OutboxInv, RowsInv, Onward

LEMMA RowReplaced ==
  ASSUME OutboxInv, NEW o \in DOMAIN ops, NEW row, ops' = [ops EXCEPT ![o] = row],
         unsure \subseteq unsure', unsure' \subseteq DOMAIN ops,
         Len(jobs) \in Nat, jobs' = jobs,
         Fine(row, Len(jobs)), row.idem = ops[o].idem, row.status = "gone" => o \in unsure'
  PROVE  Onward /\ RowsInv' /\ ops'[o] = row /\ \A q \in DOMAIN ops : q # o => ops'[q] = ops[q]
<1>1. ops \in Seq(OpRow) /\ row \in OpRow
  BY DEF OutboxInv, RowsInv, Fine
<1>2. ops' \in [DOMAIN ops -> OpRow] /\ ops'[o] = row /\ \A q \in DOMAIN ops : q # o => ops'[q] = ops[q]
  BY <1>1
<1>3. ops' \in Seq(OpRow) /\ DOMAIN ops' = DOMAIN ops
  BY <1>1, <1>2, SequenceLike
<1>4. \A q \in DOMAIN ops : /\ Fine(ops'[q], Len(jobs')) /\ ops'[q].idem = ops[q].idem
                            /\ ops'[q].status = "gone" => q \in unsure'
  BY <1>2 DEF OutboxInv, RowsInv
<1> QED
  BY <1>2, <1>3, <1>4, RowsReplaced

LEMMA RowsUntouched ==
  ASSUME OutboxInv, ops' = ops, unsure \subseteq unsure', unsure' \subseteq DOMAIN ops,
         Len(jobs) \in Nat, Len(jobs') \in Nat, Len(jobs) <= Len(jobs')
  PROVE  Onward /\ RowsInv'
<1>1. ops \in Seq(OpRow) /\ \A o \in DOMAIN ops : Fine(ops[o], Len(jobs))
  BY DEF OutboxInv, RowsInv
<1>2. \A o \in DOMAIN ops : /\ Fine(ops'[o], Len(jobs')) /\ ops'[o].idem = ops[o].idem
                            /\ ops'[o].status = "gone" => o \in unsure'
  BY <1>1, FineLater DEF OutboxInv, RowsInv
<1> QED
  BY <1>1, <1>2, RowsReplaced

LEMMA RowAdded ==
  ASSUME OutboxInv, NEW idem \in OwnKey, NEW p \in Printers, NEW document \in Documents,
         ops' = Append(ops, NewOp(idem, p, document)), unsure' = unsure,
         Len(jobs) \in Nat, jobs' = jobs,
         \A q \in DOMAIN ops : ops[q].idem = idem => q \in unsure /\ idem.kind # "kitchen"
  PROVE  /\ Onward /\ RowsInv' /\ Len(ops) + 1 \in DOMAIN ops' /\ Len(ops) + 1 \notin DOMAIN ops
         /\ ops'[Len(ops) + 1] = NewOp(idem, p, document) /\ Len(ops) + 1 \in Nat
         /\ \A o \in DOMAIN ops : o \in DOMAIN ops' /\ ops'[o] = ops[o]
         /\ DOMAIN ops' = DOMAIN ops \cup {Len(ops) + 1}
<1> DEFINE row == NewOp(idem, p, document)
           new == Len(ops) + 1
<1>1. idem \in IdemKey
  BY DEF OwnKey
<1>2. Fine(row, Len(jobs)) /\ row.idem = idem /\ row.status = "queued"
  BY <1>1, NewRow
<1>3. row \in OpRow
  BY <1>2 DEF Fine
<1> HIDE DEF row
<1>4. ops \in Seq(OpRow) /\ DOMAIN ops = 1 .. Len(ops) /\ Len(ops) \in Nat
  BY LenProperties DEF OutboxInv, RowsInv
<1>5. /\ ops' \in Seq(OpRow) /\ DOMAIN ops' = 1 .. new /\ ops'[new] = row
      /\ \A o \in 1 .. Len(ops) : ops'[o] = ops[o]
  BY <1>3, <1>4, AppendProperties, LenProperties DEF row
<1>6. DOMAIN ops' = DOMAIN ops \cup {new} /\ new \notin DOMAIN ops /\ new \in Nat
      /\ \A o \in DOMAIN ops : o < new /\ o \in Nat
  BY <1>4, <1>5
<1> HIDE DEF new
<1>7. Onward
  BY <1>4, <1>5, <1>6 DEF Onward, OutboxInv, RowsInv
<1>8. \A o \in DOMAIN ops' : /\ Fine(ops'[o], Len(jobs')) /\ ops'[o].idem \in OwnKey
                             /\ ops'[o].status = "gone" => o \in unsure'
  BY <1>2, <1>4, <1>5, <1>6 DEF OutboxInv, RowsInv
<1>9. \A o, q \in DOMAIN ops' : o < q /\ ops'[o].idem = ops'[q].idem =>
        o \in unsure' /\ ops'[o].idem.kind # "kitchen"
  <2> SUFFICES ASSUME NEW o \in DOMAIN ops', NEW q \in DOMAIN ops', o < q, ops'[o].idem = ops'[q].idem
               PROVE  o \in unsure' /\ ops'[o].idem.kind # "kitchen"
    OBVIOUS
  <2>1. o \in DOMAIN ops /\ ops'[o] = ops[o]
    BY <1>4, <1>5, <1>6
  <2>2. CASE q = new
    BY <1>2, <1>5, <2>1, <2>2
  <2>3. CASE q \in DOMAIN ops
    BY <1>4, <1>5, <2>1, <2>3 DEF OutboxInv, RowsInv
  <2> QED
    BY <1>6, <2>2, <2>3
<1>10. RowsInv'
  BY <1>5, <1>6, <1>7, <1>8, <1>9 DEF RowsInv, Onward
<1> QED
  BY <1>4, <1>5, <1>6, <1>7, <1>10 DEF new, row

(* At most the clerk of s is done.                                         *)
QuietClerks(s) ==
  /\ \A c \in Clerks : clerk'[c] = clerk[c] \/ clerk'[c] = Idle
  /\ \A r \in Submitters : r # s /\ sub[r] # Idle /\ sub[r].step = "sent" =>
       clerk'[sub[r].clerk] = clerk[sub[r].clerk]

(* A step the submission s takes by itself.                                *)
LEMMA OwnStep ==
  ASSUME OutboxInv, Onward, RowsInv', UNCHANGED jobs, odooKey' = odooKey,
         NEW s \in Submitters, NEW x \in SubmissionRow \cup {Idle}, QuietClerks(s),
         sub' = [sub EXCEPT ![s] = x], x # Idle => Joins(s, x),
         \A r \in Submitters : r # s /\ sub[r] # Idle /\ sub[r].mode # "click" =>
           ops'[sub[r].op].status = "queued"
  PROVE  OutboxInv'
<1>1. \A r \in Submitters : r # s => LetsStay(r)
  BY DEF LetsStay, OutboxInv, SubFine, QuietClerks
<1>2. sub' \in [Submitters -> SubmissionRow \cup {Idle}] /\ \A r \in Submitters : SubFine(r)'
  BY <1>1, SubReplaced
<1>3. KnownInv'
  BY KnownLater DEF OutboxInv, KnownInv, QuietClerks
<1> QED
  BY <1>2, <1>3 DEF OutboxInv

LEMMA SubmissionTyped ==
  ASSUME NEW o \in Nat, NEW row \in OpRow, NEW mode \in {"click", "cron", "minted"},
         NEW step \in {"stored", "ready"}, NEW parent \in Nat
  PROVE  /\ Submission(o, row, mode, step) \in SubmissionRow
         /\ [Submission(o, row, mode, step) EXCEPT !.parent = parent] \in SubmissionRow
<1>1. row.printer \in Printers /\ BackupOf[row.printer] \in Printers \cup {NoPrinter}
  BY OutboxAssumption DEF OpRow
<1> QED
  BY <1>1 DEF Submission, SubmissionRow

(* A submission begins, or begins again in a transaction of its own.       *)
LEMMA Begins ==
  ASSUME OutboxInv, Onward, RowsInv', UNCHANGED <<jobs, clerk>>, odooKey' = odooKey,
         NEW s \in Submitters, NEW o \in DOMAIN ops', NEW mode \in {"click", "cron", "minted"},
         NEW step \in {"stored", "ready"}, NEW parent \in Nat, NEW x,
         \/ x = Submission(o, ops'[o], mode, step)
         \/ x = [Submission(o, ops'[o], mode, step) EXCEPT !.parent = parent],
         sub' = [sub EXCEPT ![s] = x],
         mode # "click" => step = "ready" /\ \A r \in Submitters : r # s /\ On(r, o) => sub[r].mode = "click",
         step = "ready" => ops'[o].status = "queued" \/ (mode = "click" /\ o \in unsure'),
         \A q \in DOMAIN ops : ops'[q].status = ops[q].status
  PROVE  OutboxInv'
<1>1. Fine(ops'[o], Len(jobs')) /\ ops'[o] \in OpRow /\ o \in Nat
  <2>1. DOMAIN ops' = 1 .. Len(ops') /\ Len(ops') \in Nat
    BY LenProperties DEF RowsInv
  <2> QED
    BY <2>1 DEF RowsInv, Fine
<1>2. x \in SubmissionRow
  <2>1. /\ Submission(o, ops'[o], mode, step) \in SubmissionRow
        /\ [Submission(o, ops'[o], mode, step) EXCEPT !.parent = parent] \in SubmissionRow
    BY <1>1, SubmissionTyped
  <2> QED
    BY <2>1
<1>3. x.op = o /\ x.row = ops'[o] /\ x.new = ops'[o] /\ x.mode = mode /\ x.step = step
  BY DEF Submission
<1>4. o \in unsure' => ~Clean(o, ops', unsure')
  BY DEF Clean
<1>5. Joins(s, x)
  BY <1>1, <1>3, <1>4 DEF Joins
<1>6. \A r \in Submitters : r # s /\ sub[r] # Idle /\ sub[r].mode # "click" =>
        ops'[sub[r].op].status = "queued"
  BY DEF OutboxInv, SubFine
<1> QED
  BY <1>2, <1>5, <1>6, OwnStep DEF QuietClerks

LEMMA SubmissionKept ==
  ASSUME OutboxInv, NEW s \in Submitters, sub[s] # Idle
  PROVE  /\ sub[s] \in SubmissionRow /\ sub[s].op \in DOMAIN ops
         /\ sub[s].row \in OpRow /\ sub[s].new \in OpRow
         /\ Fine(sub[s].row, Len(jobs)) /\ Fine(sub[s].new, Len(jobs))
         /\ sub[s].row.idem = ops[sub[s].op].idem
         /\ Fine(ops[sub[s].op], Len(jobs)) /\ ops[sub[s].op] \in OpRow
BY DEF OutboxInv, SubFine, Fine, RowsInv

LEMMA Doubting ==
  ASSUME OutboxInv, NEW s \in Submitters, sub[s] # Idle, NEW doubted \in BOOLEAN, Doubt(s, doubted)
  PROVE  /\ unsure \subseteq unsure' /\ unsure' \subseteq DOMAIN ops
         /\ doubted => sub[s].op \in unsure'
BY DEF OutboxInv, SubFine, RowsInv, Doubt

(* What is written waits for its commit.                                   *)
LEMMA WrittenFine ==
  ASSUME OutboxInv, Len(jobs) \in Nat, UNCHANGED jobs, odooKey' = odooKey,
         NEW s \in Submitters, QuietClerks(s), sub[s] # Idle, sub[s].step \in {"ready", "sent"},
         NEW new, Fine(new, Len(jobs)), new.idem = sub[s].row.idem, new.status # "gone",
         NEW reached, RecordAtCommit(s, new, reached)
  PROVE  Onward /\ OutboxInv'
<1> DEFINE x == [sub[s] EXCEPT !.step = "written", !.new = new]
<1>1. /\ sub[s] \in SubmissionRow /\ sub[s].op \in DOMAIN ops /\ Fine(sub[s].row, Len(jobs))
      /\ sub[s].row.idem = ops[sub[s].op].idem
  BY SubmissionKept
<1>2. x \in SubmissionRow
  BY <1>1 DEF SubmissionRow, Fine
<1>3. /\ x.op = sub[s].op /\ x.row = sub[s].row /\ x.new = new /\ x.step = "written"
      /\ x.mode = sub[s].mode
  BY <1>1 DEF SubmissionRow
<1>4. sub' = [sub EXCEPT ![s] = x] /\ ops' = ops
  BY DEF RecordAtCommit
<1> HIDE DEF x
<1>5. Onward /\ RowsInv'
  <2>1. unsure \subseteq unsure' /\ unsure' \subseteq DOMAIN ops
    BY Doubting DEF RecordAtCommit
  <2> QED
    BY <1>4, <2>1, RowsUntouched
<1>6. Clean(x.op, ops', unsure') => Clean(sub[s].op, ops, unsure)
  BY <1>1, <1>3, <1>5, CleanBefore
<1>7. Joins(s, x)
  BY <1>1, <1>3, <1>4, <1>6 DEF Joins, OutboxInv, SubFine
<1>8. \A r \in Submitters : r # s /\ sub[r] # Idle /\ sub[r].mode # "click" =>
        ops'[sub[r].op].status = "queued"
  BY <1>4 DEF OutboxInv, SubFine
<1> QED
  BY <1>2, <1>4, <1>5, <1>7, <1>8, OwnStep

(* A failure is recorded at once, or its record is lost.                   *)
Persisted(row, new) ==
  [row EXCEPT !.status = new.status, !.attempts = new.attempts, !.error = new.error, !.due = new.due]

Recordable(o, new) == ~Held(o) /\ MayBecome(ops[o].status, new.status)

LEMMA PersistEffects ==
  ASSUME OutboxInv, NEW s \in Submitters, sub[s] # Idle, NEW new, NEW reached,
         PersistState(s, new, reached)
  PROVE  /\ sub' = [sub EXCEPT ![s] = Idle]
         /\ \/ Recordable(sub[s].op, new) /\ ops' = [ops EXCEPT ![sub[s].op] = Persisted(ops[sub[s].op], new)]
            \/ ~Recordable(sub[s].op, new) /\ ops' = ops
         /\ Doubt(s, \/ reached = "hidden"
                     \/ ~Recordable(sub[s].op, new) /\ reached = "maybe"
                     \/ Recordable(sub[s].op, new) /\ ops[sub[s].op] # sub[s].row)
BY DEF PersistState, Recordable, Persisted

LEMMA PersistedFine ==
  ASSUME OutboxInv, Len(jobs) \in Nat, UNCHANGED jobs, odooKey' = odooKey,
         NEW s \in Submitters, QuietClerks(s), sub[s] # Idle,
         NEW new \in OpRow, new.status = "queued" => new.attempts < MaxAttempts, new.status # "gone",
         NEW reached, PersistState(s, new, reached)
  PROVE  Onward /\ OutboxInv'
<1> DEFINE o == sub[s].op
           row == Persisted(ops[o], new)
<1>1. o \in DOMAIN ops /\ Fine(ops[o], Len(jobs)) /\ ops[o] \in OpRow
  BY SubmissionKept
<1>2. unsure \subseteq unsure' /\ unsure' \subseteq DOMAIN ops
  BY PersistEffects, Doubting
<1>3. CASE Recordable(o, new) /\ ops' = [ops EXCEPT ![o] = row]
  <2>1. row \in OpRow /\ row.status = new.status /\ row.attempts = new.attempts
        /\ row.remote = ops[o].remote /\ row.idem = ops[o].idem
    BY <1>1 DEF Persisted, OpRow
  <2>2. new.status = "queued" => ops[o].status = "queued"
    BY <1>1, <1>3, Transitions DEF Recordable, OpRow
  <2>3. Fine(row, Len(jobs))
    BY <1>1, <2>1, <2>2 DEF Fine
  <2> HIDE DEF row
  <2>4. Onward /\ RowsInv' /\ \A q \in DOMAIN ops : q # o => ops'[q] = ops[q]
    BY <1>1, <1>2, <1>3, <2>1, <2>3, RowReplaced
  <2>5. \A r \in Submitters : r # s /\ sub[r] # Idle /\ sub[r].mode # "click" =>
          ops'[sub[r].op].status = "queued"
    <3>1. \A r \in Submitters : sub[r] # Idle /\ sub[r].mode # "click" =>
            ops[sub[r].op].status = "queued" /\ sub[r].op \in DOMAIN ops /\ sub[r] \in SubmissionRow
      BY DEF OutboxInv, SubFine
    <3>2. \A r \in Submitters : sub[r] # Idle /\ sub[r].mode # "click" => sub[r].op # o
      BY <1>3, <3>1 DEF Recordable, Held, On, Submitters, SubmissionRow
    <3> QED
      BY <2>4, <3>1, <3>2
  <2> QED
    BY <2>4, <2>5, PersistEffects, OwnStep
<1>4. CASE ops' = ops
  <2>1. Onward /\ RowsInv'
    BY <1>2, <1>4, RowsUntouched
  <2>2. \A r \in Submitters : r # s /\ sub[r] # Idle /\ sub[r].mode # "click" =>
          ops'[sub[r].op].status = "queued"
    BY <1>4 DEF OutboxInv, SubFine
  <2> QED
    BY <2>1, <2>2, PersistEffects, OwnStep
<1> QED
  BY <1>3, <1>4, PersistEffects

LEMMA FailureFine ==
  ASSUME OutboxInv, Len(jobs) \in Nat, UNCHANGED jobs, odooKey' = odooKey,
         NEW s \in Submitters, QuietClerks(s), sub[s] # Idle, sub[s].step \in {"ready", "sent"},
         NEW new, \/ new = Rejected(sub[s].row) \/ new = Ambiguous(sub[s].row)
                  \/ \E atOnce \in BOOLEAN : new = Again(sub[s].row, atOnce),
         NEW reached, RecordFailure(s, new, reached)
  PROVE  Onward /\ OutboxInv'
<1>1. Fine(sub[s].row, Len(jobs)) /\ (sub[s].mode # "click" => sub[s].row.status = "queued")
  BY DEF OutboxInv, SubFine
<1>2. /\ new \in OpRow /\ new.status # "gone" /\ new.idem = sub[s].row.idem
      /\ new.status = "queued" => new.attempts < MaxAttempts
      /\ sub[s].row.status = "queued" => Fine(new, Len(jobs))
  <2>1. CASE new = Rejected(sub[s].row)
    BY <1>1, <2>1, RejectedRow DEF SameOrder, Fine
  <2>2. CASE new = Ambiguous(sub[s].row)
    BY <1>1, <2>2, AmbiguousRow DEF SameOrder, Fine
  <2>3. CASE \E atOnce \in BOOLEAN : new = Again(sub[s].row, atOnce)
    BY <1>1, <2>3, AgainRow DEF SameOrder
  <2> QED
    BY <2>1, <2>2, <2>3
<1>3. CASE sub[s].mode = "click" /\ PersistState(s, new, reached)
  BY <1>2, <1>3, PersistedFine
<1>4. CASE sub[s].mode # "click" /\ RecordAtCommit(s, new, reached)
  BY <1>1, <1>2, <1>4, WrittenFine
<1> QED
  BY <1>3, <1>4 DEF RecordFailure

LEMMA ClickFine ==
  ASSUME OutboxInv, Len(jobs) \in Nat, UNCHANGED <<jobs, clerk>>,
         NEW s \in Submitters, NEW idem \in OwnKey, NEW p \in Printers, NEW document \in Documents,
         Click(s, idem, p, document)
  PROVE  Onward /\ OutboxInv'
<1>1. unsure' = unsure /\ odooKey' = odooKey /\ unsure \subseteq DOMAIN ops
  BY DEF Click, OutboxInv, RowsInv
<1>2. CASE \E o \in DOMAIN ops :
             sub' = [sub EXCEPT ![s] = Submission(o, ops[o], "click", "stored")] /\ ops' = ops
  <2>1. PICK o \in DOMAIN ops :
          sub' = [sub EXCEPT ![s] = Submission(o, ops'[o], "click", "stored")] /\ ops' = ops
    BY <1>2
  <2>2. Onward /\ RowsInv'
    BY <1>1, <2>1, RowsUntouched
  <2> DEFINE x == Submission(o, ops'[o], "click", "stored")
  <2> QED
    BY <1>1, <2>1, <2>2, Begins
<1>3. CASE /\ \A o \in DOMAIN ops : ops[o].idem # idem
           /\ ops' = Append(ops, NewOp(idem, p, document))
           /\ sub' = [sub EXCEPT ![s] = Submission(Len(ops) + 1, ops'[Len(ops) + 1], "click", "stored")]
  <2> DEFINE o == Len(ops) + 1
  <2>1. Onward /\ RowsInv' /\ o \in DOMAIN ops' /\ \A q \in DOMAIN ops : ops'[q] = ops[q]
    BY <1>1, <1>3, RowAdded
  <2>2. sub' = [sub EXCEPT ![s] = Submission(o, ops'[o], "click", "stored")]
    BY <1>3
  <2> HIDE DEF o
  <2> QED
    BY <1>1, <2>1, <2>2, Begins
<1> QED
  BY <1>2, <1>3 DEF Click

LEMMA MintFine ==
  ASSUME OutboxInv, Len(jobs) \in Nat, UNCHANGED <<jobs, clerk>>,
         NEW s \in Submitters, NEW from \in DOMAIN ops, NEW idem \in OwnKey, NEW parent \in Nat,
         idem.kind # "kitchen", Mint(s, from, idem, parent)
  PROVE  Onward /\ OutboxInv'
<1> DEFINE o == Len(ops) + 1
<1>1. unsure' = unsure /\ odooKey' = odooKey
  BY DEF Mint
<1>2. ops[from].printer \in Printers /\ ops[from].document \in Documents
  <2>1. ops[from] \in OpRow
    BY DEF OutboxInv, RowsInv, Fine
  <2> QED
    BY <2>1 DEF OpRow
<1>3. ops' = Append(ops, NewOp(idem, ops[from].printer, ops[from].document))
  BY DEF Mint
<1>4. \A q \in DOMAIN ops : ops[q].idem = idem => q \in unsure /\ idem.kind # "kitchen"
  BY DEF Mint, OutboxInv, RowsInv
<1>5. /\ Onward /\ RowsInv' /\ o \in DOMAIN ops' /\ o \notin DOMAIN ops
      /\ ops'[o] = NewOp(idem, ops[from].printer, ops[from].document)
      /\ \A q \in DOMAIN ops : ops'[q] = ops[q]
  BY <1>1, <1>2, <1>3, <1>4, RowAdded
<1>6. sub' = [sub EXCEPT ![s] = [Submission(o, ops'[o], "minted", "ready") EXCEPT !.parent = parent]]
  BY DEF Mint
<1>7. ops'[o].status = "queued"
  BY <1>5 DEF NewOp
<1>8. \A r \in Submitters : ~On(r, o)
  BY <1>5 DEF OutboxInv, SubFine, On
<1> HIDE DEF o
<1> QED
  BY <1>1, <1>5, <1>6, <1>7, <1>8, Begins

LEMMA FailOverFine ==
  ASSUME OutboxInv, Len(jobs) \in Nat, UNCHANGED <<jobs, clerk>>, NEW s \in Submitters, FailOver(s)
  PROVE  /\ Onward /\ OutboxInv'
         /\ \A o \in DOMAIN ops : ops'[o].status = ops[o].status /\ ops'[o].remote = ops[o].remote
<1> DEFINE o == sub[s].op
           q == sub[s].next
           moved == [sub[s].row EXCEPT !.printer = q, !.error = "plain"]
<1>1. /\ sub[s] # Idle /\ sub[s].step = "ready" /\ q # NoPrinter /\ sub[s].depth < 3
      /\ unsure' = unsure /\ odooKey' = odooKey
  BY DEF FailOver, Ready, CanFailOver
<1>2. /\ sub[s] \in SubmissionRow /\ o \in DOMAIN ops /\ sub[s].row \in OpRow
      /\ Fine(sub[s].row, Len(jobs)) /\ Fine(sub[s].new, Len(jobs))
      /\ sub[s].row.idem = ops[o].idem /\ Fine(ops[o], Len(jobs)) /\ ops[o] \in OpRow
  BY <1>1, SubmissionKept
<1>3. q \in Printers /\ BackupOf[q] \in Printers \cup {NoPrinter} /\ sub[s].depth + 1 \in 0..3
  BY <1>1, <1>2, OutboxAssumption DEF SubmissionRow
<1>4. /\ moved \in OpRow /\ Fine(moved, Len(jobs)) /\ moved.idem = sub[s].row.idem
      /\ moved.status = sub[s].row.status
  BY <1>2, <1>3 DEF OpRow, Fine, Errors
<1>5. unsure \subseteq DOMAIN ops
  BY DEF OutboxInv, RowsInv
<1>6. /\ ops' = ops \/ ops' = [ops EXCEPT ![o] = [ops[o] EXCEPT !.printer = q, !.error = "plain"]]
      /\ \/ \E seen \in {sub[s].row, moved} :
              sub' = [sub EXCEPT ![s] = [sub[s] EXCEPT !.row = seen, !.visited = @ \cup {q},
                                                       !.next = BackupOf[q], !.depth = @ + 1]]
         \/ sub' = [sub EXCEPT ![s] = Idle]
  <2>1. PICK seen \in {sub[s].row, moved} :
          \/ /\ sub' = [sub EXCEPT ![s] = [sub[s] EXCEPT !.row = seen, !.visited = @ \cup {q},
                                                         !.next = BackupOf[q], !.depth = @ + 1]]
             /\ ops' = IF sub[s].mode = "click"
                       THEN [ops EXCEPT ![o].printer = q, ![o].error = "plain"] ELSE ops
          \/ sub' = [sub EXCEPT ![s] = Idle] /\ ops' = ops
    BY DEF FailOver
  <2>2. [ops EXCEPT ![o].printer = q, ![o].error = "plain"]
          = [ops EXCEPT ![o] = [ops[o] EXCEPT !.printer = q, !.error = "plain"]]
    BY <1>2
  <2> QED
    BY <2>1, <2>2
<1>7. /\ Onward /\ RowsInv'
      /\ \A p \in DOMAIN ops : ops'[p].status = ops[p].status /\ ops'[p].remote = ops[p].remote
  <2>1. CASE ops' = ops
    BY <1>1, <1>5, <2>1, RowsUntouched
  <2>2. CASE ops' = [ops EXCEPT ![o] = [ops[o] EXCEPT !.printer = q, !.error = "plain"]]
    <3> DEFINE row == [ops[o] EXCEPT !.printer = q, !.error = "plain"]
    <3>1. /\ row \in OpRow /\ row.status = ops[o].status /\ row.remote = ops[o].remote
          /\ row.idem = ops[o].idem /\ row.attempts = ops[o].attempts
      BY <1>2, <1>3 DEF OpRow, Errors
    <3>2. Fine(row, Len(jobs)) /\ (row.status = "gone" => o \in unsure')
      BY <1>1, <1>2, <3>1 DEF Fine, OutboxInv, RowsInv
    <3> HIDE DEF row
    <3>3. /\ Onward /\ RowsInv' /\ ops'[o] = row
          /\ \A p \in DOMAIN ops : p # o => ops'[p] = ops[p]
      BY <1>1, <1>2, <1>5, <2>2, <3>1, <3>2, RowReplaced DEF row
    <3> QED
      BY <3>1, <3>3
  <2> QED
    BY <1>6, <2>1, <2>2
<1>8. \A r \in Submitters : r # s /\ sub[r] # Idle /\ sub[r].mode # "click" =>
        ops'[sub[r].op].status = "queued"
  BY <1>7 DEF OutboxInv, SubFine
<1>9. CASE sub' = [sub EXCEPT ![s] = Idle]
  BY <1>1, <1>7, <1>8, <1>9, OwnStep DEF QuietClerks
<1>10. ASSUME NEW seen \in {sub[s].row, moved},
              sub' = [sub EXCEPT ![s] = [sub[s] EXCEPT !.row = seen, !.visited = @ \cup {q},
                                                       !.next = BackupOf[q], !.depth = @ + 1]]
       PROVE  OutboxInv'
  <2> DEFINE x == [sub[s] EXCEPT !.row = seen, !.visited = @ \cup {q},
                                 !.next = BackupOf[q], !.depth = @ + 1]
  <2>1. /\ seen \in OpRow /\ Fine(seen, Len(jobs)) /\ seen.idem = sub[s].row.idem
        /\ seen.status = sub[s].row.status
    BY <1>2, <1>4
  <2> HIDE DEF moved
  <2>2. x \in SubmissionRow
    BY <1>2, <1>3, <2>1 DEF SubmissionRow
  <2>3. /\ x.op = o /\ x.row = seen /\ x.new = sub[s].new /\ x.mode = sub[s].mode /\ x.step = "ready"
    BY <1>1, <1>2 DEF SubmissionRow
  <2>4. sub' = [sub EXCEPT ![s] = x]
    BY <1>10
  <2> HIDE DEF x
  <2>5. Clean(o, ops', unsure') => Clean(o, ops, unsure)
    BY <1>2, <1>7, CleanBefore
  <2>6. ops'[o].idem = ops[o].idem /\ o \in DOMAIN ops'
    BY <1>2, <1>7 DEF Onward
  <2>7. Joins(s, x)
    BY <1>1, <1>2, <1>7, <2>1, <2>3, <2>5, <2>6 DEF Joins, OutboxInv, SubFine
  <2> QED
    BY <1>1, <1>7, <1>8, <2>2, <2>4, <2>7, OwnStep DEF QuietClerks
<1> QED
  BY <1>6, <1>7, <1>9, <1>10

(* The commit of a submission, in the rows.                                *)
LEMMA CommitRows ==
  ASSUME OutboxInv, Len(jobs) \in Nat, UNCHANGED jobs, NEW s \in Submitters, Commit(s)
  PROVE  LET o == sub[s].op
             unchanged == ops[o] = sub[s].row \/ sub[s].mode # "click"
         IN  /\ sub[s] # Idle /\ sub[s].step = "written" /\ o \in DOMAIN ops
             /\ Onward /\ RowsInv' /\ sub' = [sub EXCEPT ![s] = Idle] /\ odooKey' = odooKey
             /\ sub[s].mode = "click" => ~Held(o)
             /\ unchanged => ops'[o] = sub[s].new
             /\ ~unchanged => o \in unsure'
             /\ \A q \in DOMAIN ops : q # o \/ ~unchanged =>
                  ops'[q].status = ops[q].status /\ ops'[q].remote = ops[q].remote
<1> DEFINE o == sub[s].op
           unchanged == ops[o] = sub[s].row \/ sub[s].mode # "click"
           Noted(row) == [row EXCEPT !.reprints = @ + 1]
<1>1. /\ sub[s] # Idle /\ sub[s].step = "written" /\ sub' = [sub EXCEPT ![s] = Idle] /\ odooKey' = odooKey
      /\ sub[s].mode = "click" => ~Held(o)
      /\ Doubt(s, ~unchanged)
      /\ ops' = [q \in DOMAIN ops |-> IF q = o /\ unchanged THEN sub[s].new
                                      ELSE IF q = sub[s].parent THEN Noted(ops[q]) ELSE ops[q]]
  BY DEF Commit
<1>2. /\ o \in DOMAIN ops /\ Fine(sub[s].new, Len(jobs)) /\ sub[s].new.idem = ops[o].idem
      /\ sub[s].new.status # "gone"
  BY <1>1 DEF OutboxInv, SubFine
<1>3. unsure \subseteq unsure' /\ unsure' \subseteq DOMAIN ops /\ (~unchanged => o \in unsure')
  BY <1>1, Doubting
<1>4. ASSUME NEW q \in DOMAIN ops
      PROVE  /\ Fine(Noted(ops[q]), Len(jobs)) /\ Noted(ops[q]).idem = ops[q].idem
             /\ Noted(ops[q]).status = ops[q].status /\ Noted(ops[q]).remote = ops[q].remote
  <2>1. Fine(ops[q], Len(jobs)) /\ ops[q] \in OpRow
    BY DEF OutboxInv, RowsInv, Fine
  <2>2. /\ Noted(ops[q]) \in OpRow /\ Noted(ops[q]).idem = ops[q].idem
        /\ Noted(ops[q]).status = ops[q].status /\ Noted(ops[q]).remote = ops[q].remote
        /\ Noted(ops[q]).attempts = ops[q].attempts
    BY <2>1 DEF OpRow
  <2> HIDE DEF Noted
  <2> QED
    BY <2>1, <2>2 DEF Fine
<1> HIDE DEF Noted
<1>5. ASSUME NEW q \in DOMAIN ops
      PROVE  \/ q = o /\ unchanged /\ ops'[q] = sub[s].new
             \/ (q # o \/ ~unchanged) /\ (ops'[q] = ops[q] \/ ops'[q] = Noted(ops[q]))
  BY <1>1
<1> HIDE DEF unchanged
<1>6. \A q \in DOMAIN ops : /\ Fine(ops'[q], Len(jobs')) /\ ops'[q].idem = ops[q].idem
                            /\ ops'[q].status = "gone" => q \in unsure'
                            /\ q # o \/ ~unchanged =>
                                 ops'[q].status = ops[q].status /\ ops'[q].remote = ops[q].remote
  BY <1>2, <1>3, <1>4, <1>5 DEF OutboxInv, RowsInv
<1>7. ops' \in Seq(OpRow) /\ DOMAIN ops' = DOMAIN ops
  <2>1. DOMAIN ops' = DOMAIN ops /\ \A q \in DOMAIN ops : ops'[q] \in OpRow
    BY <1>1, <1>6 DEF Fine
  <2>2. ops' = [q \in DOMAIN ops' |-> ops'[q]]
    BY <1>1
  <2>3. ops' \in [DOMAIN ops -> OpRow]
    BY <2>1, <2>2
  <2> QED
    BY <2>3, SequenceLike DEF OutboxInv, RowsInv
<1>8. Onward /\ RowsInv'
  BY <1>3, <1>6, <1>7, RowsReplaced
<1> QED
  BY <1>1, <1>2, <1>3, <1>5, <1>6, <1>8 DEF unchanged

(* A step that leaves the submissions alone and changes one row nobody     *)
(* holds.                                                                  *)
LEMMA RowStep ==
  ASSUME OutboxInv, Len(jobs) \in Nat, UNCHANGED <<jobs, clerk, sub, odooKey, unsure>>,
         NEW o \in DOMAIN ops, ~Held(o), NEW row, ops' = [ops EXCEPT ![o] = row],
         Fine(row, Len(jobs)), row.idem = ops[o].idem, row.status = "gone" => o \in unsure
  PROVE  Onward /\ OutboxInv' /\ ops'[o] = row /\ \A q \in DOMAIN ops : q # o => ops'[q] = ops[q]
<1>1. unsure \subseteq DOMAIN ops
  BY DEF OutboxInv, RowsInv
<1>2. Onward /\ RowsInv' /\ ops'[o] = row /\ \A q \in DOMAIN ops : q # o => ops'[q] = ops[q]
  BY <1>1, RowReplaced
<1>3. ASSUME NEW r \in Submitters, sub[r] # Idle, sub[r].mode # "click" PROVE sub[r].op # o
  BY <1>3 DEF OutboxInv, Held, On, Submitters, SubmissionRow
<1>4. \A r \in Submitters : SubFine(r)'
  <2> SUFFICES ASSUME NEW r \in Submitters, sub[r] # Idle PROVE SubFine(r)'
    BY DEF SubFine
  <2>1. SubFine(r) /\ sub[r].op \in DOMAIN ops
    BY DEF OutboxInv, SubFine
  <2>2. ops'[sub[r].op].idem = ops[sub[r].op].idem /\ sub[r].op \in DOMAIN ops'
    BY <1>2, <2>1 DEF Onward
  <2>3. Clean(sub[r].op, ops', unsure') => Clean(sub[r].op, ops, unsure)
    BY <1>2, <2>1, CleanBefore
  <2>4. sub[r].mode # "click" => ops'[sub[r].op] = ops[sub[r].op]
    BY <1>2, <1>3, <2>1
  <2> QED
    BY <2>1, <2>2, <2>3, <2>4 DEF SubFine, SentTo, On
<1>5. KnownInv'
  BY <1>2, KnownLater DEF OutboxInv, KnownInv
<1> QED
  BY <1>2, <1>4, <1>5 DEF OutboxInv

LEMMA OutboxAloneStep ==
  ASSUME OutboxInv, AnswersInv, OutboxAlone, UNCHANGED admissionVars
  PROVE  Onward /\ OutboxInv'
<1>1. UNCHANGED <<jobs, clerk>> /\ Len(jobs) \in Nat /\ unsure \subseteq DOMAIN ops
  BY LenProperties DEF admissionVars, AnswersInv, AdmissionTypeOK, OutboxInv, RowsInv
<1>2. \A s \in Submitters : QuietClerks(s)
  BY <1>1 DEF QuietClerks
<1>3. \A s \in Web \cup Cron : s \in Submitters
  BY DEF Submitters
<1>4. ASSUME NEW s \in Web, NEW idem \in OwnKey, NEW p \in Printers, NEW document \in Documents,
             Click(s, idem, p, document)
      PROVE  Onward /\ OutboxInv'
  BY <1>1, <1>3, <1>4, ClickFine
<1>5. ASSUME NEW s \in Web, NEW o \in 1..MaxOps, Retry(s, o) \/ ForceReprint(s, o)
      PROVE  Onward /\ OutboxInv'
  <2>1. o \in DOMAIN ops /\ Len(ops) + 1 \in Nat /\ o \in Nat
    <3>1. Len(ops) \in Nat /\ DOMAIN ops = 1 .. Len(ops)
      BY LenProperties DEF OutboxInv, RowsInv
    <3> QED
      BY <1>5, <3>1 DEF Retry, ForceReprint
  <2>2. CASE Retry(s, o)
    <3>1. Idem(Len(ops) + 1) \in OwnKey /\ Idem(Len(ops) + 1).kind # "kitchen"
      BY <2>1 DEF Idem, OwnKey, IdemKey, OwnKinds
    <3> QED
      BY <1>1, <1>3, <2>1, <2>2, <3>1, MintFine DEF Retry
  <2>3. CASE ForceReprint(s, o)
    <3> DEFINE key == [kind |-> "odoo-reprint", of |-> o, n |-> ops[o].reprints + 1]
    <3>1. ops[o].reprints + 1 \in Nat
      <4>1. ops[o] \in OpRow
        BY <2>1 DEF OutboxInv, RowsInv, Fine
      <4> QED
        BY <4>1 DEF OpRow
    <3>2. key \in OwnKey /\ key.kind # "kitchen"
      BY <2>1, <3>1 DEF OwnKey, IdemKey, OwnKinds
    <3>3. Mint(s, o, key, o)
      BY <2>3 DEF ForceReprint
    <3> HIDE DEF key
    <3> QED
      BY <1>1, <1>3, <2>1, <3>2, <3>3, MintFine
  <2> QED
    BY <1>5, <2>2, <2>3
<1>6. ASSUME NEW k \in Keys, ConfigureKey(k) PROVE Onward /\ OutboxInv'
  <2>1. UNCHANGED <<ops, sub, unsure>> /\ odooKey' \in Keys
    BY <1>6 DEF ConfigureKey
  <2>2. Onward
    BY <1>1, <2>1, RowsUntouched
  <2> QED
    BY <1>1, <2>1, <2>2 DEF OutboxInv, RowsInv, KnownInv, SubFine, SentTo, On
<1>7. ASSUME NEW s \in Cron, NEW o \in 1..MaxOps, StartCron(s, o) PROVE Onward /\ OutboxInv'
  <2>1. o \in DOMAIN ops /\ ops' = ops /\ unsure' = unsure /\ odooKey' = odooKey
        /\ ops'[o].status = "queued" /\ sub' = [sub EXCEPT ![s] = Submission(o, ops'[o], "cron", "ready")]
    BY <1>7 DEF StartCron
  <2>2. Onward /\ RowsInv'
    BY <1>1, <2>1, RowsUntouched
  <2>3. \A r \in Submitters : On(r, o) => sub[r].mode = "click"
    <3>1. \A r \in Submitters : sub[r] # Idle => sub[r].mode \in {"click", "cron", "minted"}
      BY DEF OutboxInv, SubmissionRow
    <3> QED
      BY <1>7, <3>1 DEF StartCron, Held, On, Submitters
  <2> QED
    BY <1>1, <1>3, <2>1, <2>2, <2>3, Begins
<1>8. ASSUME NEW s \in Submitters, StartClick(s) PROVE Onward /\ OutboxInv'
  <2> DEFINE o == sub[s].op
  <2>1. /\ sub[s] # Idle /\ o \in DOMAIN ops /\ ops' = ops /\ odooKey' = odooKey
    BY <1>8, SubmissionKept DEF StartClick
  <2>2. \/ sub' = [sub EXCEPT ![s] = Idle] /\ unsure' = unsure
        \/ /\ sub' = [sub EXCEPT ![s] = Submission(o, ops'[o], "click", "ready")]
           /\ unsure' = IF ops[o].status = "queued" THEN unsure ELSE unsure \cup {o}
    BY <1>8 DEF StartClick
  <2> HIDE DEF o
  <2>3. unsure \subseteq unsure' /\ unsure' \subseteq DOMAIN ops
    BY <1>1, <2>1, <2>2
  <2>4. Onward /\ RowsInv'
    BY <1>1, <2>1, <2>3, RowsUntouched
  <2>5. CASE sub' = [sub EXCEPT ![s] = Idle]
    <3>1. \A r \in Submitters : r # s /\ sub[r] # Idle /\ sub[r].mode # "click" =>
            ops'[sub[r].op].status = "queued"
      BY <2>1 DEF OutboxInv, SubFine
    <3> QED
      BY <1>1, <1>2, <2>1, <2>4, <2>5, <3>1, OwnStep
  <2>6. CASE /\ sub' = [sub EXCEPT ![s] = Submission(o, ops'[o], "click", "ready")]
             /\ unsure' = IF ops[o].status = "queued" THEN unsure ELSE unsure \cup {o}
    <3>1. ops'[o].status = "queued" \/ o \in unsure'
      BY <2>1, <2>6
    <3> QED
      BY <1>1, <2>1, <2>4, <2>6, <3>1, Begins
  <2> QED
    BY <2>2, <2>5, <2>6
<1>9. ASSUME NEW s \in Submitters, Commit(s) PROVE Onward /\ OutboxInv'
  <2> DEFINE o == sub[s].op
             unchanged == ops[o] = sub[s].row \/ sub[s].mode # "click"
  <2>1. /\ sub[s] # Idle /\ o \in DOMAIN ops /\ sub' = [sub EXCEPT ![s] = Idle]
        /\ Onward /\ RowsInv' /\ odooKey' = odooKey /\ (sub[s].mode = "click" => ~Held(o))
        /\ \A q \in DOMAIN ops : q # o \/ ~unchanged => ops'[q].status = ops[q].status
    BY <1>1, <1>9, CommitRows
  <2> HIDE DEF unchanged
  <2>2. ASSUME NEW r \in Submitters, r # s, sub[r] # Idle, sub[r].mode # "click"
        PROVE  ops'[sub[r].op].status = "queued"
    <3>1. ops[sub[r].op].status = "queued" /\ sub[r].op \in DOMAIN ops /\ sub[r] \in SubmissionRow
      BY <2>2 DEF OutboxInv, SubFine
    <3>2. sub[r].op # o
      BY <2>1, <2>2, <3>1 DEF OutboxInv, SubFine, On, Held, Submitters, SubmissionRow
    <3> QED
      BY <2>1, <3>1, <3>2
  <2> QED
    BY <1>1, <1>2, <2>1, <2>2, OwnStep
<1>10. ASSUME NEW s \in Submitters, FailOver(s) PROVE Onward /\ OutboxInv'
  BY <1>1, <1>10, FailOverFine
<1>11. ASSUME NEW s \in Submitters, PutOff(s) \/ TimeOut(s) \/ HiddenAnswer(s)
       PROVE  Onward /\ OutboxInv'
  <2>1. /\ sub[s] # Idle /\ sub[s].step \in {"ready", "sent"} /\ odooKey' = odooKey
    BY <1>11 DEF PutOff, TimeOut, HiddenAnswer, Ready, Under_Way
  <2>2. CASE PutOff(s)
    <3>1. RecordFailure(s, Again(sub[s].row, FALSE), "no")
      BY <2>2 DEF PutOff
    <3> QED
      BY <1>1, <1>2, <2>1, <3>1, FailureFine
  <2>3. CASE TimeOut(s)
    <3>1. RecordFailure(s, Ambiguous(sub[s].row), "maybe")
      BY <2>3 DEF TimeOut
    <3> QED
      BY <1>1, <1>2, <2>1, <3>1, FailureFine
  <2>4. CASE HiddenAnswer(s)
    <3>1. RecordFailure(s, Again(sub[s].row, TRUE), "hidden")
      BY <2>4 DEF HiddenAnswer
    <3> QED
      BY <1>1, <1>2, <2>1, <3>1, FailureFine
  <2> QED
    BY <1>11, <2>2, <2>3, <2>4
<1>12. ASSUME NEW s \in Submitters, Dies(s) PROVE Onward /\ OutboxInv'
  <2> DEFINE o == sub[s].op
  <2>1. /\ sub[s] # Idle /\ sub' = [sub EXCEPT ![s] = Idle] /\ odooKey' = odooKey
        /\ Doubt(s, TRUE)
        /\ ops' = IF sub[s].mode = "minted" THEN [ops EXCEPT ![o].status = "gone"] ELSE ops
    BY <1>12 DEF Dies
  <2>2. o \in DOMAIN ops /\ Fine(ops[o], Len(jobs)) /\ ops[o] \in OpRow
    BY <2>1, SubmissionKept
  <2>3. unsure \subseteq unsure' /\ unsure' \subseteq DOMAIN ops /\ o \in unsure'
    BY <2>1, Doubting
  <2>4. CASE ops' = ops
    <3>1. Onward /\ RowsInv'
      BY <1>1, <2>3, <2>4, RowsUntouched
    <3>2. \A r \in Submitters : r # s /\ sub[r] # Idle /\ sub[r].mode # "click" =>
            ops'[sub[r].op].status = "queued"
      BY <2>4 DEF OutboxInv, SubFine
    <3> QED
      BY <1>1, <1>2, <2>1, <3>1, <3>2, OwnStep
  <2>5. CASE sub[s].mode = "minted" /\ ops' = [ops EXCEPT ![o].status = "gone"]
    <3> DEFINE row == [ops[o] EXCEPT !.status = "gone"]
    <3>1. ops' = [ops EXCEPT ![o] = row]
      BY <2>5
    <3>2. Fine(row, Len(jobs)) /\ row.idem = ops[o].idem
      BY <2>2, StatusesOfOps DEF Fine, OpRow
    <3> HIDE DEF row
    <3>3. Onward /\ RowsInv' /\ \A q \in DOMAIN ops : q # o => ops'[q] = ops[q]
      BY <1>1, <2>2, <2>3, <3>1, <3>2, RowReplaced
    <3>4. \A r \in Submitters : r # s /\ sub[r] # Idle /\ sub[r].mode # "click" =>
            sub[r].op # o /\ ops[sub[r].op].status = "queued" /\ sub[r].op \in DOMAIN ops
      BY <2>1, <2>5 DEF OutboxInv, SubFine, On
    <3>5. \A r \in Submitters : r # s /\ sub[r] # Idle /\ sub[r].mode # "click" =>
            ops'[sub[r].op].status = "queued"
      BY <3>3, <3>4
    <3> HIDE DEF o
    <3> QED
      BY <1>1, <1>2, <2>1, <3>3, <3>5, OwnStep
  <2> QED
    BY <2>1, <2>4, <2>5
<1>13. ASSUME NEW o \in 1..MaxOps, BackoffEnds(o) PROVE Onward /\ OutboxInv'
  <2> DEFINE row == [ops[o] EXCEPT !.due = TRUE]
  <2>1. /\ o \in DOMAIN ops /\ ~Held(o) /\ ops' = [ops EXCEPT ![o] = row]
        /\ UNCHANGED <<sub, odooKey, unsure>>
    BY <1>13 DEF BackoffEnds
  <2>2. Fine(ops[o], Len(jobs)) /\ ops[o] \in OpRow /\ (ops[o].status = "gone" => o \in unsure)
    BY <2>1 DEF OutboxInv, RowsInv, Fine
  <2>3. Fine(row, Len(jobs)) /\ row.idem = ops[o].idem /\ row.status = ops[o].status
    BY <2>2 DEF Fine, OpRow
  <2> HIDE DEF row
  <2> QED
    BY <1>1, <2>1, <2>2, <2>3, RowStep
<1>14. ASSUME NEW o \in 1..MaxOps, Sync(o) PROVE Onward /\ OutboxInv'
  <2>1. /\ o \in DOMAIN ops /\ ops[o].remote # 0 /\ ~Held(o) /\ UNCHANGED <<sub, odooKey, unsure>>
    BY <1>14 DEF Sync
  <2>2. /\ Fine(ops[o], Len(jobs)) /\ ops[o] \in OpRow /\ (ops[o].status = "gone" => o \in unsure)
        /\ ops[o].status # "queued"
    BY <2>1 DEF OutboxInv, RowsInv, Fine
  <2>3. CASE ops' = [ops EXCEPT ![o].status = "unknown", ![o].error = "plain"]
    <3> DEFINE row == [ops[o] EXCEPT !.status = "unknown", !.error = "plain"]
    <3>1. ops' = [ops EXCEPT ![o] = row]
      BY <2>1, <2>3
    <3>2. Fine(row, Len(jobs)) /\ row.idem = ops[o].idem /\ row.status = "unknown"
      BY <2>2, StatusesOfOps DEF Fine, OpRow, Errors
    <3> HIDE DEF row
    <3> QED
      BY <1>1, <2>1, <3>1, <3>2, RowStep
  <2>4. CASE /\ StatusCode(odooKey, ops[o].remote) = 200
             /\ ops' = [ops EXCEPT ![o] = Synced(@, Body(ops[o].remote))]
    <3> DEFINE i == ops[o].remote
               row == Synced(ops[o], Body(i))
    <3>1. i \in DOMAIN jobs
      BY <2>4 DEF StatusCode, Exists
    <3>2. jobs[i] \in JobRow
      BY <3>1 DEF AnswersInv, AdmissionTypeOK
    <3>3. Body(i).status \in Statuses /\ Body(i).error \in Errors
      BY <3>1, <3>2 DEF Body, JobRow
    <3>4. Fine(row, Len(jobs)) /\ row.idem = ops[o].idem
      BY <1>1, <2>2, <3>3, SyncedRow DEF SameOrder
    <3>5. ops' = [ops EXCEPT ![o] = row]
      BY <2>4
    <3>6. row.status = "gone" => ops[o].status = "gone"
      BY <3>3, StatusesOfOps DEF Synced, Statuses
    <3> HIDE DEF row
    <3> QED
      BY <1>1, <2>1, <2>2, <3>4, <3>5, <3>6, RowStep
  <2> QED
    BY <1>14, <2>3, <2>4 DEF Sync
<1> QED
  BY <1>4, <1>5, <1>6, <1>7, <1>8, <1>9, <1>10, <1>11, <1>12, <1>13, <1>14 DEF OutboxAlone

-----------------------------------------------------------------------------
(* The outbox and the Gateway.                                             *)

LEMMA ReceivedKey ==
  ASSUME AdmissionTypeOK, NEW c \in Clerks, NEW key, NEW idem, NEW p, NEW document,
         Receive(c, key, idem, p, document)
  PROVE  clerk'[c].idem = idem
<1> DEFINE request == Request("lookup", key, idem, p, document)
           code == IF ~ValidOdooKey(key) THEN 401
                   ELSE IF ~KeyWrites(key, document) THEN 403
                   ELSE IF ~ValidPayload(Languages[document]) THEN 400 ELSE 0
<1>1. clerk' = [clerk EXCEPT ![c] =
                  IF code # 0 THEN [request EXCEPT !.step = "answered", !.code = code]
                  ELSE IF idem = NoIdem THEN [request EXCEPT !.step = "check"] ELSE request]
  BY DEF Receive
<1>2. request.idem = idem
  BY DEF Request
<1> HIDE DEF request, code
<1> QED
  BY <1>1, <1>2 DEF AdmissionTypeOK

LEMMA OthersKey ==
  ASSUME AnswersInv, NEW c \in Clerks, OthersAsk(c)
  PROVE  Asked(c) /\ clerk'[c].idem.kind \notin OwnKinds
<1> USE DEF AnswersInv
<1>1. NoIdem \in IdemKey /\ ApiIdem(1) \in IdemKey
      /\ NoIdem.kind \notin OwnKinds /\ ApiIdem(1).kind \notin OwnKinds
  BY DEF NoIdem, ApiIdem, IdemKey, OwnKinds
<1>2. CASE \E key \in Keys, idem \in {NoIdem, ApiIdem(1)}, p \in Printers, document \in Documents :
             Receive(c, key, idem, p, document)
  BY <1>1, <1>2, ReceivedKey DEF Asked
<1>3. CASE \E p \in Printers, document \in Documents : ManagerPrints(c, p, document)
  <2>1. PICK p \in Printers, document \in Documents : ManagerPrints(c, p, document)
    BY <1>3
  <2>2. clerk'[c] = Request("check", NoKey, NoIdem, p, document)
    BY <2>1 DEF ManagerPrints, AdmissionTypeOK
  <2>3. clerk'[c].idem = NoIdem
    BY <2>2 DEF Request
  <2> QED
    BY <1>1, <1>3, <2>3 DEF Asked
<1>4. CASE \E i \in 1..MaxJobs : ReprintRead(c, i)
  BY <1>1, <1>4 DEF ReprintRead, Request, Asked, AdmissionTypeOK
<1> QED
  BY <1>2, <1>3, <1>4 DEF OthersAsk

LEMMA SendAsks ==
  ASSUME OutboxInv, AnswersInv, NEW s \in Submitters, NEW c \in Clerks, Send(s, c)
  PROVE  Asked(c) /\ clerk'[c].idem = ops[sub[s].op].idem
<1>1. sub[s] # Idle
  BY DEF Send, Ready
<1>2. sub[s].row \in OpRow /\ sub[s].row.idem = ops[sub[s].op].idem
  BY <1>1, SubmissionKept
<1>3. /\ sub[s].row.idem \in IdemKey /\ sub[s].row.printer \in Printers
      /\ sub[s].row.document \in Documents /\ odooKey \in Keys
  BY <1>2 DEF OpRow, OutboxInv
<1>4. Receive(c, odooKey, sub[s].row.idem, sub[s].row.printer, sub[s].row.document)
  BY DEF Send
<1>5. clerk'[c].idem = sub[s].row.idem
  BY <1>4, ReceivedKey DEF AnswersInv
<1> QED
  BY <1>2, <1>3, <1>4, <1>5 DEF Asked

LEMMA SendFine ==
  ASSUME OutboxInv, AnswersInv, NEW s \in Submitters, NEW c \in Clerks, Send(s, c)
  PROVE  /\ Onward /\ OutboxInv' /\ ops' = ops /\ unsure' = unsure /\ jobs' = jobs
         /\ sub[s] # Idle /\ sub[s].step = "ready" /\ sub[s].op \in DOMAIN ops
         /\ sub' = [sub EXCEPT ![s] = [sub[s] EXCEPT !.step = "sent", !.clerk = c]]
         /\ clerk[c] = Idle /\ clerk'[c] # Idle /\ \A d \in Clerks : d # c => clerk'[d] = clerk[d]
<1> DEFINE x == [sub[s] EXCEPT !.step = "sent", !.clerk = c]
           o == sub[s].op
<1>1. /\ sub[s] # Idle /\ sub[s].step = "ready" /\ ops' = ops /\ unsure' = unsure /\ odooKey' = odooKey
      /\ sub' = [sub EXCEPT ![s].step = "sent", ![s].clerk = c]
  BY DEF Send, Ready
<1>2. /\ sub[s] \in SubmissionRow /\ o \in DOMAIN ops /\ Fine(sub[s].row, Len(jobs))
      /\ Fine(sub[s].new, Len(jobs)) /\ sub[s].row.idem = ops[o].idem
  BY <1>1, SubmissionKept
<1>3. /\ clerk[c] = Idle /\ clerk'[c] # Idle /\ jobs' = jobs
      /\ \A d \in Clerks : d # c => clerk'[d] = clerk[d]
  BY SendAsks, AskedEffects
<1>4. clerk'[c].idem = ops[o].idem
  BY SendAsks
<1>5. sub' = [sub EXCEPT ![s] = x]
  BY <1>1, <1>2 DEF OutboxInv
<1>6. /\ x \in SubmissionRow /\ x.op = o /\ x.row = sub[s].row /\ x.new = sub[s].new
      /\ x.mode = sub[s].mode /\ x.step = "sent" /\ x.clerk = c
  BY <1>2 DEF SubmissionRow
<1> HIDE DEF x
<1>7. Len(jobs) \in Nat /\ unsure \subseteq DOMAIN ops
  BY LenProperties DEF AnswersInv, AdmissionTypeOK, OutboxInv, RowsInv
<1>8. Onward /\ RowsInv'
  BY <1>1, <1>3, <1>7, RowsUntouched
<1>9. \A r \in Submitters : ~SentTo(r, c)
  BY <1>3 DEF SentTo, OutboxInv, SubFine
<1>10. \A r \in Submitters : r # s => LetsStay(r)
  BY <1>1, <1>3, <1>9 DEF LetsStay, OutboxInv, SubFine, SentTo
<1>11. Clean(o, ops', unsure') => Clean(o, ops, unsure)
  BY <1>1
<1>12. Joins(s, x)
  BY <1>1, <1>2, <1>3, <1>4, <1>6, <1>9, <1>11 DEF Joins, OutboxInv, SubFine
<1>13. sub' \in [Submitters -> SubmissionRow \cup {Idle}] /\ \A r \in Submitters : SubFine(r)'
  BY <1>5, <1>6, <1>8, <1>10, <1>12, SubReplaced
<1>14. KnownInv'
  <2>1. Known(clerk'[c].idem, ops')
    BY <1>1, <1>2, <1>4 DEF Known
  <2>2. \A d \in Clerks : clerk'[d] # Idle => Known(clerk'[d].idem, ops')
    BY <1>1, <1>3, <2>1 DEF OutboxInv, KnownInv
  <2> QED
    BY <1>1, <1>3, <2>2 DEF OutboxInv, KnownInv
<1>15. OutboxInv'
  BY <1>1, <1>8, <1>13, <1>14 DEF OutboxInv
<1> QED
  BY <1>1, <1>2, <1>3, <1>5, <1>8, <1>15 DEF x

(* What the submission reads of the answer.                                *)
LEMMA AnsweredCloses ==
  ASSUME OutboxInv, AnswersInv, NEW s \in Submitters, Answered(s)
  PROVE  /\ sub[s] # Idle /\ sub[s].step = "sent" /\ sub[s].clerk \in Clerks
         /\ clerk[sub[s].clerk] # Idle /\ clerk[sub[s].clerk].step = "answered"
         /\ Close(sub[s].clerk) /\ QuietClerks(s) /\ jobs' = jobs /\ odooKey' = odooKey
         /\ clerk'[sub[s].clerk] = Idle /\ \A d \in Clerks : d # sub[s].clerk => clerk'[d] = clerk[d]
         /\ clerk[sub[s].clerk].code \in {200, 201} =>
              /\ clerk[sub[s].clerk].job \in 1 .. Len(jobs)
              /\ clerk[sub[s].clerk].body.status \in Statuses
              /\ clerk[sub[s].clerk].body.error \in Errors
              /\ clerk[sub[s].clerk].code = 201 => clerk[sub[s].clerk].body.status = "queued"
<1>1. sub[s] # Idle /\ sub[s].step = "sent" /\ Close(sub[s].clerk) /\ odooKey' = odooKey
  BY DEF Answered
<1>2. /\ sub[s].clerk \in Clerks /\ clerk[sub[s].clerk] # Idle
      /\ \A r \in Submitters : SentTo(r, sub[s].clerk) => r = s
  BY <1>1 DEF OutboxInv, SubFine
<1>3. /\ clerk[sub[s].clerk].step = "answered" /\ clerk'[sub[s].clerk] = Idle /\ jobs' = jobs
      /\ \A d \in Clerks : d # sub[s].clerk => clerk'[d] = clerk[d]
  BY <1>1, <1>2, CloseEffects DEF AnswersInv
<1>4. QuietClerks(s)
  BY <1>2, <1>3 DEF QuietClerks, SentTo, OutboxInv, SubFine
<1>5. clerk[sub[s].clerk] \in RequestRow
  BY <1>2 DEF AnswersInv, AdmissionTypeOK
<1>6. clerk[sub[s].clerk].body.error \in Errors
  BY <1>5 DEF RequestRow
<1>7. AnswerRight(sub[s].clerk) /\ DOMAIN jobs = 1 .. Len(jobs)
  BY <1>2, LenProperties DEF AnswersInv, AdmissionTypeOK
<1> QED
  BY <1>1, <1>2, <1>3, <1>4, <1>6, <1>7 DEF AnswerRight

LEMMA AnsweredFine ==
  ASSUME OutboxInv, AnswersInv, NEW s \in Submitters, Answered(s)
  PROVE  Onward /\ OutboxInv'
<1> DEFINE a == clerk[sub[s].clerk]
           row == sub[s].row
           new == Accepted(row, a.job, a.body)
<1>1. /\ sub[s] # Idle /\ sub[s].step = "sent" /\ QuietClerks(s) /\ jobs' = jobs /\ odooKey' = odooKey
      /\ a.code \in {200, 201} => /\ a.job \in 1 .. Len(jobs)
                                  /\ a.body.status \in Statuses /\ a.body.error \in Errors
  BY AnsweredCloses
<1>2. Fine(row, Len(jobs)) /\ Len(jobs) \in Nat
  BY <1>1, SubmissionKept, LenProperties DEF AnswersInv, AdmissionTypeOK
<1>3. CASE a.code \in {200, 201} /\ RecordAtCommit(s, new, "maybe")
  <2>1. Fine(new, Len(jobs)) /\ new.idem = row.idem /\ new.status # "gone"
    <3>1. /\ a.job \in 1 .. Len(jobs) /\ a.body.status \in Statuses /\ a.body.error \in Errors
      BY <1>1, <1>3
    <3> HIDE DEF a, row
    <3>2. Fine(new, Len(jobs)) /\ new.status \notin {"queued", "gone"} /\ SameOrder(new, row)
      BY <1>2, <3>1, AcceptedRow
    <3> QED
      BY <3>2 DEF SameOrder
  <2> HIDE DEF new
  <2> QED
    BY <1>1, <1>2, <1>3, <2>1, WrittenFine
<1>4. CASE PersistState(s, Rejected(row), "maybe")
  <2>1. Rejected(row) \in OpRow /\ Rejected(row).status = "failed"
    BY <1>2, RejectedRow DEF Fine
  <2> QED
    BY <1>1, <1>2, <1>4, <2>1, PersistedFine
<1>5. CASE RecordFailure(s, Rejected(row), "no") \/ RecordFailure(s, Again(row, TRUE), "no")
  BY <1>1, <1>2, <1>5, FailureFine
<1> QED
  BY <1>3, <1>4, <1>5 DEF Answered

(* A step of the Gateway's alone.                                          *)
LEMMA WorldStep ==
  ASSUME OutboxInv, UNCHANGED outboxVars, Len(jobs) \in Nat, Len(jobs') \in Nat, Len(jobs) <= Len(jobs'),
         KnownInv',
         \A r \in Submitters : sub[r] # Idle /\ sub[r].step = "sent" =>
           clerk'[sub[r].clerk] # Idle /\ clerk'[sub[r].clerk].idem = clerk[sub[r].clerk].idem
  PROVE  Onward /\ OutboxInv'
<1>1. UNCHANGED <<ops, sub, odooKey, unsure>> /\ unsure \subseteq DOMAIN ops
  BY DEF outboxVars, OutboxInv, RowsInv
<1>2. Onward /\ RowsInv'
  BY <1>1, RowsUntouched
<1>3. \A row : Fine(row, Len(jobs)) => Fine(row, Len(jobs'))
  BY FineLater
<1>4. \A r \in Submitters : SubFine(r)'
  BY <1>1, <1>3 DEF OutboxInv, SubFine, SentTo, On
<1> QED
  BY <1>1, <1>2, <1>4 DEF OutboxInv

(* The key of a request of the outbox's never changes.                     *)
LEMMA OwnKeyKept ==
  ASSUME OutboxInv, AnswersInv, NEW c \in Clerks, Serve(c)
  PROVE  /\ \/ clerk'[c].idem = clerk[c].idem
            \/ clerk[c].idem.kind \notin OwnKinds /\ clerk'[c].idem.kind \notin OwnKinds
         /\ \A o \in DOMAIN ops : clerk[c].idem = ops[o].idem => clerk'[c].idem = clerk[c].idem
<1>1. CASE clerk[c].step = "count"
  <2>1. clerk[c].idem = NoIdem /\ clerk'[c].idem.kind = "gw-reprint"
    BY <1>1, ServeEffects DEF AnswersInv, AnswerRight
  <2>2. clerk[c].idem.kind \notin OwnKinds /\ clerk'[c].idem.kind \notin OwnKinds
    BY <2>1 DEF NoIdem, OwnKinds
  <2> QED
    BY <2>2 DEF OutboxInv, RowsInv, OwnKey
<1>2. CASE clerk[c].step # "count"
  BY <1>2, ServeEffects DEF KeepsRequest
<1> QED
  BY <1>1, <1>2

LEMMA AdmissionAloneAsks ==
  ASSUME OutboxInv, AnswersInv, AdmissionAlone
  PROVE  AdmissionNext
BY OthersKey DEF AdmissionAlone, AdmissionNext

LEMMA AdmissionAloneFine ==
  ASSUME OutboxInv, AnswersInv, AdmissionAlone, UNCHANGED outboxVars
  PROVE  Onward /\ OutboxInv'
<1>1. RowsKept /\ AnswersInv'
  BY AdmissionAloneAsks, RowsAreKept, AnswersStep
<1>2. /\ DOMAIN jobs = 1 .. Len(jobs) /\ Len(jobs) \in Nat
      /\ DOMAIN jobs' = 1 .. Len(jobs') /\ Len(jobs') \in Nat
  BY <1>1, LenProperties DEF AnswersInv, AdmissionTypeOK
<1>3. Len(jobs) <= Len(jobs')
  BY <1>1, <1>2 DEF RowsKept
<1>4. ops' = ops
  BY DEF outboxVars
<1> DEFINE Stays == \A r \in Submitters : sub[r] # Idle /\ sub[r].step = "sent" =>
             clerk'[sub[r].clerk] # Idle /\ clerk'[sub[r].clerk].idem = clerk[sub[r].clerk].idem
<1>5. ASSUME UNCHANGED clerk, DOMAIN jobs' = DOMAIN jobs PROVE KnownInv' /\ Stays
  BY <1>1, <1>4, <1>5 DEF RowsKept, Faded, OutboxInv, KnownInv, SubFine
<1>6. CASE RowsChange
  <2>1. UNCHANGED clerk /\ DOMAIN jobs' = DOMAIN jobs
    BY <1>6, RowsFade DEF AnswersInv, AdmissionTypeOK
  <2> QED
    BY <1>2, <1>3, <1>5, <2>1, WorldStep
<1>7. CASE SettingsChange
  <2>1. UNCHANGED <<clerk, jobs>>
    BY <1>7 DEF SettingsChange, PresenceChanges, RateWindowPasses, CreateKey, RevokeKey, RemoveKey,
      RotateKey, KeepAllButKeys, KeepRequests, KeepSurroundings
  <2> QED
    BY <1>2, <1>3, <1>5, <2>1, WorldStep
<1>8. ASSUME NEW c \in Clerks, OthersAsk(c) PROVE Onward /\ OutboxInv'
  <2>1. /\ clerk[c] = Idle /\ jobs' = jobs /\ \A d \in Clerks : d # c => clerk'[d] = clerk[d]
        /\ clerk'[c].idem.kind \notin OwnKinds
    BY <1>8, OthersKey, AskedEffects
  <2>2. Stays
    BY <2>1 DEF OutboxInv, SubFine
  <2>3. KnownInv'
    BY <1>4, <2>1 DEF OutboxInv, KnownInv, Known
  <2> QED
    BY <1>2, <1>3, <2>2, <2>3, WorldStep
<1>9. ASSUME NEW c \in Clerks, Close(c), Unread(c) PROVE Onward /\ OutboxInv'
  <2>1. clerk'[c] = Idle /\ jobs' = jobs /\ \A d \in Clerks : d # c => clerk'[d] = clerk[d]
    BY <1>9, CloseEffects DEF AnswersInv
  <2>2. Stays
    BY <1>9, <2>1 DEF OutboxInv, SubFine, Unread
  <2>3. KnownInv'
    BY <1>4, <2>1 DEF OutboxInv, KnownInv
  <2> QED
    BY <1>2, <1>3, <2>2, <2>3, WorldStep
<1>10. ASSUME NEW c \in Clerks, Serve(c) PROVE Onward /\ OutboxInv'
  <2>1. /\ clerk[c] # Idle /\ clerk'[c] # Idle /\ \A d \in Clerks : d # c => clerk'[d] = clerk[d]
        /\ UNCHANGED jobs \/ Inserted(c)
    BY <1>10, ServeEffects DEF KeepsRequest
  <2>2. /\ \/ clerk'[c].idem = clerk[c].idem
           \/ clerk[c].idem.kind \notin OwnKinds /\ clerk'[c].idem.kind \notin OwnKinds
        /\ \A o \in DOMAIN ops : clerk[c].idem = ops[o].idem => clerk'[c].idem = clerk[c].idem
    BY <1>10, OwnKeyKept
  <2>3. Stays
    BY <2>1, <2>2 DEF OutboxInv, SubFine
  <2>4. \A i \in DOMAIN jobs' : Known(jobs'[i].idem, ops')
    <3>1. CASE UNCHANGED jobs
      BY <1>4, <3>1 DEF OutboxInv, KnownInv
    <3>2. CASE Inserted(c)
      <4>1. /\ DOMAIN jobs' = DOMAIN jobs \cup {Len(jobs) + 1}
            /\ jobs'[Len(jobs) + 1] = NewJob(clerk[c])
            /\ \A i \in DOMAIN jobs : jobs'[i] = jobs[i]
        BY <2>1, <3>2, InsertedRow DEF AnswersInv
      <4>2. jobs'[Len(jobs) + 1].idem = clerk[c].idem
        BY <4>1 DEF NewJob
      <4> QED
        BY <1>4, <2>1, <4>1, <4>2 DEF OutboxInv, KnownInv
    <3> QED
      BY <2>1, <3>1, <3>2
  <2>5. \A d \in Clerks : clerk'[d] # Idle => Known(clerk'[d].idem, ops')
    BY <1>4, <2>1, <2>2 DEF OutboxInv, KnownInv, Known
  <2> QED
    BY <1>2, <1>3, <2>3, <2>4, <2>5, WorldStep DEF KnownInv
<1> QED
  BY <1>6, <1>7, <1>8, <1>9, <1>10 DEF AdmissionAlone

-----------------------------------------------------------------------------
(* The web clients.  An action that is not a kitchen ticket's makes one    *)
(* call, and has no operation before the call is served; a kitchen         *)
(* ticket's calls all bring the key of the ticket.  What was left to       *)
(* native printing has no call under way.                                  *)

PrintSteps == {"idle", "asking", "calling", "failed", "done"}

PrintRow == [step : PrintSteps, try : 1..MaxTries, native : BOOLEAN, ops : SUBSET Nat,
             retriedOff : BOOLEAN]

Called(k) == \E t \in 1..MaxTries : <<k, t>> \in calls

KitchenKey(k) == [kind |-> "kitchen", of |-> k, n |-> 0]

Way(k) ==
  /\ print[k].ops \subseteq DOMAIN ops
  /\ print[k].step = "idle" => print[k].try = 1
  /\ print[k].step \in {"idle", "asking"} /\ print[k].try = 1 => print[k].ops = {} /\ ~Called(k)
  /\ print[k].native => print[k].step = "done"
  /\ print[k].native /\ ~print[k].retriedOff => print[k].ops = {} /\ ~Called(k)
  /\ KindOf[k] # "kitchen" =>
       /\ print[k].try = 1 /\ print[k].step # "failed"
       /\ \A t \in 1..MaxTries : <<k, t>> \in calls => t = 1
       /\ Called(k) => print[k].ops = {}
       /\ \E o : print[k].ops \subseteq {o}
  /\ KindOf[k] = "kitchen" => \A o \in print[k].ops : ops[o].idem = KitchenKey(k)

PosInv ==
  /\ print \in [Prints -> PrintRow] /\ calls \subseteq Prints \X (1..MaxTries)
  /\ serving \in [Web -> Prints \X (1..MaxTries) \cup {NoPrint}]
  /\ \A k \in Prints : Way(k)

LEMMA PosBegins == PosInit => PosInv
BY PosAssumption DEF PosInit, PosInv, NotAsked, PrintRow, PrintSteps, Way, Called

LEMMA PosTypes == PosInv => PosTypeOK
BY DEF PosInv, PosTypeOK, Way, PrintRow, PrintSteps

(* No two kitchen tickets' operations share a key.                         *)
LEMMA OneWay == PosInv /\ RowsInv => OneWayOut
<1> SUFFICES ASSUME PosInv, RowsInv, NEW k \in Prints
             PROVE  /\ Cardinality(print[k].ops) <= 1
                    /\ print[k].native /\ print[k].ops # {} => print[k].retriedOff
  BY DEF OneWayOut
<1>1. Way(k)
  BY DEF PosInv
<1>2. \E o : print[k].ops \subseteq {o}
  <2>1. CASE KindOf[k] # "kitchen"
    BY <1>1, <2>1 DEF Way
  <2>2. CASE KindOf[k] = "kitchen"
    <3>1. \A o \in print[k].ops : o \in DOMAIN ops /\ o \in Nat /\ ops[o].idem = KitchenKey(k)
      <4>1. DOMAIN ops = 1 .. Len(ops) /\ Len(ops) \in Nat
        BY LenProperties DEF RowsInv
      <4> QED
        BY <1>1, <2>2, <4>1 DEF Way
    <3>2. \A o, q \in print[k].ops : o = q
      BY <3>1 DEF RowsInv, KitchenKey
    <3> QED
      BY <3>2
  <2> QED
    BY <2>1, <2>2
<1>3. Cardinality(print[k].ops) <= 1
  <2>1. PICK o : print[k].ops \subseteq {o}
    BY <1>2
  <2>2. print[k].ops = {} \/ print[k].ops = {o}
    BY <2>1
  <2> QED
    BY <2>2, FS_EmptySet, FS_Singleton
<1> QED
  BY <1>1, <1>3 DEF Way

LEMMA WayKept ==
  ASSUME Onward, NEW k, Way(k), print'[k] = print[k],
         \A t \in 1..MaxTries : <<k, t>> \in calls' => <<k, t>> \in calls
  PROVE  Way(k)'
BY DEF Onward, Way, Called

LEMMA PosUntouched ==
  ASSUME PosInv, Onward, UNCHANGED posVars
  PROVE  PosInv'
BY WayKept DEF PosInv, posVars

(* A step of the action k.                                                 *)
LEMMA PosMoves ==
  ASSUME PosInv, Onward, NEW k \in Prints, NEW row \in PrintRow, print' = [print EXCEPT ![k] = row],
         calls' \subseteq calls \cup {<<k, print[k].try>>},
         serving' \in [Web -> Prints \X (1..MaxTries) \cup {NoPrint}],
         Way(k)'
  PROVE  PosInv'
<1>1. print[k].try \in 1..MaxTries
  BY DEF PosInv, PrintRow
<1>2. \A l \in Prints : l # k => Way(l)'
  BY WayKept DEF PosInv
<1> QED
  BY <1>1, <1>2 DEF PosInv

LEMMA PosAloneStep ==
  ASSUME PosInv, Onward, PosAlone, UNCHANGED ops
  PROVE  PosInv'
<1> USE DEF KeepServer
<1>1. \A k \in Prints : /\ print[k] \in PrintRow /\ Way(k) /\ print[k].try \in 1..MaxTries
                        /\ print[k].ops \subseteq Nat
  BY DEF PosInv, PrintRow
<1>2. MaxTries \in Nat /\ print \in [Prints -> PrintRow]
  BY PosAssumption DEF PosInv
<1>3. ASSUME NEW k \in Prints, NEW step \in PrintSteps, NEW native \in BOOLEAN,
             NEW off \in BOOLEAN, NEW try \in 1..MaxTries
      PROVE  [print[k] EXCEPT !.step = step, !.native = native, !.retriedOff = off, !.try = try] \in PrintRow
  BY <1>1 DEF PrintRow
<1>4. ASSUME NEW k \in Prints, NEW step \in PrintSteps, Step(k, step)
      PROVE  /\ [print[k] EXCEPT !.step = step] \in PrintRow /\ print'[k] = [print[k] EXCEPT !.step = step]
             /\ print' = [print EXCEPT ![k] = [print[k] EXCEPT !.step = step]]
             /\ print'[k].step = step /\ print'[k].try = print[k].try /\ print'[k].ops = print[k].ops
             /\ print'[k].native = print[k].native /\ print'[k].retriedOff = print[k].retriedOff
  BY <1>1, <1>2, <1>4 DEF Step, PrintRow
(* The client's step, while calls and servers stay.                        *)
<1>5. ASSUME NEW k \in Prints, NEW step \in {"asking", "failed", "done"}, Step(k, step),
             serving' \in [Web -> Prints \X (1..MaxTries) \cup {NoPrint}],
             calls' \subseteq calls,
             \/ step \in {"failed", "done"} /\ print[k].step \in {"asking", "calling"}
             \/ step = "asking" /\ print[k].step = "idle",
             step = "failed" => KindOf[k] = "kitchen"
      PROVE  PosInv'
  <2>1. step \in PrintSteps
    BY DEF PrintSteps
  <2>2. /\ print'[k].step = step /\ print'[k].try = print[k].try /\ print'[k].ops = print[k].ops
        /\ print'[k].native = print[k].native /\ print'[k].retriedOff = print[k].retriedOff
        /\ print' = [print EXCEPT ![k] = [print[k] EXCEPT !.step = step]]
        /\ [print[k] EXCEPT !.step = step] \in PrintRow
    BY <1>4, <1>5, <2>1
  <2>3. ~print[k].native /\ Way(k)
    BY <1>1, <1>5 DEF Way
  <2>4. Called(k)' => Called(k)
    BY <1>5 DEF Called
  <2>5. \A t \in 1..MaxTries : <<k, t>> \in calls' => <<k, t>> \in calls
    BY <1>5
  <2>6. ASSUME step \in {"failed", "done"} PROVE Way(k)'
    BY <1>5, <2>2, <2>3, <2>4, <2>5, <2>6 DEF Way
  <2>7. ASSUME step = "asking" PROVE Way(k)'
    BY <1>5, <2>2, <2>3, <2>4, <2>5, <2>7 DEF Way
  <2>8. Way(k)'
    BY <1>5, <2>6, <2>7
  <2> QED
    BY <1>5, <2>2, <2>8, PosMoves
<1>6. ASSUME NEW k \in Prints, CallServer(k), print[k].step \in {"idle", "asking"} PROVE PosInv'
  <2>1. Step(k, "calling") /\ calls' = calls \cup {<<k, print[k].try>>} /\ serving' = serving
    BY <1>6 DEF CallServer
  <2>2. Way(k)'
    BY <1>1, <1>4, <1>6, <2>1 DEF Way, Called, PrintSteps
  <2> QED
    BY <1>4, <2>1, <2>2, PosMoves DEF PosInv, PrintSteps
<1>7. ASSUME NEW k \in Prints, StartPrint(k) PROVE PosInv'
  BY <1>5, <1>6, <1>7 DEF StartPrint, PosInv
<1>8. ASSUME NEW k \in Prints, EnabledIsAnswered(k) PROVE PosInv'
  <2>1. print[k].step = "asking"
    BY <1>8 DEF EnabledIsAnswered
  <2>2. CASE /\ print' = [print EXCEPT ![k].step = "done", ![k].native = TRUE,
                                       ![k].retriedOff = print[k].try > 1]
             /\ UNCHANGED <<calls, serving>>
    <3> DEFINE row == [print[k] EXCEPT !.step = "done", !.native = TRUE, !.retriedOff = print[k].try > 1]
    <3>0. (print[k].try > 1) \in BOOLEAN
      OBVIOUS
    <3>1. print' = [print EXCEPT ![k] = row] /\ row \in PrintRow
      <4>1. print' = [print EXCEPT ![k] = row]
        BY <2>2
      <4> QED
        BY <1>1, <3>0, <4>1 DEF PrintRow, PrintSteps
    <3>2. /\ print'[k].step = "done" /\ print'[k].try = print[k].try /\ print'[k].ops = print[k].ops
          /\ print'[k].native /\ (print'[k].retriedOff <=> print[k].try > 1)
      BY <1>1, <1>2, <3>1 DEF PrintRow
    <3>3. print[k].try > 1 \/ print[k].try = 1
      BY <1>1, <1>2
    <3>4. Way(k)'
      BY <1>1, <2>1, <2>2, <3>2, <3>3 DEF Way, Called
    <3> HIDE DEF row
    <3> QED
      BY <2>2, <3>1, <3>4, PosMoves DEF PosInv
  <2>3. CASE CallServer(k)
    BY <1>6, <2>1, <2>3
  <2>4. CASE Step(k, "done") /\ UNCHANGED <<calls, serving>>
    BY <1>5, <2>1, <2>4 DEF PosInv
  <2> QED
    BY <1>8, <2>2, <2>3, <2>4 DEF EnabledIsAnswered
<1>9. ASSUME NEW k \in Prints, OrderUnknown(k) \/ CallFails(k) PROVE PosInv'
  BY <1>5, <1>9 DEF OrderUnknown, CallFails, StepAfterError, PosInv
<1>10. ASSUME NEW k \in Prints, RetryKitchen(k) PROVE PosInv'
  <2> DEFINE row == [print[k] EXCEPT !.step = "asking", !.try = print[k].try + 1]
  <2>1. /\ print[k].step = "failed" /\ print[k].try < MaxTries /\ UNCHANGED <<calls, serving>>
        /\ print' = [print EXCEPT ![k].step = "asking", ![k].try = @ + 1]
    BY <1>10 DEF RetryKitchen
  <2>2. print' = [print EXCEPT ![k] = row] /\ row \in PrintRow /\ print[k].try + 1 \in 2..MaxTries
    BY <1>1, <1>2, <2>1 DEF PrintRow, PrintSteps
  <2>3. /\ print'[k].step = "asking" /\ print'[k].try = print[k].try + 1 /\ print'[k].ops = print[k].ops
        /\ print'[k].native = print[k].native /\ print'[k].retriedOff = print[k].retriedOff
    BY <1>1, <1>2, <2>2 DEF PrintRow
  <2>4. Way(k)'
    <3>1. KindOf[k] = "kitchen" /\ ~print[k].native /\ print[k].try + 1 # 1
      BY <1>1, <2>1, <2>2 DEF Way, PrintRow
    <3> HIDE DEF row
    <3> QED
      BY <1>1, <2>1, <2>3, <3>1 DEF Way, Called
  <2> HIDE DEF row
  <2> QED
    BY <2>1, <2>2, <2>4, PosMoves DEF PosInv
<1>11. CASE SwitchGateway
  <2>1. UNCHANGED <<print, calls, serving>>
    BY <1>11 DEF SwitchGateway
  <2> QED
    BY <2>1, WayKept DEF PosInv
<1>12. ASSUME NEW call \in calls, ServeNative(call) PROVE PosInv'
  <2>1. PICK k \in Prints, t \in 1..MaxTries : call = <<k, t>>
    BY DEF PosInv
  <2>2. calls' = calls \ {<<k, t>>} /\ <<k, t>> \in calls /\ serving' = serving
    BY <1>12, <2>1 DEF ServeNative
  <2>3. CASE ~Waits(call)
    <3>1. print' = print
      BY <1>12, <2>3 DEF ServeNative
    <3> QED
      BY <2>2, <3>1, WayKept DEF PosInv
  <2>4. CASE Waits(call)
    <3> DEFINE row == [print[k] EXCEPT !.step = "done", !.native = (KindOf[k] = "report")]
    <3>1. print[k].step = "calling" /\ print[k].try = t
      BY <2>1, <2>4 DEF Waits
    <3>2. print' = [print EXCEPT ![k].step = "done", ![k].native = (KindOf[k] = "report")]
      BY <1>12, <2>1, <2>4 DEF ServeNative
    <3>3. print' = [print EXCEPT ![k] = row] /\ row \in PrintRow
      BY <1>1, <1>2, <3>2 DEF PrintRow, PrintSteps
    <3>4. /\ print'[k].step = "done" /\ print'[k].try = print[k].try /\ print'[k].ops = print[k].ops
          /\ (print'[k].native <=> KindOf[k] = "report") /\ print'[k].retriedOff = print[k].retriedOff
      BY <1>1, <1>2, <3>3 DEF PrintRow
    <3>5. KindOf[k] # "kitchen" => print[k].ops = {} /\ ~Called(k)'
      BY <1>1, <2>2 DEF Way, Called
    <3>6. Way(k)'
      BY <1>1, <2>2, <3>1, <3>4, <3>5 DEF Way, Called
    <3> HIDE DEF row
    <3> QED
      BY <2>2, <3>3, <3>6, PosMoves DEF PosInv
  <2> QED
    BY <2>3, <2>4
<1>13. ASSUME NEW call \in calls, ServeRaises(call) PROVE PosInv'
  <2>1. PICK k \in Prints, t \in 1..MaxTries : call = <<k, t>>
    BY DEF PosInv
  <2>2. calls' \subseteq calls /\ serving' = serving
    BY <1>13 DEF ServeRaises
  <2>3. CASE Waits(call)
    BY <1>5, <1>13, <2>1, <2>2, <2>3 DEF ServeRaises, StepAfterError, Waits, PosInv
  <2>4. CASE ~Waits(call)
    <3>1. print' = print
      BY <1>13, <2>4 DEF ServeRaises
    <3> QED
      BY <2>2, <3>1, WayKept DEF PosInv
  <2> QED
    BY <2>3, <2>4
<1>14. ASSUME NEW s \in Web, ServeAnswers(s) PROVE PosInv'
  <2>1. PICK k \in Prints, t \in 1..MaxTries : serving[s] = <<k, t>>
    BY <1>14 DEF ServeAnswers, PosInv
  <2>2. calls' = calls /\ serving' = [serving EXCEPT ![s] = NoPrint]
    BY <1>14 DEF ServeAnswers
  <2>3. serving' \in [Web -> Prints \X (1..MaxTries) \cup {NoPrint}]
    BY <2>2 DEF PosInv
  <2>4. CASE Waits(serving[s])
    BY <1>5, <1>14, <2>1, <2>2, <2>3, <2>4 DEF ServeAnswers, StepAfterError, Waits
  <2>5. CASE ~Waits(serving[s])
    <3>1. print' = print
      BY <1>14, <2>5 DEF ServeAnswers
    <3> QED
      BY <2>2, <2>3, <3>1, WayKept DEF PosInv
  <2> QED
    BY <2>4, <2>5
<1> QED
  BY <1>7, <1>8, <1>9, <1>10, <1>11, <1>12, <1>13, <1>14 DEF PosAlone

(* The operation of a click.                                               *)
LEMMA Clicked ==
  ASSUME OutboxInv, Len(jobs) \in Nat, UNCHANGED <<jobs, clerk>>,
         NEW s \in Submitters, NEW idem \in OwnKey, NEW p \in Printers, NEW document \in Documents,
         Click(s, idem, p, document)
  PROVE  sub'[s].op \in DOMAIN ops' /\ sub'[s].op \in Nat /\ ops'[sub'[s].op].idem = idem
<1>1. unsure' = unsure /\ odooKey' = odooKey /\ unsure \subseteq DOMAIN ops
  BY DEF Click, OutboxInv, RowsInv
<1>2. \A x : sub' = [sub EXCEPT ![s] = x] => sub'[s] = x
  BY DEF OutboxInv
<1>3. DOMAIN ops = 1 .. Len(ops) /\ Len(ops) \in Nat
  BY LenProperties DEF OutboxInv, RowsInv
<1>4. CASE \E o \in DOMAIN ops :
             /\ ops[o].idem = idem /\ ops' = ops
             /\ sub' = [sub EXCEPT ![s] = Submission(o, ops[o], "click", "stored")]
  <2>1. PICK o \in DOMAIN ops :
          /\ ops[o].idem = idem /\ ops' = ops
          /\ sub' = [sub EXCEPT ![s] = Submission(o, ops[o], "click", "stored")]
    BY <1>4
  <2>2. sub'[s] = Submission(o, ops[o], "click", "stored")
    BY <1>2, <2>1
  <2>3. sub'[s].op = o
    BY <2>2 DEF Submission
  <2> QED
    BY <1>3, <2>1, <2>3
<1>5. CASE /\ \A o \in DOMAIN ops : ops[o].idem # idem
           /\ ops' = Append(ops, NewOp(idem, p, document))
           /\ sub' = [sub EXCEPT ![s] = Submission(Len(ops) + 1, ops'[Len(ops) + 1], "click", "stored")]
  <2>1. /\ Len(ops) + 1 \in DOMAIN ops' /\ ops'[Len(ops) + 1] = NewOp(idem, p, document)
        /\ Len(ops) + 1 \in Nat
    BY <1>1, <1>5, RowAdded
  <2>2. sub'[s] = Submission(Len(ops) + 1, ops'[Len(ops) + 1], "click", "stored")
    BY <1>2, <1>5
  <2>3. sub'[s].op = Len(ops) + 1
    BY <2>2 DEF Submission
  <2> QED
    BY <2>1, <2>3 DEF NewOp
<1> QED
  BY <1>4, <1>5 DEF Click

(* The server stores the operation of a call, or finds the one it stored.  *)
LEMMA ServeRouteFine ==
  ASSUME OutboxInv, PosInv, Len(jobs) \in Nat, UNCHANGED <<jobs, clerk>>,
         NEW s \in Web, NEW call \in calls, ServeRoute(s, call)
  PROVE  /\ Onward /\ OutboxInv' /\ PosInv'
         /\ \E idem \in OwnKey, p \in Printers, document \in Documents : Click(s, idem, p, document)
<1>1. PICK k \in Prints, t \in 1..MaxTries : call = <<k, t>>
  BY DEF PosInv
<1>2. s \in Submitters
  BY DEF Submitters
<1>3. DOMAIN ops = 1 .. Len(ops) /\ Len(ops) \in Nat
  BY LenProperties DEF OutboxInv, RowsInv
<1>4. KeyFor(k) \in OwnKey /\ (KindOf[k] = "kitchen" => KeyFor(k) = KitchenKey(k))
  <2>1. k \in Nat /\ 0 \in Nat /\ Len(ops) + 1 \in Nat
    BY <1>3, PosAssumption
  <2> QED
    BY <2>1 DEF KeyFor, KitchenKey, Idem, OwnKey, OwnKinds, IdemKey
<1>5. /\ PrinterFor[k] \in Printers /\ DocumentFor[k] \in Documents
  BY PosAssumption
<1>6. Click(s, KeyFor(k), PrinterFor[k], DocumentFor[k])
  BY <1>1 DEF ServeRoute
<1>7. Onward /\ OutboxInv'
  BY <1>2, <1>4, <1>5, <1>6, ClickFine
<1>8. sub'[s].op \in DOMAIN ops' /\ sub'[s].op \in Nat /\ ops'[sub'[s].op].idem = KeyFor(k)
  BY <1>2, <1>4, <1>5, <1>6, Clicked
<1> DEFINE o == sub'[s].op
           row == [print[k] EXCEPT !.ops = print[k].ops \cup {o}]
<1>9. /\ calls' = calls \ {<<k, t>>} /\ <<k, t>> \in calls
      /\ serving' = [serving EXCEPT ![s] = <<k, t>>]
      /\ print' = [print EXCEPT ![k].ops = print[k].ops \cup {o}]
  BY <1>1 DEF ServeRoute
<1>10. print[k] \in PrintRow /\ print \in [Prints -> PrintRow] /\ Way(k)
  BY DEF PosInv
<1>11. print' = [print EXCEPT ![k] = row] /\ row \in PrintRow
  BY <1>8, <1>9, <1>10 DEF PrintRow
<1>12. serving' \in [Web -> Prints \X (1..MaxTries) \cup {NoPrint}]
  BY <1>9 DEF PosInv
<1>13. /\ print'[k].step = print[k].step /\ print'[k].try = print[k].try
       /\ print'[k].ops = print[k].ops \cup {o}
       /\ print'[k].native = print[k].native /\ print'[k].retriedOff = print[k].retriedOff
  BY <1>10, <1>11 DEF PrintRow
<1> HIDE DEF row, o
<1>14. Called(k) /\ (Called(k)' => Called(k))
  BY <1>9 DEF Called
<1>15. print'[k].ops \subseteq DOMAIN ops'
  BY <1>7, <1>8, <1>10, <1>13 DEF Way, Onward, o
<1>16. KindOf[k] # "kitchen" => print[k].ops = {} /\ ~Called(k)'
  BY <1>9, <1>10, <1>14 DEF Way, Called
<1>17. KindOf[k] = "kitchen" => \A q \in print'[k].ops : ops'[q].idem = KitchenKey(k)
  BY <1>4, <1>7, <1>8, <1>10, <1>13 DEF Way, Onward, o
<1>18. \A u \in 1..MaxTries : <<k, u>> \in calls' => <<k, u>> \in calls
  BY <1>9
<1>19. Way(k)'
  BY <1>10, <1>13, <1>14, <1>15, <1>16, <1>17, <1>18 DEF Way
<1>20. PosInv'
  BY <1>7, <1>9, <1>11, <1>12, <1>19, PosMoves
<1> QED
  BY <1>4, <1>5, <1>6, <1>7, <1>20

-----------------------------------------------------------------------------
(* The console.                                                            *)

ConsoleInv ==
  /\ {filter, debounced, filterRef, list} \subseteq Filters
  /\ \A q \in queriesOut : q \in [filter : Filters, guarded : BOOLEAN, cancelled : BOOLEAN]
  /\ selected \in ConsoleJobs \cup {NoJob}

LEMMA ConsoleStep == ConsoleInv /\ (ConsoleNext \/ UNCHANGED consoleVars) => ConsoleInv'
<1> SUFFICES ASSUME ConsoleInv, ConsoleNext \/ UNCHANGED consoleVars PROVE ConsoleInv'
  OBVIOUS
<1> DEFINE QueryRow == [filter : Filters, guarded : BOOLEAN, cancelled : BOOLEAN]
<1>1. CASE UNCHANGED consoleVars
  BY <1>1 DEF ConsoleInv, consoleVars, listVars, inspectorVars
<1>2. CASE PresenceNext
  BY <1>2 DEF PresenceNext, AgentReports, AgentFallsSilent, ClockAdvances, NowTick, ConsoleInv,
       listVars, inspectorVars
<1>3. ASSUME NEW f \in Filters, NEW guarded \in BOOLEAN PROVE Query(f, guarded) \in QueryRow
  BY DEF Query
<1>4. CASE PollNext
  <2>1. ASSUME NEW row, PollAnswered(row) PROVE ConsoleInv'
    BY <1>3, <2>1, ConsoleAssumption DEF PollAnswered, ConsoleInv, inspectorVars
  <2>2. CASE PollStarts \/ \E row \in pollsOut : PollFails(row)
    BY <2>2 DEF PollStarts, PollFails, ConsoleInv, listVars, inspectorVars
  <2> QED
    BY <1>4, <2>1, <2>2 DEF PollNext
<1>5. CASE ListNext
  <2>1. ASSUME NEW q \in QueryRow PROVE Guarded(q) \in QueryRow
    BY DEF Guarded
  <2>2. CASE FilterSettles
    BY <1>3, <2>1, <2>2 DEF FilterSettles, ConsoleInv, inspectorVars
  <2>3. ASSUME NEW f \in Filters, TypeFilter(f) PROVE ConsoleInv'
    BY <2>3 DEF TypeFilter, ConsoleInv, inspectorVars
  <2>4. ASSUME NEW q \in queriesOut, QueryAnswered(q) \/ QueryFails(q) PROVE ConsoleInv'
    BY <2>4 DEF QueryAnswered, QueryFails, ConsoleInv, inspectorVars
  <2> QED
    BY <1>5, <2>2, <2>3, <2>4 DEF ListNext
<1>6. CASE InspectorNext
  BY <1>6 DEF InspectorNext, SelectJob, FetchResponds, FetchParsed, FetchFails, ConsoleInv, listVars
<1> QED
  BY <1>1, <1>2, <1>4, <1>5, <1>6 DEF ConsoleNext

-----------------------------------------------------------------------------
(* The desk as a whole.                                                    *)

DeskInv == AdmissionInv /\ OutboxInv /\ PosInv /\ ConsoleInv

LEMMA OutboxBegins == AdmissionInit /\ OutboxInit => OutboxInv
<1> SUFFICES ASSUME AdmissionInit, OutboxInit PROVE OutboxInv
  OBVIOUS
<1>1. ops = <<>> /\ ops \in Seq(OpRow) /\ DOMAIN ops = {}
  BY DEF OutboxInit
<1>2. jobs = <<>> /\ DOMAIN jobs = {} /\ \A c \in Clerks : clerk[c] = Idle
  BY DEF AdmissionInit
<1>3. sub = [s \in Submitters |-> Idle] /\ odooKey \in Keys /\ unsure = {}
  BY OutboxAssumption DEF OutboxInit, Submitters
<1> QED
  BY <1>1, <1>2, <1>3 DEF OutboxInv, RowsInv, KnownInv, SubFine

LEMMA DeskBegins == Init => DeskInv
<1> SUFFICES ASSUME Init PROVE DeskInv
  OBVIOUS
<1>1. AdmissionInit /\ OutboxInit /\ PosInit /\ ConsoleInit
  BY DEF Init
<1>2. ConsoleInv
  BY <1>1, ConsoleAssumption DEF ConsoleInit, ConsoleInv
<1> QED
  BY <1>1, <1>2, AdmissionBegins, OutboxBegins, PosBegins DEF DeskInv

(* Whoever moves, the Gateway only takes steps of its own.                 *)
LEMMA GatewaySteps ==
  ASSUME AdmissionInv, OutboxInv, DeskNext
  PROVE  AdmissionNext \/ UNCHANGED admissionVars
<1>1. AnswersInv
  BY DEF AdmissionInv
<1>2. CASE AdmissionAlone
  BY <1>1, <1>2, AdmissionAloneAsks
<1>3. ASSUME NEW s \in Submitters, NEW c \in Clerks, Send(s, c) PROVE AdmissionNext
  BY <1>1, <1>3, SendAsks DEF AdmissionNext
<1>4. ASSUME NEW s \in Submitters, Answered(s) PROVE AdmissionNext
  BY <1>1, <1>4, AnsweredCloses DEF AdmissionNext
<1> QED
  BY <1>2, <1>3, <1>4 DEF DeskNext

LEMMA OutboxStep ==
  ASSUME AnswersInv, OutboxInv, PosInv, DeskNext
  PROVE  Onward /\ OutboxInv' /\ PosInv'
<1>1. Len(jobs) \in Nat
  BY LenProperties DEF AnswersInv, AdmissionTypeOK
<1>2. CASE AdmissionAlone /\ UNCHANGED <<outboxVars, posVars>>
  BY <1>2, AdmissionAloneFine, PosUntouched
<1>3. CASE (\E s \in Submitters, c \in Clerks : Send(s, c)) /\ UNCHANGED posVars
  BY <1>3, SendFine, PosUntouched
<1>4. CASE (\E s \in Submitters : Answered(s)) /\ UNCHANGED posVars
  BY <1>4, AnsweredFine, PosUntouched
<1>5. CASE OutboxAlone /\ UNCHANGED <<admissionVars, posVars>>
  BY <1>5, OutboxAloneStep, PosUntouched
<1>6. CASE (\E s \in Web, call \in calls : ServeRoute(s, call)) /\ UNCHANGED admissionVars
  BY <1>1, <1>6, ServeRouteFine DEF admissionVars
<1>7. UNCHANGED <<admissionVars, outboxVars>> => Onward /\ OutboxInv'
  <2> SUFFICES ASSUME UNCHANGED <<admissionVars, outboxVars>> PROVE Onward /\ OutboxInv'
    OBVIOUS
  <2>1. UNCHANGED <<jobs, clerk>> /\ UNCHANGED <<ops, sub, odooKey, unsure>>
    BY DEF admissionVars, outboxVars
  <2>2. Onward /\ RowsInv'
    BY <1>1, <2>1, RowsUntouched DEF OutboxInv, RowsInv
  <2>3. KnownInv' /\ \A s \in Submitters : SubFine(s)'
    BY <2>1 DEF OutboxInv, KnownInv, Known, SubFine, Fine, On, SentTo, Clean
  <2> QED
    BY <2>1, <2>2, <2>3 DEF OutboxInv
<1>8. CASE PosAlone /\ UNCHANGED <<admissionVars, outboxVars>>
  <2>1. UNCHANGED ops
    BY <1>8 DEF outboxVars
  <2> QED
    BY <1>7, <1>8, <2>1, PosAloneStep
<1>9. CASE UNCHANGED <<admissionVars, outboxVars, posVars>>
  BY <1>7, <1>9, PosUntouched
<1> QED
  BY <1>2, <1>3, <1>4, <1>5, <1>6, <1>8, <1>9 DEF DeskNext

LEMMA DeskStep == EdgeInv /\ DeskInv /\ [Next]_vars => DeskInv'
<1> SUFFICES ASSUME EdgeInv, DeskInv, [Next]_vars PROVE DeskInv'
  OBVIOUS
<1>1. DeskNext /\ (ConsoleNext \/ UNCHANGED consoleVars)
  <2>1. CASE Next
    BY <2>1, DeskSteps DEF EdgeInv
  <2>2. CASE UNCHANGED vars
    BY <2>2 DEF vars, DeskNext
  <2> QED
    BY <2>1, <2>2
<1>2. AdmissionInv'
  BY <1>1, GatewaySteps, AdmissionStep DEF DeskInv
<1>3. OutboxInv' /\ PosInv'
  BY <1>1, OutboxStep DEF DeskInv, AdmissionInv
<1>4. ConsoleInv'
  BY <1>1, ConsoleStep DEF DeskInv
<1> QED
  BY <1>2, <1>3, <1>4 DEF DeskInv

LEMMA DeskInvariant == Spec => [](EdgeInv /\ DeskInv)
<1>1. Spec => []EdgeInv
  BY EdgeInvariant
<1>2. Init => DeskInv
  BY DeskBegins
<1>3. EdgeInv /\ DeskInv /\ [Next]_vars => DeskInv'
  BY DeskStep
<1> QED
  BY <1>1, <1>2, <1>3, PTL DEF Spec

(* The variables of the desk keep their types: no operation of the outbox  *)
(* names a job the Gateway has not made, none that waits to be sent has    *)
(* used up its attempts, and no submission is about a row that is not      *)
(* there.                                                                  *)
THEOREM DeskTypes == Spec => []TypeOK
<1>1. EdgeInv /\ DeskInv => TypeOK
  <2> SUFFICES ASSUME EdgeInv, DeskInv PROVE TypeOK
    OBVIOUS
  <2>1. AdmissionTypeOK /\ OutboxTypeOK /\ PosTypeOK
    BY OutboxTypes, PosTypes DEF DeskInv, AdmissionInv, AnswersInv
  <2>2. GuardTypeOK /\ WorkstationTypeOK
    BY DEF EdgeInv, GuardInv, WorkInv
  <2> QED
    BY <2>1, <2>2 DEF TypeOK, DeskInv, ConsoleInv, EdgeInv
<1> QED
  BY DeskInvariant, <1>1, PTL

(* However requests race for the tenant's lock, the ceilings of agent and  *)
(* tenant hold, for any number of clerks and any ceilings.                 *)
THEOREM CeilingsHold == Spec => []LiveJobsBounded
<1>1. DeskInv => LiveJobsBounded
  BY CeilingsAreBounds DEF DeskInv, AdmissionInv
<1> QED
  BY DeskInvariant, <1>1, PTL

(* An idempotency key stands for one job, and for what was asked, however  *)
(* often it is used, while rows are deleted and reprints counted.          *)
THEOREM KeysNameOneJob == Spec => []AnswersAgree
<1>1. DeskInv => AnswersAgree
  BY KeysAgree DEF DeskInv, AdmissionInv
<1> QED
  BY DeskInvariant, <1>1, PTL

(* What the outbox holds of a print action is one operation, and is not    *)
(* also printed natively, but for the retry that finds the Gateway         *)
(* switched off.                                                           *)
THEOREM DocumentsLeaveOneWay == Spec => []OneWayOut
<1>1. DeskInv => OneWayOut
  BY OneWay DEF DeskInv, OutboxInv
<1> QED
  BY DeskInvariant, <1>1, PTL

-----------------------------------------------------------------------------
(* An operation's jobs are followed.  Of an operation whose record was     *)
(* neither lost nor overwritten, every job the Gateway holds has ended     *)
(* without printing, or the outbox has it in view: its answer waits to be  *)
(* read, or is written and waits for the commit, or the row names it; or   *)
(* the row says, or is about to say, that nobody knows.  A request under   *)
(* way, which may still make a job, is one a submission waits for.         *)

UnknownPending(o) ==
  \/ ops[o].status = "unknown"
  \/ \E s \in Submitters : On(s, o) /\ sub[s].step = "written" /\ sub[s].new.status = "unknown"

Attended(o) ==
  \A c \in Clerks : clerk[c] # Idle /\ clerk[c].step # "answered" /\ clerk[c].idem = ops[o].idem =>
    (\E s \in Submitters : On(s, o) /\ SentTo(s, c)) \/ UnknownPending(o)

AnswerWaits(o, i) ==
  \E s \in Submitters, c \in Clerks :
    /\ On(s, o) /\ SentTo(s, c)
    /\ clerk[c].step = "answered" /\ clerk[c].code = 201 /\ clerk[c].job = i

CommitWaits(o, i) ==
  \E s \in Submitters :
    On(s, o) /\ sub[s].step = "written" /\ sub[s].new.status = "submitted" /\ sub[s].new.remote = i

Followed(o, i) ==
  \/ UnknownPending(o) \/ AnswerWaits(o, i) \/ CommitWaits(o, i)
  \/ ops[o].status = "success"
  \/ ops[o].status \in {"submitted", "claimed", "printing"} /\ ops[o].remote = i

Tracked(o) ==
  /\ Attended(o)
  /\ \A i \in DOMAIN jobs : jobs[i].idem = ops[o].idem /\ ~Dead(jobs[i]) => Followed(o, i)

FollowInv == \A o \in DOMAIN ops : Clean(o, ops, unsure) => Tracked(o)

LEMMA FollowingIsSafe == OutboxInv /\ FollowInv => UnprintedIsSafe
<1> SUFFICES ASSUME OutboxInv, FollowInv, NEW o \in DOMAIN ops,
                    \A q \in unsure : ops[q].idem # ops[o].idem,
                    ops[o].status = "failed", OpOutcome(ops[o]) = "not_printed", ~UnderWay(o),
                    NEW i \in DOMAIN jobs, jobs[i].idem = ops[o].idem
             PROVE  Dead(jobs[i])
  BY DEF UnprintedIsSafe, Dead
<1>1. Tracked(o)
  BY DEF FollowInv, Clean
<1>2. \A s \in Submitters : ~On(s, o)
  BY DEF UnderWay, Submitters
<1>3. ~Followed(o, i)
  BY <1>2 DEF Followed, UnknownPending, AnswerWaits, CommitWaits
<1> QED
  BY <1>1, <1>3 DEF Tracked

LEMMA UnknownIsTracked ==
  ASSUME NEW o, UnknownPending(o)
  PROVE  Tracked(o)
BY DEF Tracked, Attended, Followed

LEMMA UnknownIsTrackedNext ==
  ASSUME NEW o, UnknownPending(o)'
  PROVE  Tracked(o)'
BY DEF Tracked, Attended, Followed

(* The operation's requests and records go on as they were.                *)
LEMMA TrackedStill ==
  ASSUME NEW o \in DOMAIN ops, Tracked(o), ops'[o].idem = ops[o].idem, UNCHANGED <<jobs, clerk>>,
         \A r \in Submitters : On(r, o) /\ sub[r].step \in {"sent", "written"} => sub'[r] = sub[r],
         \/ ops'[o].status = ops[o].status /\ ops'[o].remote = ops[o].remote
         \/ ops[o].status = "queued"
  PROVE  Tracked(o)'
<1>1. \A c \in Clerks, r \in Submitters : On(r, o) /\ SentTo(r, c) => On(r, o)' /\ SentTo(r, c)'
  BY DEF On, SentTo
<1>2. UnknownPending(o) => UnknownPending(o)'
  BY DEF UnknownPending, On
<1>3. ASSUME NEW i, AnswerWaits(o, i) PROVE AnswerWaits(o, i)'
  BY <1>1, <1>3 DEF AnswerWaits
<1>4. ASSUME NEW i, CommitWaits(o, i) PROVE CommitWaits(o, i)'
  BY <1>4 DEF CommitWaits, On
<1>5. ASSUME NEW i, Followed(o, i) PROVE Followed(o, i)'
  BY <1>2, <1>3, <1>4, <1>5 DEF Followed
<1>6. Attended(o)'
  BY <1>1, <1>2 DEF Attended, Tracked
<1> QED
  BY <1>5, <1>6 DEF Tracked

(* A new operation shares its key with none that counts, so that no job    *)
(* and no request has it.                                                  *)
LEMMA NewIsTracked ==
  ASSUME OutboxInv, OutboxInv', Onward, UNCHANGED <<jobs, clerk>>,
         NEW o \in DOMAIN ops', o \notin DOMAIN ops, Clean(o, ops', unsure')
  PROVE  Tracked(o)'
<1>1. DOMAIN ops = 1 .. Len(ops) /\ DOMAIN ops' = 1 .. Len(ops') /\ Len(ops) \in Nat /\ Len(ops') \in Nat
  BY LenProperties DEF OutboxInv, RowsInv, Onward
<1>2. ASSUME NEW q \in DOMAIN ops PROVE ops[q].idem # ops'[o].idem
  <2>1. q \in DOMAIN ops' /\ ops'[q].idem = ops[q].idem /\ q < o
    BY <1>1 DEF Onward
  <2> QED
    BY <2>1 DEF OutboxInv, RowsInv, Clean
<1>3. ops'[o].idem.kind \in OwnKinds
  BY DEF OutboxInv, RowsInv, OwnKey
<1>4. /\ \A i \in DOMAIN jobs' : jobs'[i].idem # ops'[o].idem
      /\ \A c \in Clerks : clerk'[c] # Idle => clerk'[c].idem # ops'[o].idem
  BY <1>2, <1>3 DEF OutboxInv, KnownInv, Known
<1> QED
  BY <1>4 DEF Tracked, Attended

LEMMA FollowStep ==
  ASSUME OutboxInv, OutboxInv', Onward, UNCHANGED <<jobs, clerk>>, FollowInv,
         \A o \in DOMAIN ops : Tracked(o) /\ Clean(o, ops', unsure') => Tracked(o)'
  PROVE  FollowInv'
<1> SUFFICES ASSUME NEW o \in DOMAIN ops', Clean(o, ops', unsure') PROVE Tracked(o)'
  BY DEF FollowInv
<1>1. CASE o \in DOMAIN ops
  BY <1>1, CleanBefore DEF FollowInv
<1>2. CASE o \notin DOMAIN ops
  BY <1>2, NewIsTracked
<1> QED
  BY <1>1, <1>2

(* What a clean operation's record of a failure can be.                    *)
LEMMA RecordedFailure ==
  ASSUME OutboxInv, Onward, NEW s \in Submitters, sub[s] # Idle, sub[s].step \in {"ready", "sent"},
         NEW new \in OpRow, NEW reached, RecordFailure(s, new, reached),
         NEW o \in DOMAIN ops, Clean(o, ops', unsure')
  PROVE  /\ \A r \in Submitters : r # s => sub'[r] = sub[r]
         /\ o # sub[s].op => ops'[o] = ops[o]
         /\ o = sub[s].op =>
              /\ reached # "hidden"
              /\ ops'[o] = ops[o] \/ ops[o].status = "queued"
              /\ reached = "maybe" =>
                   \/ ops'[o].status = new.status
                   \/ /\ sub'[s] # Idle /\ sub'[s].op = o
                      /\ sub'[s].step = "written" /\ sub'[s].new = new
<1>1. sub[s].op \in DOMAIN ops /\ ops[o] \in OpRow /\ sub[s] \in SubmissionRow /\ ops \in Seq(OpRow)
  BY SubmissionKept DEF OutboxInv, RowsInv, Fine
<1>2. sub \in [Submitters -> SubmissionRow \cup {Idle}]
  BY DEF OutboxInv
<1>3. sub[s].op \in unsure' => o # sub[s].op
  BY DEF Clean
<1>4. Clean(o, ops, unsure)
  BY CleanBefore
<1>5. CASE PersistState(s, new, reached)
  <2>1. sub' = [sub EXCEPT ![s] = Idle]
    BY <1>5, PersistEffects
  <2>2. CASE Recordable(sub[s].op, new)
    <3>1. /\ ops' = [ops EXCEPT ![sub[s].op] = Persisted(ops[sub[s].op], new)]
          /\ Doubt(s, reached = "hidden" \/ ops[sub[s].op] # sub[s].row)
      BY <1>5, <2>2, PersistEffects
    <3>2. o = sub[s].op => reached # "hidden" /\ ops[o] = sub[s].row
      BY <1>3, <3>1 DEF Doubt
    <3>3. o = sub[s].op => ops[o].status = "queued"
      BY <1>4, <3>2 DEF OutboxInv, SubFine
    <3>4. o # sub[s].op => ops'[o] = ops[o]
      BY <3>1
    <3>5. o = sub[s].op => ops'[o].status = new.status
      <4> SUFFICES ASSUME o = sub[s].op PROVE ops'[o].status = new.status
        OBVIOUS
      <4>1. ops'[o] = Persisted(ops[o], new)
        BY <3>1
      <4> QED
        BY <1>1, <4>1 DEF Persisted, OpRow
    <3> QED
      BY <1>2, <2>1, <3>2, <3>3, <3>4, <3>5
  <2>3. CASE ~Recordable(sub[s].op, new)
    <3>1. ops' = ops /\ Doubt(s, reached = "hidden" \/ reached = "maybe")
      BY <1>5, <2>3, PersistEffects
    <3>2. o = sub[s].op => reached \notin {"hidden", "maybe"}
      BY <1>3, <3>1 DEF Doubt
    <3> QED
      BY <1>2, <2>1, <3>1, <3>2
  <2> QED
    BY <2>2, <2>3
<1>6. CASE RecordAtCommit(s, new, reached)
  <2>1. /\ sub' = [sub EXCEPT ![s] = [sub[s] EXCEPT !.step = "written", !.new = new]]
        /\ Doubt(s, reached = "hidden") /\ ops' = ops
    BY <1>6 DEF RecordAtCommit
  <2>2. o = sub[s].op => reached # "hidden"
    BY <1>3, <2>1 DEF Doubt
  <2>3. /\ \A r \in Submitters : r # s => sub'[r] = sub[r]
        /\ sub'[s] = [sub[s] EXCEPT !.step = "written", !.new = new]
    BY <1>2, <2>1
  <2>4. sub'[s].op = sub[s].op /\ sub'[s].step = "written" /\ sub'[s].new = new
    BY <1>1, <2>3 DEF SubmissionRow
  <2>5. [sub[s] EXCEPT !.step = "written", !.new = new] \in SubmissionRow
    BY <1>1 DEF SubmissionRow
  <2>6. sub'[s] # Idle
    BY <2>3, <2>5, OutboxAssumption
  <2> QED
    BY <2>1, <2>2, <2>3, <2>4, <2>6
<1> QED
  BY <1>5, <1>6 DEF RecordFailure

(* Of a job that may still print, or did, or may have, a synchronised row   *)
(* says so.                                                                *)
LEMMA SyncedStaysTrue ==
  ASSUME NEW row \in OpRow, row.status \in {"submitted", "claimed", "printing"},
         NEW answer, answer.status \in Statuses, answer.error \in Errors, ~Dead(answer)
  PROVE  Synced(row, answer).status \in {"submitted", "claimed", "printing", "success", "unknown"}
<1> DEFINE unknown == answer.error \in UnknownMarkers
           now == CASE answer.status = "queued" -> "submitted"
                    [] answer.status \in {"expired", "failed"} -> IF unknown THEN "unknown" ELSE "failed"
                    [] OTHER -> answer.status
           error == IF now = "failed" /\ answer.error = "none" THEN "plain" ELSE answer.error
<1>1. now \in {"submitted", "claimed", "printing", "success", "unknown"}
  BY DEF Dead, PhysicalOutcome, TerminalStatuses, Statuses
<1>2. Synced(row, answer) = IF Advances(row.status, now) THEN [row EXCEPT !.status = now, !.error = error]
                            ELSE row
  BY DEF Synced
<1> HIDE DEF now, error
<1>3. [row EXCEPT !.status = now, !.error = error].status = now
  BY DEF OpRow
<1> QED
  BY <1>1, <1>2, <1>3

LEMMA SyncTracks ==
  ASSUME OutboxInv, AnswersInv, NEW o \in DOMAIN ops, Sync(o), UNCHANGED <<jobs, clerk>>,
         NEW q \in DOMAIN ops, Tracked(q), Clean(q, ops', unsure'), Onward
  PROVE  Tracked(q)'
<1>1. UNCHANGED <<sub, unsure>> /\ ops'[q].idem = ops[q].idem /\ ops \in Seq(OpRow)
  BY DEF Sync, Onward, OutboxInv, RowsInv
<1>2. CASE q # o
  <2>1. ops'[q] = ops[q]
    BY <1>1, <1>2 DEF Sync
  <2> QED
    BY <1>1, <2>1, TrackedStill
<1>3. CASE q = o
  <2>1. ops[o] \in OpRow /\ ops[o].remote \in 1 .. Len(jobs) /\ Clean(o, ops, unsure)
    BY <1>3, CleanBefore DEF Sync, OutboxInv, RowsInv, Fine
  <2>2. ops[o].status \in {"submitted", "claimed", "printing"}
    <3>1. ops[o].status \in DOMAIN ValidTransitions /\ ops[o].status \notin {"success", "failed", "unknown"}
      BY <2>1 DEF OpRow, Sync
    <3>2. ops[o].status # "queued"
      BY DEF Sync, OutboxInv, RowsInv, Fine
    <3>3. ops[o].status # "gone"
      BY <2>1 DEF OutboxInv, RowsInv, Clean
    <3> QED
      BY <3>1, <3>2, <3>3, StatusesOfOps
  <2>3. CASE ops' = [ops EXCEPT ![o].status = "unknown", ![o].error = "plain"]
    <3>1. ops'[o].status = "unknown"
      BY <1>1, <2>1, <2>3 DEF OpRow
    <3> QED
      BY <1>3, <3>1, UnknownIsTrackedNext DEF UnknownPending
  <2>4. CASE ops' = [ops EXCEPT ![o] = Synced(@, Body(ops[o].remote))]
    <3> DEFINE i == ops[o].remote
               row == Synced(ops[o], Body(i))
    <3>1. ops'[o] = row
      BY <2>4
    <3>2. DOMAIN jobs = 1 .. Len(jobs) /\ \A k \in DOMAIN jobs : jobs[k] \in JobRow
      BY LenProperties DEF AnswersInv, AdmissionTypeOK
    <3>3. /\ Body(i).status = jobs[i].status /\ Body(i).error = jobs[i].error
          /\ Body(i).status \in Statuses /\ Body(i).error \in Errors
      BY <2>1, <3>2 DEF Body, JobRow
    <3>4. row.remote = i
      <4>1. /\ Len(jobs) \in Nat /\ Fine(ops[o], Len(jobs)) /\ ops[o].status # "queued"
        BY <2>2, LenProperties DEF AnswersInv, AdmissionTypeOK, OutboxInv, RowsInv
      <4> QED
        BY <3>3, <4>1, SyncedRow
    <3>5. ~Dead(jobs[i]) => row.status \in {"submitted", "claimed", "printing", "success", "unknown"}
      <4>1. Dead(Body(i)) <=> Dead(jobs[i])
        BY <3>3 DEF Dead
      <4> QED
        BY <2>1, <2>2, <3>3, <4>1, SyncedStaysTrue
    <3> HIDE DEF i, row
    <3>6. /\ \A c \in Clerks, r \in Submitters : On(r, o) /\ SentTo(r, c) => On(r, o)' /\ SentTo(r, c)'
          /\ UnknownPending(o) => UnknownPending(o)'
          /\ \A k : AnswerWaits(o, k) => AnswerWaits(o, k)'
          /\ \A k : CommitWaits(o, k) => CommitWaits(o, k)'
      BY <1>1, <2>2 DEF On, SentTo, UnknownPending, AnswerWaits, CommitWaits
    <3>7. Attended(o)'
      BY <1>1, <1>3, <3>6 DEF Attended, Tracked
    <3>8. ASSUME NEW k \in DOMAIN jobs, jobs[k].idem = ops[o].idem, ~Dead(jobs[k])
          PROVE  Followed(o, k)'
      <4>1. Followed(o, k)
        BY <1>3, <3>8 DEF Tracked
      <4>2. CASE k = i
        BY <3>1, <3>4, <3>5, <3>8, <4>2 DEF Followed, UnknownPending
      <4>3. CASE k # i
        BY <2>2, <3>6, <4>1, <4>3 DEF Followed, i
      <4> QED
        BY <4>2, <4>3
    <3> QED
      BY <1>1, <1>3, <3>7, <3>8 DEF Tracked
  <2> QED
    BY <2>3, <2>4 DEF Sync
<1> QED
  BY <1>2, <1>3

LEMMA CommitTracks ==
  ASSUME OutboxInv, Len(jobs) \in Nat, NEW s \in Submitters, Commit(s), UNCHANGED <<jobs, clerk>>,
         NEW q \in DOMAIN ops, Tracked(q), Clean(q, ops', unsure'), Onward
  PROVE  Tracked(q)'
<1> DEFINE o == sub[s].op
           unchanged == ops[o] = sub[s].row \/ sub[s].mode # "click"
<1>1. /\ sub[s] # Idle /\ sub[s].step = "written" /\ o \in DOMAIN ops
      /\ sub' = [sub EXCEPT ![s] = Idle]
      /\ unchanged => ops'[o] = sub[s].new
      /\ ~unchanged => o \in unsure'
      /\ \A p \in DOMAIN ops : p # o \/ ~unchanged =>
           ops'[p].status = ops[p].status /\ ops'[p].remote = ops[p].remote
  BY CommitRows
<1>2. \A r \in Submitters : r # s => sub'[r] = sub[r]
  BY <1>1 DEF OutboxInv
<1>3. ops'[q].idem = ops[q].idem
  BY DEF Onward
<1>4. CASE q # o
  BY <1>1, <1>2, <1>3, <1>4, TrackedStill DEF On
<1>5. CASE q = o
  <2>1. unchanged /\ ops'[q] = sub[s].new
    BY <1>1, <1>5 DEF Clean
  <2>2. ops[q].status = "queued"
    <3>1. Clean(q, ops, unsure)
      BY CleanBefore
    <3>2. /\ sub[s].mode # "click" => ops[q].status = "queued"
          /\ sub[s].row.status = "queued"
      BY <1>1, <1>5, <3>1 DEF OutboxInv, SubFine
    <3> QED
      BY <1>5, <2>1, <3>2
  <2> HIDE DEF unchanged, o
  <2>3. CASE sub[s].new.status = "unknown"
    BY <2>1, <2>3, UnknownIsTrackedNext DEF UnknownPending
  <2>4. CASE sub[s].new.status # "unknown"
    <3>1. \A c \in Clerks, r \in Submitters : On(r, q) /\ SentTo(r, c) => On(r, q)' /\ SentTo(r, c)'
      BY <1>1, <1>2 DEF On, SentTo
    <3>2. UnknownPending(q) => UnknownPending(q)'
      BY <1>2, <2>2, <2>4 DEF UnknownPending, On
    <3>3. Attended(q)'
      BY <1>3, <3>1, <3>2 DEF Attended, Tracked
    <3>4. ASSUME NEW i, Followed(q, i) PROVE Followed(q, i)'
      <4>1. CASE AnswerWaits(q, i)
        BY <3>1, <4>1 DEF AnswerWaits, Followed
      <4>2. CASE CommitWaits(q, i)
        <5>1. PICK r \in Submitters : On(r, q) /\ sub[r].step = "written"
                                      /\ sub[r].new.status = "submitted" /\ sub[r].new.remote = i
          BY <4>2 DEF CommitWaits
        <5>2. CASE r = s
          BY <2>1, <5>1, <5>2 DEF Followed
        <5>3. CASE r # s
          BY <1>2, <5>1, <5>3 DEF Followed, CommitWaits, On
        <5> QED
          BY <5>2, <5>3
      <4> QED
        BY <2>2, <3>2, <3>4, <4>1, <4>2 DEF Followed
    <3> QED
      BY <1>3, <3>3, <3>4 DEF Tracked
  <2> QED
    BY <2>3, <2>4
<1> QED
  BY <1>4, <1>5

(* What an attempt that failed leaves of the operations' tracks.           *)
LEMMA FailureTracks ==
  ASSUME OutboxInv, Onward, UNCHANGED <<jobs, clerk>>,
         NEW s \in Submitters, sub[s] # Idle, sub[s].step \in {"ready", "sent"},
         NEW new \in OpRow, NEW reached, RecordFailure(s, new, reached),
         \/ sub[s].step = "ready" \/ reached = "hidden"
         \/ reached = "maybe" /\ new.status = "unknown",
         NEW q \in DOMAIN ops, Tracked(q), Clean(q, ops', unsure')
  PROVE  Tracked(q)'
<1>1. /\ \A r \in Submitters : r # s => sub'[r] = sub[r]
      /\ q # sub[s].op => ops'[q] = ops[q]
      /\ q = sub[s].op =>
           /\ reached # "hidden"
           /\ ops'[q] = ops[q] \/ ops[q].status = "queued"
           /\ reached = "maybe" =>
                \/ ops'[q].status = new.status
                \/ /\ sub'[s] # Idle /\ sub'[s].op = q
                   /\ sub'[s].step = "written" /\ sub'[s].new = new
  BY RecordedFailure
<1>2. ops'[q].idem = ops[q].idem
  BY DEF Onward
<1>3. CASE q # sub[s].op
  BY <1>1, <1>2, <1>3, TrackedStill DEF On
<1>4. CASE q = sub[s].op /\ sub[s].step = "ready"
  BY <1>1, <1>2, <1>4, TrackedStill
<1>5. CASE q = sub[s].op /\ reached = "maybe" /\ new.status = "unknown"
  BY <1>1, <1>5, UnknownIsTrackedNext DEF UnknownPending, On
<1> QED
  BY <1>1, <1>3, <1>4, <1>5

LEMMA FollowOutbox ==
  ASSUME OutboxInv, OutboxInv', Onward, AnswersInv, FollowInv,
         \/ OutboxAlone
         \/ \E s \in Web, idem \in OwnKey, p \in Printers, document \in Documents :
              Click(s, idem, p, document),
         UNCHANGED <<jobs, clerk>>
  PROVE  FollowInv'
<1> DEFINE Goal == \A o \in DOMAIN ops : Tracked(o) /\ Clean(o, ops', unsure') => Tracked(o)'
<1>1. Len(jobs) \in Nat /\ ops \in Seq(OpRow) /\ sub \in [Submitters -> SubmissionRow \cup {Idle}]
  BY LenProperties DEF AnswersInv, AdmissionTypeOK, OutboxInv, RowsInv
<1>2. \A o \in DOMAIN ops : ops'[o].idem = ops[o].idem /\ ops[o] \in OpRow
  BY <1>1 DEF Onward
(* A step that leaves the rows what they are, and their followers.          *)
<1>3. ASSUME NEW s \in Submitters, sub[s] = Idle \/ sub[s].step \in {"stored", "ready"}, NEW x,
             sub' = [sub EXCEPT ![s] = x] \/ sub' = sub,
             \A o \in DOMAIN ops : ops'[o].status = ops[o].status /\ ops'[o].remote = ops[o].remote
      PROVE  Goal
  <2>1. ASSUME NEW r \in Submitters, NEW o, On(r, o), sub[r].step \in {"sent", "written"}
        PROVE  sub'[r] = sub[r]
    BY <1>1, <1>3, <2>1 DEF On
  <2> QED
    BY <1>2, <1>3, <2>1, TrackedStill
<1>4. ASSUME NEW s \in Web, NEW idem \in OwnKey, NEW p \in Printers, NEW document \in Documents,
             Click(s, idem, p, document)
      PROVE  Goal
  <2>1. s \in Submitters /\ sub[s] = Idle
    BY <1>4 DEF Submitters, Click
  <2>2. \A o \in DOMAIN ops : ops'[o] = ops[o]
    <3>1. ops' = ops \/ ops' = Append(ops, NewOp(idem, p, document))
      BY <1>4 DEF Click
    <3>2. NewOp(idem, p, document) \in OpRow
      BY <1>1, NewRow DEF OwnKey, Fine
    <3> QED
      BY <1>1, <3>1, <3>2, AppendProperties, LenProperties
  <2>3. \E x : sub' = [sub EXCEPT ![s] = x]
    BY <1>4 DEF Click
  <2> HIDE DEF Goal
  <2> QED
    BY <1>3, <2>1, <2>2, <2>3
<1>5. ASSUME NEW s \in Web, NEW o \in DOMAIN ops, NEW idem \in IdemKey, NEW parent, Mint(s, o, idem, parent)
      PROVE  Goal
  <2>1. s \in Submitters /\ sub[s] = Idle
    BY <1>5 DEF Submitters, Mint
  <2>2. \A q \in DOMAIN ops : ops'[q] = ops[q]
    <3>1. ops' = Append(ops, NewOp(idem, ops[o].printer, ops[o].document))
      BY <1>5 DEF Mint
    <3>2. ops[o].printer \in Printers /\ ops[o].document \in Documents
      BY <1>2 DEF OpRow
    <3>3. NewOp(idem, ops[o].printer, ops[o].document) \in OpRow
      BY <1>1, <3>2, NewRow DEF Fine
    <3> QED
      BY <1>1, <3>1, <3>3, AppendProperties, LenProperties
  <2>3. \E x : sub' = [sub EXCEPT ![s] = x]
    BY <1>5 DEF Mint
  <2> HIDE DEF Goal
  <2> QED
    BY <1>3, <2>1, <2>2, <2>3
<1>6. ASSUME NEW s \in Web, NEW o \in 1..MaxOps, Retry(s, o) \/ ForceReprint(s, o) PROVE Goal
  <2>1. o \in DOMAIN ops /\ Len(ops) \in Nat
    BY <1>1, <1>6, LenProperties DEF Retry, ForceReprint
  <2>2. CASE Retry(s, o)
    <3>1. Idem(Len(ops) + 1) \in IdemKey
      BY <2>1 DEF Idem, IdemKey
    <3> HIDE DEF Goal
    <3> QED
      BY <1>5, <2>1, <2>2, <3>1 DEF Retry
  <2>3. CASE ForceReprint(s, o)
    <3>1. ops[o].reprints \in Nat /\ o \in Nat
      BY <1>1, <1>2, <2>1, LenProperties DEF OpRow
    <3>2. [kind |-> "odoo-reprint", of |-> o, n |-> ops[o].reprints + 1] \in IdemKey
      BY <3>1 DEF IdemKey
    <3> HIDE DEF Goal
    <3> QED
      BY <1>5, <2>1, <2>3, <3>2 DEF ForceReprint
  <2> HIDE DEF Goal
  <2> QED
    BY <1>6, <2>2, <2>3
<1>7. ASSUME NEW s \in Submitters, NEW o \in DOMAIN ops, StartCron(s, o) PROVE Goal
  <2>1. sub[s] = Idle /\ ops' = ops /\ \E x : sub' = [sub EXCEPT ![s] = x]
    BY <1>7 DEF StartCron
  <2> HIDE DEF Goal
  <2> QED
    BY <1>3, <2>1
<1>8. ASSUME NEW s \in Submitters, StartClick(s) PROVE Goal
  <2>1. sub[s].step = "stored" /\ ops' = ops /\ \E x : sub' = [sub EXCEPT ![s] = x]
    BY <1>8 DEF StartClick
  <2> HIDE DEF Goal
  <2> QED
    BY <1>3, <2>1
<1>9. ASSUME NEW s \in Submitters, FailOver(s) PROVE Goal
  <2>1. sub[s].step = "ready" /\ \E x : sub' = [sub EXCEPT ![s] = x]
    BY <1>9 DEF FailOver, Ready
  <2>2. \A o \in DOMAIN ops : ops'[o].status = ops[o].status /\ ops'[o].remote = ops[o].remote
    BY <1>1, <1>9, FailOverFine
  <2> HIDE DEF Goal
  <2> QED
    BY <1>3, <2>1, <2>2
<1>10. ASSUME NEW s \in Submitters, PutOff(s) \/ TimeOut(s) \/ HiddenAnswer(s) PROVE Goal
  <2>1. sub[s] # Idle /\ sub[s].step \in {"ready", "sent"} /\ Fine(sub[s].row, Len(jobs))
    BY <1>10, SubmissionKept DEF PutOff, TimeOut, HiddenAnswer, Ready, Under_Way
  <2>2. /\ Again(sub[s].row, FALSE) \in OpRow /\ Again(sub[s].row, TRUE) \in OpRow
        /\ Ambiguous(sub[s].row) \in OpRow /\ Ambiguous(sub[s].row).status = "unknown"
    BY <1>1, <2>1, AgainRow, AmbiguousRow DEF Fine
  <2>3. CASE PutOff(s)
    BY <2>1, <2>2, <2>3, FailureTracks DEF PutOff, Ready
  <2>4. CASE TimeOut(s)
    BY <2>1, <2>2, <2>4, FailureTracks DEF TimeOut
  <2>5. CASE HiddenAnswer(s)
    BY <2>1, <2>2, <2>5, FailureTracks DEF HiddenAnswer
  <2> HIDE DEF Goal
  <2> QED
    BY <1>10, <2>3, <2>4, <2>5
<1>11. ASSUME NEW s \in Submitters, Commit(s) PROVE Goal
  BY <1>1, <1>11, CommitTracks
<1>12. ASSUME NEW s \in Submitters, Dies(s) PROVE Goal
  <2> SUFFICES ASSUME NEW o \in DOMAIN ops, Tracked(o), Clean(o, ops', unsure') PROVE Tracked(o)'
    OBVIOUS
  <2>1. /\ sub' = [sub EXCEPT ![s] = Idle] /\ sub[s].op \in unsure'
        /\ ops' = ops \/ ops' = [ops EXCEPT ![sub[s].op].status = "gone"]
    BY <1>12 DEF Dies, Doubt
  <2>2. o # sub[s].op
    BY <2>1 DEF Clean
  <2>3. ops'[o] = ops[o] /\ \A r \in Submitters : On(r, o) => sub'[r] = sub[r]
    BY <1>1, <2>1, <2>2 DEF On
  <2> QED
    BY <2>3, TrackedStill
<1>13. ASSUME NEW o \in DOMAIN ops, BackoffEnds(o) PROVE Goal
  <2> SUFFICES ASSUME NEW q \in DOMAIN ops, Tracked(q) PROVE Tracked(q)'
    OBVIOUS
  <2>1. ops' = [ops EXCEPT ![o] = [ops[o] EXCEPT !.due = TRUE]] /\ UNCHANGED sub
    BY <1>13 DEF BackoffEnds
  <2>2. ops'[q].status = ops[q].status /\ ops'[q].remote = ops[q].remote
    BY <1>2, <2>1 DEF OpRow
  <2> QED
    BY <1>2, <2>1, <2>2, TrackedStill
<1>14. ASSUME NEW o \in DOMAIN ops, Sync(o) PROVE Goal
  BY <1>14, SyncTracks
<1>15. ASSUME NEW k \in Keys, ConfigureKey(k) PROVE Goal
  BY <1>15, TrackedStill DEF ConfigureKey
<1>16. \A o \in 1..MaxOps, s \in Submitters :
         BackoffEnds(o) \/ Sync(o) \/ StartCron(s, o) => o \in DOMAIN ops
  BY DEF BackoffEnds, Sync, StartCron
<1> HIDE DEF Goal
<1>17. Goal
  <2>1. CASE OutboxAlone
    <3>1. CASE \E s \in Cron, o \in 1..MaxOps : StartCron(s, o)
      BY <1>7, <1>16, <3>1 DEF Submitters
    <3>2. CASE \E o \in 1..MaxOps : BackoffEnds(o) \/ Sync(o)
      <4>1. PICK o \in 1..MaxOps : BackoffEnds(o) \/ Sync(o)
        BY <3>2
      <4>2. o \in DOMAIN ops
        BY <4>1 DEF BackoffEnds, Sync
      <4> QED
        BY <1>13, <1>14, <4>1, <4>2
    <3> QED
      BY <1>4, <1>6, <1>8, <1>9, <1>10, <1>11, <1>12, <1>15, <2>1, <3>1, <3>2 DEF OutboxAlone
  <2> QED
    BY <1>4, <2>1
<1> QED
  BY <1>17, FollowStep DEF Goal

(* No operation that counts shares its key with another.                   *)
LEMMA CleanIsAlone ==
  ASSUME RowsInv, NEW o \in DOMAIN ops, NEW q \in DOMAIN ops, Clean(o, ops, unsure),
         ops[q].idem = ops[o].idem
  PROVE  q = o
<1>1. DOMAIN ops = 1 .. Len(ops) /\ Len(ops) \in Nat
  BY LenProperties DEF RowsInv
<1>2. CASE q < o
  BY <1>2 DEF RowsInv, Clean
<1>3. CASE o < q
  BY <1>3 DEF RowsInv, Clean
<1> QED
  BY <1>1, <1>2, <1>3

LEMMA FollowSend ==
  ASSUME OutboxInv, AnswersInv, FollowInv, NEW s \in Submitters, NEW c \in Clerks, Send(s, c)
  PROVE  FollowInv'
<1>1. /\ ops' = ops /\ unsure' = unsure /\ jobs' = jobs
      /\ sub[s] # Idle /\ sub[s].step = "ready" /\ sub[s].op \in DOMAIN ops
      /\ sub' = [sub EXCEPT ![s] = [sub[s] EXCEPT !.step = "sent", !.clerk = c]]
      /\ clerk[c] = Idle /\ \A d \in Clerks : d # c => clerk'[d] = clerk[d]
      /\ OutboxInv'
  BY SendFine
<1>2. clerk'[c].idem = ops[sub[s].op].idem
  BY SendAsks
<1>3. sub \in [Submitters -> SubmissionRow \cup {Idle}] /\ RowsInv
  BY DEF OutboxInv
<1>4. /\ \A r \in Submitters : r # s => sub'[r] = sub[r]
      /\ sub'[s] = [sub[s] EXCEPT !.step = "sent", !.clerk = c]
  BY <1>1, <1>3
<1>5. sub'[s].op = sub[s].op /\ sub'[s].step = "sent" /\ sub'[s].clerk = c /\ sub'[s] # Idle
  <2>1. sub[s] \in SubmissionRow /\ c \in Clerks \cup {NoClerk}
    BY <1>1, <1>3
  <2>2. sub'[s] \in SubmissionRow
    BY <1>4, <2>1 DEF SubmissionRow
  <2> QED
    BY <1>4, <2>1, <2>2, OutboxAssumption DEF SubmissionRow
<1> SUFFICES ASSUME NEW o \in DOMAIN ops, Clean(o, ops, unsure), Tracked(o) PROVE Tracked(o)'
  BY <1>1 DEF FollowInv
<1>6. \A r \in Submitters : On(r, o) /\ sub[r].step \in {"sent", "written"} => sub'[r] = sub[r]
  BY <1>1, <1>4
<1>7. ASSUME NEW r \in Submitters, NEW d \in Clerks, On(r, o), SentTo(r, d)
      PROVE  On(r, o)' /\ SentTo(r, d)' /\ clerk'[d] = clerk[d]
  <2>1. sub'[r] = sub[r]
    BY <1>6, <1>7 DEF SentTo
  <2>2. d # c
    BY <1>1, <1>7 DEF SentTo, OutboxInv, SubFine
  <2> QED
    BY <1>1, <1>7, <2>1, <2>2 DEF On, SentTo
<1>8. UnknownPending(o) => UnknownPending(o)'
  BY <1>1, <1>6 DEF UnknownPending, On
<1>9. ASSUME NEW i, Followed(o, i) PROVE Followed(o, i)'
  <2>1. AnswerWaits(o, i) => AnswerWaits(o, i)'
    BY <1>7 DEF AnswerWaits
  <2>2. CommitWaits(o, i) => CommitWaits(o, i)'
    BY <1>6 DEF CommitWaits, On
  <2> QED
    BY <1>1, <1>8, <1>9, <2>1, <2>2 DEF Followed
<1>10. ASSUME NEW d \in Clerks, clerk'[d] # Idle, clerk'[d].step # "answered",
              clerk'[d].idem = ops[o].idem
       PROVE  (\E r \in Submitters : On(r, o) /\ SentTo(r, d))' \/ UnknownPending(o)'
  <2>1. CASE d = c
    <3>1. sub[s].op = o
      BY <1>1, <1>2, <1>3, <1>10, <2>1, CleanIsAlone
    <3> QED
      BY <1>5, <2>1, <3>1 DEF On, SentTo
  <2>2. CASE d # c
    BY <1>1, <1>7, <1>8, <1>10, <2>2 DEF Tracked, Attended
  <2> QED
    BY <2>1, <2>2
<1> QED
  BY <1>1, <1>9, <1>10 DEF Tracked, Attended

LEMMA FollowAnswer ==
  ASSUME OutboxInv, OutboxInv', Onward, AnswersInv, FollowInv, NEW s \in Submitters, Answered(s)
  PROVE  FollowInv'
<1> DEFINE c == sub[s].clerk
           row == sub[s].row
           new == Accepted(row, clerk[c].job, clerk[c].body)
<1>1. /\ sub[s] # Idle /\ sub[s].step = "sent" /\ c \in Clerks
      /\ clerk[c] # Idle /\ clerk[c].step = "answered" /\ jobs' = jobs
      /\ clerk'[c] = Idle /\ \A d \in Clerks : d # c => clerk'[d] = clerk[d]
      /\ clerk[c].code \in {200, 201} =>
           /\ clerk[c].job \in 1 .. Len(jobs)
           /\ clerk[c].body.status \in Statuses /\ clerk[c].body.error \in Errors
           /\ clerk[c].code = 201 => clerk[c].body.status = "queued"
  BY AnsweredCloses
<1>2. /\ Fine(row, Len(jobs)) /\ Len(jobs) \in Nat /\ sub[s].op \in DOMAIN ops
      /\ sub \in [Submitters -> SubmissionRow \cup {Idle}] /\ sub[s] \in SubmissionRow
  BY <1>1, SubmissionKept, LenProperties DEF AnswersInv, AdmissionTypeOK, OutboxInv
<1>3. DOMAIN ops' = DOMAIN ops
  <2>1. CASE UNCHANGED ops
    BY <2>1
  <2>2. CASE \E failed, reached : PersistState(s, failed, reached)
    BY <2>2 DEF PersistState
  <2>3. UNCHANGED ops \/ \E failed, reached : PersistState(s, failed, reached)
    BY DEF Answered, RecordFailure, RecordAtCommit
  <2> QED
    BY <2>1, <2>2, <2>3
<1>4. clerk[c].code \in {200, 201} =>
        /\ Fine(new, Len(jobs)) /\ new.remote = clerk[c].job /\ new.status \notin {"queued", "gone"}
        /\ clerk[c].code = 201 => new.status = "submitted"
  <2> SUFFICES ASSUME clerk[c].code \in {200, 201}
               PROVE  /\ Fine(new, Len(jobs)) /\ new.remote = clerk[c].job /\ new.status \notin {"queued", "gone"}
                      /\ clerk[c].code = 201 => new.status = "submitted"
    OBVIOUS
  <2>1. /\ clerk[c].job \in 1 .. Len(jobs)
        /\ clerk[c].body.status \in Statuses /\ clerk[c].body.error \in Errors
        /\ clerk[c].code = 201 => clerk[c].body.status = "queued"
    BY <1>1
  <2> HIDE DEF c, row
  <2> QED
    BY <1>2, <2>1, AcceptedRow
<1> SUFFICES ASSUME NEW o \in DOMAIN ops, Clean(o, ops', unsure'), Clean(o, ops, unsure), Tracked(o)
             PROVE  Tracked(o)'
  BY <1>3, CleanBefore DEF FollowInv
<1>5. ops'[o].idem = ops[o].idem
  BY DEF Onward
<1>6. o = sub[s].op => row.status = "queued"
  BY <1>1 DEF OutboxInv, SubFine
(* The answer is what the outbox goes by, or the attempt has failed.       *)
<1>7. /\ \A r \in Submitters : r # s => sub'[r] = sub[r]
      /\ o # sub[s].op => ops'[o] = ops[o]
      /\ o = sub[s].op =>
           /\ ops'[o] = ops[o] \/ ops[o].status = "queued"
           /\ clerk[c].code \in {200, 201} =>
                /\ sub'[s] # Idle /\ sub'[s].op = o /\ sub'[s].step = "written" /\ sub'[s].new = new
  <2>1. CASE clerk[c].code \in {200, 201} /\ RecordAtCommit(s, new, "maybe")
    <3>1. sub' = [sub EXCEPT ![s] = [sub[s] EXCEPT !.step = "written", !.new = new]] /\ ops' = ops
      BY <2>1 DEF RecordAtCommit
    <3>2. new \in OpRow
      BY <1>4, <2>1 DEF Fine
    <3> HIDE DEF new
    <3>3. sub'[s] = [sub[s] EXCEPT !.step = "written", !.new = new]
      BY <1>2, <3>1
    <3>4. sub'[s] \in SubmissionRow
      BY <1>2, <3>2, <3>3 DEF SubmissionRow
    <3>5. sub'[s] # Idle /\ sub'[s].op = sub[s].op /\ sub'[s].step = "written" /\ sub'[s].new = new
      BY <1>2, <3>3, <3>4, OutboxAssumption DEF SubmissionRow
    <3> QED
      BY <1>2, <3>1, <3>5
  <2>2. CASE /\ clerk[c].code \in {200, 201} /\ ~Advances(row.status, new.status)
             /\ PersistState(s, Rejected(row), "maybe")
    <3>1. new.status \in DOMAIN ValidTransitions \ {"queued", "gone"}
      BY <1>4, <2>2 DEF Fine, OpRow
    <3>2. o # sub[s].op
      BY <1>6, <2>2, <3>1, QueuedAdvances
    <3> HIDE DEF c, row, new
    <3>3. /\ sub' = [sub EXCEPT ![s] = Idle]
          /\ ops' = ops \/ ops' = [ops EXCEPT ![sub[s].op] = Persisted(ops[sub[s].op], Rejected(row))]
      BY <1>1, <2>2, PersistEffects
    <3> QED
      BY <1>2, <3>2, <3>3
  <2>3. CASE /\ clerk[c].code \notin {200, 201}
             /\ RecordFailure(s, Rejected(row), "no") \/ RecordFailure(s, Again(row, TRUE), "no")
    <3>1. Rejected(row) \in OpRow /\ Again(row, TRUE) \in OpRow
      BY <1>2, RejectedRow, AgainRow DEF Fine
    <3> HIDE DEF c, row
    <3>2. PICK failed \in OpRow : RecordFailure(s, failed, "no")
      BY <2>3, <3>1
    <3>3. /\ \A r \in Submitters : r # s => sub'[r] = sub[r]
          /\ o # sub[s].op => ops'[o] = ops[o]
          /\ o = sub[s].op => ops'[o] = ops[o] \/ ops[o].status = "queued"
      BY <1>1, <3>2, RecordedFailure
    <3> QED
      BY <2>3, <3>3
  <2>4. \/ clerk[c].code \in {200, 201} /\ RecordAtCommit(s, new, "maybe")
        \/ /\ clerk[c].code \in {200, 201} /\ ~Advances(row.status, new.status)
           /\ PersistState(s, Rejected(row), "maybe")
        \/ /\ clerk[c].code \notin {200, 201}
           /\ RecordFailure(s, Rejected(row), "no") \/ RecordFailure(s, Again(row, TRUE), "no")
    <3>1. \/ clerk[c].code \in {200, 201} /\ Advances(row.status, new.status) /\ RecordAtCommit(s, new, "maybe")
          \/ clerk[c].code \in {200, 201} /\ ~Advances(row.status, new.status)
                /\ PersistState(s, Rejected(row), "maybe")
          \/ clerk[c].code \in {400, 403, 404, 409, 422} /\ RecordFailure(s, Rejected(row), "no")
          \/ clerk[c].code \in {401, 500, 503} /\ RecordFailure(s, Again(row, TRUE), "no")
      BY Zenon DEF Answered
    <3> HIDE DEF c, row, new
    <3>2. \A code : code \in {400, 403, 404, 409, 422} \/ code \in {401, 500, 503} => code \notin {200, 201}
      OBVIOUS
    <3> QED
      BY <3>1, <3>2
  <2> HIDE DEF c, row, new
  <2> QED
    BY <2>1, <2>2, <2>3, <2>4
<1> HIDE DEF c, row, new
<1>8. ASSUME NEW r \in Submitters, NEW d \in Clerks, On(r, o), SentTo(r, d), r # s
      PROVE  On(r, o)' /\ SentTo(r, d)' /\ clerk'[d] = clerk[d]
  <2>1. d # c
    BY <1>1, <1>8 DEF SentTo, OutboxInv, SubFine, c
  <2> QED
    BY <1>1, <1>7, <1>8, <2>1 DEF On, SentTo
<1>9. ASSUME UnknownPending(o) PROVE UnknownPending(o)'
  <2>1. \A r \in Submitters : sub[r].step = "written" => r # s
    BY <1>1
  <2> QED
    BY <1>7, <1>9, <2>1 DEF UnknownPending, On
<1>10. Attended(o)'
  <2> SUFFICES ASSUME NEW d \in Clerks, clerk'[d] # Idle, clerk'[d].step # "answered",
                      clerk'[d].idem = ops'[o].idem
               PROVE  (\E r \in Submitters : On(r, o) /\ SentTo(r, d))' \/ UnknownPending(o)'
    BY DEF Attended
  <2>1. d # c /\ clerk'[d] = clerk[d]
    BY <1>1
  <2>2. (\E r \in Submitters : On(r, o) /\ SentTo(r, d)) \/ UnknownPending(o)
    BY <1>5, <2>1 DEF Tracked, Attended
  <2>3. \A r \in Submitters : SentTo(r, d) => r # s
    BY <1>1, <2>1 DEF SentTo, c
  <2> QED
    BY <1>8, <1>9, <2>2, <2>3
<1>11. ASSUME NEW i, Followed(o, i) PROVE Followed(o, i)'
  <2>1. CASE AnswerWaits(o, i)
    <3>1. PICK r \in Submitters, d \in Clerks :
            /\ On(r, o) /\ SentTo(r, d)
            /\ clerk[d].step = "answered" /\ clerk[d].code = 201 /\ clerk[d].job = i
      BY <2>1 DEF AnswerWaits
    <3>2. CASE r # s
      BY <1>8, <3>1, <3>2 DEF Followed, AnswerWaits
    <3>3. CASE r = s
      <4>1. d = c /\ o = sub[s].op
        BY <3>1, <3>3 DEF SentTo, On, c
      <4>2. /\ sub'[s] # Idle /\ sub'[s].op = o /\ sub'[s].step = "written" /\ sub'[s].new = new
            /\ new.status = "submitted" /\ new.remote = i
        BY <1>4, <1>7, <3>1, <4>1
      <4> QED
        BY <4>2 DEF Followed, CommitWaits, On
    <3> QED
      BY <3>2, <3>3
  <2>2. CASE CommitWaits(o, i)
    <3>1. CommitWaits(o, i)'
      BY <1>1, <1>7, <2>2 DEF CommitWaits, On
    <3> QED
      BY <3>1 DEF Followed
  <2>3. CASE ops[o].status # "queued" /\ ~AnswerWaits(o, i) /\ ~CommitWaits(o, i)
    <3>1. ops'[o] = ops[o]
      BY <1>7, <2>3
    <3> QED
      BY <1>9, <1>11, <2>3, <3>1 DEF Followed
  <2>4. CASE ops[o].status = "queued" /\ ~AnswerWaits(o, i) /\ ~CommitWaits(o, i)
    BY <1>9, <1>11, <2>4 DEF Followed
  <2> QED
    BY <2>1, <2>2, <2>3, <2>4
<1> QED
  BY <1>1, <1>5, <1>10, <1>11 DEF Tracked

(* The Gateway serves, delivers, expires: what it makes, a submission waits *)
(* for, and what has ended without printing stays so.                      *)
LEMMA FollowWorld ==
  ASSUME OutboxInv, AnswersInv, FollowInv, AdmissionAlone, UNCHANGED outboxVars
  PROVE  FollowInv'
<1>1. UNCHANGED <<ops, sub, unsure>>
  BY DEF outboxVars
<1>2. RowsKept
  BY AdmissionAloneAsks, RowsAreKept
<1>3. \A o : UnknownPending(o)' = UnknownPending(o)
  BY <1>1 DEF UnknownPending, On
<1>4. \A o, i : CommitWaits(o, i)' = CommitWaits(o, i)
  BY <1>1 DEF CommitWaits, On
<1> DEFINE ReadLater == \A r \in Submitters, d \in Clerks :
             SentTo(r, d) /\ clerk[d].step = "answered" => clerk'[d] = clerk[d]
<1>5. ASSUME ReadLater, NEW o, NEW i, Followed(o, i) PROVE Followed(o, i)'
  <2>1. AnswerWaits(o, i) => AnswerWaits(o, i)'
    BY <1>1, <1>5 DEF AnswerWaits, On, SentTo
  <2> QED
    BY <1>1, <1>3, <1>4, <1>5, <2>1 DEF Followed
<1>6. ASSUME ReadLater, DOMAIN jobs' = DOMAIN jobs, NEW o \in DOMAIN ops, Tracked(o), Attended(o)'
      PROVE  Tracked(o)'
  BY <1>1, <1>2, <1>5, <1>6 DEF Tracked, RowsKept, Faded
<1>7. ASSUME UNCHANGED clerk, NEW o, Attended(o) PROVE Attended(o)' /\ ReadLater
  BY <1>1, <1>3, <1>7 DEF Attended, On, SentTo
<1> SUFFICES ASSUME NEW o \in DOMAIN ops, Clean(o, ops, unsure), Tracked(o), Attended(o) PROVE Tracked(o)'
  BY <1>1 DEF FollowInv, Tracked
<1>8. CASE RowsChange
  <2>1. UNCHANGED clerk /\ DOMAIN jobs' = DOMAIN jobs
    BY <1>8, RowsFade DEF AnswersInv, AdmissionTypeOK
  <2> QED
    BY <1>6, <1>7, <2>1
<1>9. CASE SettingsChange
  <2>1. UNCHANGED <<clerk, jobs>>
    BY <1>9 DEF SettingsChange, PresenceChanges, RateWindowPasses, CreateKey, RevokeKey, RemoveKey,
      RotateKey, KeepAllButKeys, KeepRequests, KeepSurroundings
  <2> QED
    BY <1>6, <1>7, <2>1
<1>10. ASSUME NEW c \in Clerks, OthersAsk(c) PROVE Tracked(o)'
  <2>1. /\ clerk[c] = Idle /\ jobs' = jobs /\ \A d \in Clerks : d # c => clerk'[d] = clerk[d]
        /\ clerk'[c].idem.kind \notin OwnKinds
    BY <1>10, OthersKey, AskedEffects
  <2>2. ops[o].idem.kind \in OwnKinds
    BY DEF OutboxInv, RowsInv, OwnKey
  <2>3. Attended(o)'
    BY <1>1, <1>3, <2>1, <2>2 DEF Attended, On, SentTo
  <2>4. ReadLater
    BY <2>1 DEF OutboxInv, SubFine, SentTo
  <2> QED
    BY <1>6, <2>1, <2>3, <2>4
<1>11. ASSUME NEW c \in Clerks, Close(c), Unread(c) PROVE Tracked(o)'
  <2>1. clerk'[c] = Idle /\ jobs' = jobs /\ \A d \in Clerks : d # c => clerk'[d] = clerk[d]
    BY <1>11, CloseEffects DEF AnswersInv
  <2>2. Attended(o)'
    BY <1>1, <1>3, <2>1 DEF Attended, On, SentTo
  <2>3. ReadLater
    BY <1>11, <2>1 DEF Unread, SentTo
  <2> QED
    BY <1>6, <2>1, <2>2, <2>3
<1>12. ASSUME NEW c \in Clerks, Serve(c) PROVE Tracked(o)'
  <2>1. /\ clerk[c] # Idle /\ clerk[c].step # "answered"
        /\ \A d \in Clerks : d # c => clerk'[d] = clerk[d]
        /\ UNCHANGED jobs \/ Inserted(c)
    BY <1>12, ServeEffects DEF KeepsRequest
  <2>2. clerk'[c].idem = ops[o].idem => clerk[c].idem = ops[o].idem
    <3>1. ops[o].idem.kind \in OwnKinds
      BY DEF OutboxInv, RowsInv, OwnKey
    <3>2. \/ clerk'[c].idem = clerk[c].idem
          \/ clerk[c].idem.kind \notin OwnKinds /\ clerk'[c].idem.kind \notin OwnKinds
      BY <1>12, OwnKeyKept
    <3> QED
      BY <3>1, <3>2
  <2>3. Attended(o)'
    BY <1>1, <1>3, <2>1, <2>2 DEF Attended, On, SentTo
  <2>4. ReadLater
    BY <2>1
  <2>5. CASE UNCHANGED jobs
    BY <1>6, <2>3, <2>4, <2>5
  <2>6. CASE Inserted(c)
    <3>1. /\ DOMAIN jobs' = DOMAIN jobs \cup {Len(jobs) + 1}
          /\ jobs'[Len(jobs) + 1] = NewJob(clerk[c])
          /\ \A i \in DOMAIN jobs : jobs'[i] = jobs[i]
      BY <2>1, <2>6, InsertedRow DEF AnswersInv
    <3>0. PICK n : n = Len(jobs) + 1
      OBVIOUS
    <3>2. jobs'[Len(jobs) + 1].idem = clerk[c].idem
      BY <3>1 DEF NewJob
    <3>3. ASSUME clerk[c].idem = ops[o].idem PROVE Followed(o, n)'
      <4>1. (\E s \in Submitters : On(s, o) /\ SentTo(s, c)) \/ UnknownPending(o)
        BY <2>1, <3>3 DEF Attended
      <4>2. clerk'[c].step = "answered" /\ clerk'[c].code = 201 /\ clerk'[c].job = n
        BY <2>6, <3>0 DEF Inserted
      <4>3. ASSUME NEW s \in Submitters, On(s, o), SentTo(s, c) PROVE AnswerWaits(o, n)'
        <5>1. On(s, o)' /\ SentTo(s, c)'
          BY <1>1, <4>3 DEF On, SentTo
        <5> QED
          BY <4>2, <5>1 DEF AnswerWaits
      <4> QED
        BY <1>3, <4>1, <4>3 DEF Followed
    <3>4. \A i \in DOMAIN jobs : Followed(o, i) => Followed(o, i)'
      BY <1>5, <2>4
    <3> QED
      BY <1>1, <2>3, <3>0, <3>1, <3>2, <3>3, <3>4 DEF Tracked
  <2> QED
    BY <2>1, <2>5, <2>6
<1> QED
  BY <1>8, <1>9, <1>10, <1>11, <1>12 DEF AdmissionAlone

LEMMA FollowDesk ==
  ASSUME AnswersInv, OutboxInv, PosInv, FollowInv, DeskNext
  PROVE  FollowInv'
<1>1. Onward /\ OutboxInv'
  BY OutboxStep
<1>2. CASE AdmissionAlone /\ UNCHANGED <<outboxVars, posVars>>
  BY <1>2, FollowWorld
<1>3. CASE \E s \in Submitters, c \in Clerks : Send(s, c)
  BY <1>3, FollowSend
<1>4. CASE \E s \in Submitters : Answered(s)
  BY <1>1, <1>4, FollowAnswer
<1>5. CASE OutboxAlone /\ UNCHANGED <<admissionVars, posVars>>
  BY <1>1, <1>5, FollowOutbox DEF admissionVars
<1>6. CASE (\E s \in Web, call \in calls : ServeRoute(s, call)) /\ UNCHANGED admissionVars
  <2>1. UNCHANGED <<jobs, clerk>> /\ Len(jobs) \in Nat
    BY <1>6, LenProperties DEF admissionVars, AnswersInv, AdmissionTypeOK
  <2>2. \E s \in Web, idem \in OwnKey, p \in Printers, document \in Documents :
          Click(s, idem, p, document)
    BY <1>6, <2>1, ServeRouteFine
  <2> QED
    BY <1>1, <2>1, <2>2, FollowOutbox
<1>7. CASE UNCHANGED <<admissionVars, outboxVars>>
  <2>1. UNCHANGED <<jobs, clerk, ops, sub, unsure>>
    BY <1>7 DEF admissionVars, outboxVars
  <2> QED
    BY <2>1 DEF FollowInv, Tracked, Attended, Followed, UnknownPending, AnswerWaits, CommitWaits,
      On, SentTo, Clean
<1>8. (PosAlone /\ UNCHANGED <<admissionVars, outboxVars>>) \/ UNCHANGED <<admissionVars, outboxVars, posVars>>
        => UNCHANGED <<admissionVars, outboxVars>>
  OBVIOUS
<1> QED
  BY <1>2, <1>3, <1>4, <1>5, <1>6, <1>7, <1>8 DEF DeskNext

(* An operator who retries prints what was not printed: no job of an       *)
(* operation that is called failed and not printed did print, may have, or  *)
(* will, whatever answers were lost or late, for any number of submitters,  *)
(* keys, printers and attempts; provided none of its own records was lost,  *)
(* which the code cannot know.                                             *)
THEOREM RetriesPrintOnce == Spec => []UnprintedIsSafe
<1>1. Init => FollowInv
  <2>1. OutboxInit => DOMAIN ops = {}
    BY DEF OutboxInit
  <2> QED
    BY <2>1 DEF Init, FollowInv
<1>2. EdgeInv /\ DeskInv /\ FollowInv /\ [Next]_vars => FollowInv'
  <2> SUFFICES ASSUME EdgeInv, DeskInv, FollowInv, [Next]_vars PROVE FollowInv'
    OBVIOUS
  <2>1. DeskNext
    <3>1. CASE Next
      BY <3>1, DeskSteps DEF EdgeInv
    <3>2. CASE UNCHANGED vars
      BY <3>2 DEF vars, DeskNext
    <3> QED
      BY <3>1, <3>2
  <2> QED
    BY <2>1, FollowDesk DEF DeskInv, AdmissionInv
<1>3. DeskInv /\ FollowInv => UnprintedIsSafe
  BY FollowingIsSafe DEF DeskInv
<1> QED
  BY DeskInvariant, <1>1, <1>2, <1>3, PTL DEF Spec
=============================================================================
