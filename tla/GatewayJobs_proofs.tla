------------------------ MODULE GatewayJobs_proofs ------------------------
(***************************************************************************)
(* Proofs about GatewayJobs, for any number of jobs, printers, handlers    *)
(* and pushers and any budgets.                                            *)
(*                                                                         *)
(* The inductive invariant GatewayInv adds to the checked invariants what  *)
(* makes them inductive: a claimed row has retries left to hand back       *)
(* (RowInv), a status handler between its read and its write holds a       *)
(* transition the state machine allows (PatchInv), and a row a poll has    *)
(* chosen can still be paid for, whatever it became since (PollInv).       *)
(***************************************************************************)
EXTENDS GatewayJobs, FiniteSetTheorems, TLAPS

(* What every row satisfies, given how many tokens its job was given.      *)
RowInv(r, n) ==
  /\ r.status = "queued" => r.token = 0 /\ r.evidence = "none"
  /\ r.token \in {0, n}
  /\ r.status \in {"claimed", "printing"} => r.token # 0
  /\ r.status = "claimed" => r.retries <= MaxRetries
  /\ r.attempts <= MaxDelivery
  /\ r.retries <= MaxRetries + 1
  /\ n <= r.attempts + r.retries

RowsInv == \A j \in Jobs : RowInv(row[j], issued[j])

PatchInv ==
  \A h \in Handlers : patch[h] # Idle =>
    /\ patch[h].to # "claimed"
    /\ patch[h].to \in {"queued", "printing"} => patch[h].expect = "claimed"

PushInv == \A p \in Pushers : push[p] # Idle => push[p].token \in 1 .. issued[push[p].job]

(* Only claims spend delivery attempts, and none happens while a poll      *)
(* holds the advisory lock; what a retry can be charged for meanwhile, a   *)
(* requeue, takes the row out of claimed.                                  *)
PolledRow(r) ==
  /\ r.attempts < MaxDelivery
  /\ r.retries <= MaxRetries
  /\ r.status = "claimed" => r.retries < MaxRetries

PollInv == \A j \in poll : PolledRow(row[j])

TablesInv == GatewayTypeOK /\ RowsInv /\ PatchInv /\ PushInv

GatewayInv == TablesInv /\ PollInv

-----------------------------------------------------------------------------
(* The invariants checked by TLC follow from the inductive one. *)
LEMMA InvImplies ==
  GatewayInv => GatewayTypeOK /\ QueuedIsClean /\ OneLiveAttempt /\ ClaimBudget
BY DEF GatewayInv, TablesInv, RowsInv, RowInv, PushInv, QueuedIsClean, OneLiveAttempt, ClaimBudget

(* A table of new rows satisfies it. *)
LEMMA InitInv == GatewayInit => GatewayInv
<1> SUFFICES ASSUME GatewayInit PROVE GatewayInv
  OBVIOUS
<1> USE DEF GatewayInit
<1>1. NewRow \in Row
  BY DEF NewRow, Row, Statuses, Errors, Ages, Ttls
<1>2. GatewayTypeOK
  BY <1>1 DEF GatewayTypeOK
<1>3. RowsInv
  BY BudgetAssumption DEF RowsInv, RowInv, NewRow
<1>4. PatchInv /\ PushInv /\ PollInv
  BY DEF PatchInv, PushInv, PollInv
<1> QED
  BY <1>2, <1>3, <1>4 DEF GatewayInv, TablesInv

-----------------------------------------------------------------------------
(* Tokens are only ever added, so a delivery in hand keeps a valid one. *)
LEMMA PushKept ==
  ASSUME GatewayInv,
         issued' \in [Jobs -> Nat],
         \A j \in Jobs : issued[j] <= issued'[j],
         NEW p \in Pushers, push[p] # Idle
  PROVE  push[p] \in Delivery /\ push[p].token \in 1 .. issued'[push[p].job]
<1> USE DEF GatewayInv, TablesInv, GatewayTypeOK
<1>1. push[p] \in Delivery
  OBVIOUS
<1>2. push[p].job \in Jobs /\ push[p].token \in 1 .. issued[push[p].job]
  BY <1>1 DEF PushInv, Delivery
<1>3. /\ issued[push[p].job] \in Nat /\ issued'[push[p].job] \in Nat
      /\ issued[push[p].job] <= issued'[push[p].job]
  BY <1>2
<1> QED
  BY <1>1, <1>2, <1>3

(* A WebSocket claim names a fresh token and spends one delivery attempt. *)
LEMMA WsClaimInv ==
  ASSUME GatewayInv, NEW p \in Pushers, NEW j \in Jobs, WsClaim(p, j)
  PROVE  TablesInv'
<1> USE DEF GatewayInv, TablesInv, GatewayTypeOK, WsClaim
<1> DEFINE r == [row[j] EXCEPT !.status = "claimed", !.token = issued[j] + 1,
                               !.evidence = "none", !.attempts = @ + 1, !.age = 0]
<1>1. row[j] \in Row /\ issued[j] \in Nat /\ RowInv(row[j], issued[j])
  BY DEF RowsInv
<1>2. WithinBudget(row[j])
  BY DEF QueuedCandidate
<1>3. r \in Row
  BY <1>1 DEF Row, Statuses, Ages
<1>4. RowInv(r, issued[j] + 1)
  BY <1>1, <1>2, BudgetAssumption DEF RowInv, Row, WithinBudget
<1>5. row' = [row EXCEPT ![j] = r]
  OBVIOUS
<1>6. /\ row' \in [Jobs -> Row] /\ issued' \in [Jobs -> Nat]
      /\ \A k \in Jobs : issued[k] <= issued'[k]
  BY <1>1, <1>3, <1>5
<1>7. RowsInv'
  BY <1>1, <1>4, <1>5 DEF RowsInv, RowInv
<1>8. [job |-> j, token |-> issued[j] + 1, step |-> "claimed"] \in Delivery
  BY <1>1 DEF Delivery
<1>9. GatewayTypeOK'
  BY <1>6, <1>8
<1>10. PushInv'
  <2> SUFFICES ASSUME NEW q \in Pushers, push'[q] # Idle
               PROVE  push'[q].token \in 1 .. issued'[push'[q].job]
    BY DEF PushInv
  <2>1. CASE q = p
    <3>1. push'[q].job = j /\ push'[q].token = issued[j] + 1
      BY <2>1
    <3>2. issued'[j] = issued[j] + 1
      OBVIOUS
    <3> QED
      BY <1>1, <3>1, <3>2
  <2>2. CASE q # p
    BY <1>6, <2>2, PushKept
  <2> QED
    BY <2>1, <2>2
<1>11. PatchInv'
  BY DEF PatchInv
<1> QED
  BY <1>7, <1>9, <1>10, <1>11

(* A polled row, queued or taken over, stays within both budgets. *)
LEMMA PollClaimedRow ==
  ASSUME NEW r \in Row, NEW n \in Nat, RowInv(r, n),
         PolledRow(r)
  PROVE  PollClaimed(r, n + 1) \in Row /\ RowInv(PollClaimed(r, n + 1), n + 1)
<1> DEFINE c == PollClaimed(r, n + 1)
<1>1. /\ "claimed" \in Statuses /\ 0 \in Ages
      /\ n + 1 \in Nat /\ r.attempts + 1 \in Nat /\ r.retries + 1 \in Nat
      /\ (IF r.evidence = "none" THEN "none" ELSE "delivered") \in {"none", "delivered", "acked"}
  BY DEF Statuses, Ages, Row
<1>2. PICK e \in {"none", "delivered", "acked"}, m \in {r.retries, r.retries + 1} :
        /\ c = [r EXCEPT !.status = "claimed", !.token = n + 1, !.attempts = @ + 1, !.age = 0,
                         !.evidence = e, !.retries = m]
        /\ m = IF r.status = "claimed" THEN r.retries + 1 ELSE r.retries
  BY <1>1 DEF PollClaimed
<1>3. m \in Nat
  BY <1>1 DEF Row
<1>4. c \in Row
  BY <1>1, <1>2, <1>3 DEF Row
<1>5. /\ c.status = "claimed" /\ c.token = n + 1 /\ c.attempts = r.attempts + 1
      /\ c.retries = m
  BY <1>2 DEF Row
<1>6. RowInv(c, n + 1)
  BY <1>2, <1>3, <1>5, BudgetAssumption DEF RowInv, Row, PolledRow
<1> QED
  BY <1>4, <1>6

(* What a poll chooses can be paid for. *)
LEMMA PollSnapshotInv ==
  ASSUME GatewayInv, NEW S \in SUBSET Jobs, PollSnapshot(S)
  PROVE  GatewayInv'
<1> USE DEF GatewayInv, TablesInv, GatewayTypeOK
<1>1. UNCHANGED <<row, issued, patch, push, agent, printer>> /\ poll' = S
  BY DEF PollSnapshot
<1>2. TablesInv'
  BY <1>1 DEF RowsInv, RowInv, PatchInv, PushInv
<1>3. \A j \in S : row[j] \in Row /\ row[j].attempts < MaxDelivery /\ row[j].retries < MaxRetries
  BY DEF PollSnapshot, StaleCandidate, QueuedCandidate, WithinBudget
<1>4. \A j \in S : PolledRow(row[j])
  BY <1>3, BudgetAssumption DEF PolledRow, Row
<1>5. PollInv'
  BY <1>1, <1>4 DEF PollInv, PolledRow
<1> QED
  BY <1>2, <1>5

(* A poll claims each row of its batch as PollClaimedRow says. *)
LEMMA PollClaimInv ==
  ASSUME GatewayInv, NEW S \in SUBSET Jobs, PollClaim(S)
  PROVE  TablesInv'
<1> USE DEF GatewayInv, TablesInv, GatewayTypeOK
<1>1. /\ row' = [j \in Jobs |-> IF j \in S THEN PollClaimed(row[j], issued[j] + 1) ELSE row[j]]
      /\ issued' = [j \in Jobs |-> IF j \in S THEN issued[j] + 1 ELSE issued[j]]
      /\ poll' = {}
      /\ UNCHANGED <<patch, push, agent, printer>>
      /\ \A j \in S : PolledRow(row[j])
  BY DEF PollClaim, PollInv
<1>2. ASSUME NEW j \in Jobs
      PROVE  /\ row'[j] \in Row /\ issued'[j] \in Nat /\ issued[j] <= issued'[j]
             /\ RowInv(row'[j], issued'[j])
  <2>1. row[j] \in Row /\ issued[j] \in Nat /\ RowInv(row[j], issued[j])
    BY DEF RowsInv
  <2>2. CASE j \notin S
    BY <1>1, <2>1, <2>2
  <2>3. CASE j \in S
    BY <1>1, <2>1, <2>3, PollClaimedRow
  <2> QED
    BY <2>2, <2>3
<1>3. row' \in [Jobs -> Row] /\ issued' \in [Jobs -> Nat]
  BY <1>1, <1>2
<1>4. RowsInv'
  BY <1>2 DEF RowsInv, RowInv
<1>5. PushInv'
  BY <1>1, <1>2, <1>3, PushKept DEF PushInv
<1>6. PatchInv'
  BY <1>1 DEF PatchInv
<1> QED
  BY <1>1, <1>3, <1>4, <1>5, <1>6

-----------------------------------------------------------------------------
(* Most steps hand out no token and change each row in a way RowInv allows. *)
LEMMA RowsStep ==
  ASSUME GatewayInv, UNCHANGED issued,
         row' = [j \in Jobs |-> row'[j]],
         \A j \in Jobs : row'[j] \in Row /\ RowInv(row'[j], issued[j])
  PROVE  row' \in [Jobs -> Row] /\ RowsInv'
BY DEF RowsInv, RowInv

(* The same for a step that changes a single row. *)
LEMMA OneRowStep ==
  ASSUME GatewayInv, UNCHANGED issued, NEW j \in Jobs, NEW r \in Row,
         RowInv(r, issued[j]), row' = [row EXCEPT ![j] = r]
  PROVE  row' \in [Jobs -> Row] /\ RowsInv'
<1>1. \A k \in Jobs : row[k] \in Row /\ RowInv(row[k], issued[k])
  BY DEF GatewayInv, TablesInv, GatewayTypeOK, RowsInv
<1>2. row' = [k \in Jobs |-> row'[k]]
  BY DEF GatewayInv, TablesInv, GatewayTypeOK
<1>3. \A k \in Jobs : row'[k] \in Row /\ RowInv(row'[k], issued[k])
  BY <1>1 DEF GatewayInv, TablesInv, GatewayTypeOK
<1> QED
  BY <1>2, <1>3, RowsStep

(* What a step leaves alone stays as it was. *)
LEMMA UnchangedInv ==
  ASSUME GatewayInv
  PROVE  /\ UNCHANGED <<row, issued>> => RowsInv'
         /\ UNCHANGED patch => PatchInv'
         /\ UNCHANGED <<issued, push>> => PushInv'
BY DEF GatewayInv, TablesInv, RowsInv, RowInv, PatchInv, PushInv

(* Whether the envelope was written or not, no row changes. *)
LEMMA SendInv ==
  ASSUME GatewayInv, NEW p \in Pushers, PushSend(p) \/ PushFails(p)
  PROVE  TablesInv'
<1> USE DEF GatewayInv, TablesInv, GatewayTypeOK, PushSend, PushFails
<1>1. push[p] \in Delivery /\ push[p].token \in 1 .. issued[push[p].job]
  BY DEF PushInv
<1>2. \A s \in {"sent", "release"} : [push[p] EXCEPT !.step = s] \in Delivery
  BY <1>1 DEF Delivery
<1>3. PICK s \in {"sent", "release"} : push' = [push EXCEPT ![p] = [push[p] EXCEPT !.step = s]]
  OBVIOUS
<1>4. GatewayTypeOK'
  BY <1>2, <1>3
<1>5. PushInv'
  BY <1>1, <1>3 DEF PushInv, Delivery
<1> QED
  BY <1>4, <1>5, UnchangedInv

(* Evidence lands on a live claim, which is no queued row. *)
LEMMA MarkDeliveredInv ==
  ASSUME GatewayInv, NEW p \in Pushers, MarkDelivered(p)
  PROVE  TablesInv'
<1> USE DEF GatewayInv, TablesInv, GatewayTypeOK, MarkDelivered
<1>1. push[p] \in Delivery /\ push[p].token \in 1 .. issued[push[p].job] /\ push[p].job \in Jobs
  BY DEF PushInv, Delivery
<1>2. CASE LiveClaim(push[p].job, push[p].token)
  <2> DEFINE j == push[p].job
             r == [row[j] EXCEPT !.evidence = Stamped(@), !.age = 0]
  <2>1. row[j] \in Row /\ RowInv(row[j], issued[j])
    BY <1>1 DEF RowsInv
  <2>0. Stamped(row[j].evidence) \in {"none", "delivered", "acked"} /\ 0 \in Ages
    BY <2>1 DEF Stamped, Row, Ages
  <2>2. r \in Row
    BY <2>1, <2>0 DEF Row
  <2>3. RowInv(r, issued[j])
    BY <1>2, <2>1 DEF RowInv, Row, LiveClaim
  <2>4. row' = [row EXCEPT ![j] = r] /\ push' = [push EXCEPT ![p] = Idle]
    BY <1>2
  <2>5. row' \in [Jobs -> Row] /\ RowsInv'
    BY <1>1, <2>2, <2>3, <2>4, OneRowStep
  <2>6. PushInv'
    BY <2>4 DEF PushInv
  <2> QED
    BY <2>4, <2>5, <2>6, UnchangedInv
<1>3. CASE ~LiveClaim(push[p].job, push[p].token)
  <2>1. push' = [push EXCEPT ![p] = [push[p] EXCEPT !.step = "release"]] /\ UNCHANGED row
    BY <1>3
  <2>2. [push[p] EXCEPT !.step = "release"] \in Delivery
    BY <1>1 DEF Delivery
  <2>3. PushInv'
    BY <1>1, <2>1 DEF PushInv, Delivery
  <2> QED
    BY <2>1, <2>2, <2>3, UnchangedInv
<1> QED
  BY <1>2, <1>3

(* A release clears the token and finds no evidence to clear. *)
LEMMA ReleaseInv ==
  ASSUME GatewayInv, NEW p \in Pushers, ReleaseUndelivered(p)
  PROVE  TablesInv'
<1> USE DEF GatewayInv, TablesInv, GatewayTypeOK, ReleaseUndelivered
<1> DEFINE j == push[p].job
           queued == [row[j] EXCEPT !.status = "queued", !.token = 0, !.error = "plain",
                                    !.age = 0]
           failed == [row[j] EXCEPT !.status = "failed", !.error = "plain", !.age = 0]
<1>1. push[p] \in Delivery /\ j \in Jobs
  BY DEF Delivery
<1>2. row[j] \in Row /\ RowInv(row[j], issued[j])
  BY <1>1 DEF RowsInv
<1>3. queued \in Row /\ failed \in Row
  <2>1. "plain" \in Errors /\ 0 \in Ages /\ {"queued", "failed"} \subseteq Statuses
    BY DEF Errors, Ages, Statuses
  <2> QED
    BY <1>2, <2>1 DEF Row
<1>4. row[j].status = "claimed" /\ row[j].evidence = "none"
        => RowInv(queued, issued[j]) /\ RowInv(failed, issued[j])
  BY <1>2 DEF RowInv, Row
<1>5. \/ UNCHANGED row
      \/ /\ row' = [row EXCEPT ![j] = queued] \/ row' = [row EXCEPT ![j] = failed]
         /\ row[j].status = "claimed" /\ row[j].evidence = "none"
  OBVIOUS
<1>6. row' \in [Jobs -> Row] /\ RowsInv'
  BY <1>1, <1>3, <1>4, <1>5, OneRowStep, UnchangedInv
<1>7. PushInv' /\ push' \in [Pushers -> Delivery \cup {Idle}]
  BY DEF PushInv
<1> QED
  BY <1>6, <1>7, UnchangedInv

(* Acks and keep-alives touch live claims only. *)
LEMMA EvidenceInv ==
  ASSUME GatewayInv, NEW j \in Jobs, NEW t \in 1 .. issued[j],
         RecordAck(j, t) \/ KeepAlive(j, t)
  PROVE  TablesInv'
<1> USE DEF GatewayInv, TablesInv, GatewayTypeOK, RecordAck, KeepAlive
<1>1. row[j] \in Row /\ RowInv(row[j], issued[j])
  BY DEF RowsInv
<1>2. PICK r \in {[row[j] EXCEPT !.evidence = "acked", !.age = 0], [row[j] EXCEPT !.age = 0]} :
        row' = [row EXCEPT ![j] = r]
  OBVIOUS
<1>3. r \in Row
  <2>1. 0 \in Ages
    BY DEF Ages
  <2> QED
    BY <1>1, <2>1 DEF Row
<1>4. RowInv(r, issued[j])
  BY <1>1 DEF RowInv, Row, LiveClaim
<1>5. row' \in [Jobs -> Row] /\ RowsInv'
  BY <1>2, <1>3, <1>4, OneRowStep
<1> QED
  BY <1>5, UnchangedInv
-----------------------------------------------------------------------------
(* Ending a row, with whatever error, disturbs nothing: the conjuncts of    *)
(* RowInv that read the status speak of queued and live rows only.          *)
LEMMA EndedRow ==
  ASSUME NEW r \in Row, NEW n \in Nat, RowInv(r, n),
         NEW s \in {"failed", "expired"}, NEW e \in Errors
  PROVE  /\ [r EXCEPT !.status = s, !.error = e, !.age = 0] \in Row
         /\ RowInv([r EXCEPT !.status = s, !.error = e, !.age = 0], n)
<1> DEFINE q == [r EXCEPT !.status = s, !.error = e, !.age = 0]
<1>1. s \in Statuses /\ 0 \in Ages
  BY DEF Statuses, Ages
<1>2. q \in Row
  BY <1>1 DEF Row
<1>3. RowInv(q, n)
  BY DEF RowInv, Row
<1> QED
  BY <1>2, <1>3

(* Four of the sweep's statements only end the rows they select. *)
LEMMA SweepEndsInv ==
  ASSUME GatewayInv, SweepExpire \/ SweepSilent \/ SweepPrinting \/ SweepExhausted
  PROVE  TablesInv'
<1> USE DEF GatewayInv, TablesInv, GatewayTypeOK
<1>1. UNCHANGED <<issued, patch, push, poll, agent, printer>> /\ row' = [j \in Jobs |-> row'[j]]
  BY DEF SweepExpire, SweepSilent, SweepPrinting, SweepExhausted
<1>2. ASSUME NEW j \in Jobs
      PROVE  \/ row'[j] = row[j]
             \/ \E s \in {"failed", "expired"}, e \in Errors :
                  row'[j] = [row[j] EXCEPT !.status = s, !.error = e, !.age = 0]
  <2>1. CASE SweepExpire
    BY <2>1 DEF SweepExpire, Errors, UnknownMarkers
  <2>2. CASE SweepSilent
    BY <2>2 DEF SweepSilent, Errors, UnknownMarkers
  <2>3. CASE SweepPrinting
    BY <2>3 DEF SweepPrinting, Errors, UnknownMarkers
  <2>4. CASE SweepExhausted
    BY <2>4 DEF SweepExhausted, Errors
  <2> QED
    BY <2>1, <2>2, <2>3, <2>4
<1>3. ASSUME NEW j \in Jobs
      PROVE  row'[j] \in Row /\ RowInv(row'[j], issued[j])
  <2>1. row[j] \in Row /\ issued[j] \in Nat /\ RowInv(row[j], issued[j])
    BY DEF RowsInv
  <2>2. CASE row'[j] = row[j]
    BY <2>1, <2>2
  <2>3. ASSUME NEW s \in {"failed", "expired"}, NEW e \in Errors,
               row'[j] = [row[j] EXCEPT !.status = s, !.error = e, !.age = 0]
        PROVE  row'[j] \in Row /\ RowInv(row'[j], issued[j])
    <3> DEFINE q == [row[j] EXCEPT !.status = s, !.error = e, !.age = 0]
    <3>1. q \in Row /\ RowInv(q, issued[j])
      BY <2>1, EndedRow
    <3>2. row'[j] = q
      BY <2>3
    <3> HIDE DEF q
    <3> QED
      BY <3>1, <3>2
  <2> QED
    BY <1>2, <2>2, <2>3
<1>4. row' \in [Jobs -> Row] /\ RowsInv'
  BY <1>1, <1>3, RowsStep
<1> QED
  BY <1>1, <1>4, UnchangedInv

(* The fifth gives a claim without evidence back to the queue, one retry up. *)
LEMMA SweepRequeueInv ==
  ASSUME GatewayInv, SweepRequeue
  PROVE  TablesInv'
<1> USE DEF GatewayInv, TablesInv, GatewayTypeOK
<1>1. UNCHANGED <<issued, patch, push, poll, agent, printer>> /\ row' = [j \in Jobs |-> row'[j]]
  BY DEF SweepRequeue
<1>2. ASSUME NEW j \in Jobs
      PROVE  row'[j] \in Row /\ RowInv(row'[j], issued[j])
  <2>1. row[j] \in Row /\ RowInv(row[j], issued[j])
    BY DEF RowsInv
  <2>2. \/ row'[j] = row[j]
        \/ /\ row[j].evidence = "none" /\ row[j].retries < MaxRetries
           /\ row'[j] = [row[j] EXCEPT !.status = "queued", !.token = 0,
                                       !.retries = @ + 1, !.age = 0]
    BY DEF SweepRequeue
  <2>3. ASSUME row[j].evidence = "none", row[j].retries < MaxRetries,
               row'[j] = [row[j] EXCEPT !.status = "queued", !.token = 0,
                                        !.retries = @ + 1, !.age = 0]
        PROVE  row'[j] \in Row /\ RowInv(row'[j], issued[j])
    <3>1. "queued" \in Statuses /\ 0 \in Ages /\ row[j].retries + 1 \in Nat
      BY <2>1 DEF Statuses, Ages, Row
    <3>2. [row[j] EXCEPT !.status = "queued", !.token = 0, !.retries = @ + 1, !.age = 0] \in Row
      BY <2>1, <3>1 DEF Row
    <3>3. RowInv(row'[j], issued[j])
      BY <2>1, <2>3, BudgetAssumption DEF RowInv, Row
    <3> QED
      BY <2>3, <3>2, <3>3
  <2> QED
    BY <2>1, <2>2, <2>3
<1>3. row' \in [Jobs -> Row] /\ RowsInv'
  BY <1>1, <1>2, RowsStep
<1> QED
  BY <1>1, <1>3, UnchangedInv

-----------------------------------------------------------------------------
(* The status handler: the read remembers an allowed transition, the write  *)
(* applies it to a row still in the state it read.                          *)
LEMMA PatchReadInv ==
  ASSUME GatewayInv,
         NEW h \in Handlers, NEW j \in Jobs, NEW want \in Statuses, NEW t \in Nat,
         NEW error \in Errors,
         PatchRead(h, j, want, t, error)
  PROVE  TablesInv'
<1> USE DEF GatewayInv, TablesInv, GatewayTypeOK, PatchRead
<1> DEFINE w == [job |-> j, expect |-> row[j].status, to |-> want, token |-> t,
                 error |-> PatchError(row[j], want, error)]
<1>1. row[j].status \in Statuses
  BY DEF Row
<1>2. PatchError(row[j], want, error) \in Errors
  BY DEF PatchError, Errors, UnknownMarkers
<1>3. w \in FencedWrite
  BY <1>1, <1>2 DEF FencedWrite
<1>4. patch' = [patch EXCEPT ![h] = w]
  OBVIOUS
<1>5. want # "claimed" /\ (want \in {"queued", "printing"} => row[j].status = "claimed")
  BY <1>1 DEF PatchAdmits, CanTransition, AllowedTransitions, TerminalStatuses, Statuses
<1>6. PatchInv'
  BY <1>4, <1>5 DEF PatchInv
<1> QED
  BY <1>3, <1>4, <1>6, UnchangedInv

(* A hand-back turns the refunded delivery attempt into a retry. *)
LEMMA HandbackRow ==
  ASSUME NEW r \in Row, NEW n \in Nat, NEW w \in FencedWrite,
         RowInv(r, n), r.status = "claimed"
  PROVE  Handback(r, w) \in Row /\ RowInv(Handback(r, w), n)
<1>1. /\ "queued" \in Statuses /\ 0 \in Ages /\ w.error \in Errors
      /\ r.retries + 1 \in Nat /\ r.attempts \in Nat
      /\ r.attempts > 0 => r.attempts - 1 \in Nat
  BY DEF Statuses, Ages, FencedWrite, Row
<1>2. CASE r.attempts > 0
  <2> DEFINE q == [r EXCEPT !.status = "queued", !.token = 0, !.evidence = "none",
                            !.error = w.error, !.attempts = @ - 1, !.retries = @ + 1, !.age = 0]
  <2>1. Handback(r, w) = q
    BY <1>2 DEF Handback
  <2>2. q \in Row
    BY <1>1, <1>2 DEF Row
  <2>3. RowInv(q, n)
    BY <1>1, <1>2, BudgetAssumption DEF RowInv, Row
  <2> QED
    BY <2>1, <2>2, <2>3
<1>3. CASE ~(r.attempts > 0)
  <2> DEFINE q == [r EXCEPT !.status = "queued", !.token = 0, !.evidence = "none",
                            !.error = w.error, !.attempts = 0, !.retries = @ + 1, !.age = 0]
  <2>1. Handback(r, w) = q
    BY <1>3 DEF Handback
  <2>2. q \in Row
    BY <1>1 DEF Row
  <2>3. RowInv(q, n)
    BY <1>1, <1>3, BudgetAssumption DEF RowInv, Row
  <2> QED
    BY <2>1, <2>2, <2>3
<1> QED
  BY <1>2, <1>3

(* Any other report keeps the token, so the row stays live or ends. *)
LEMMA ReportedRow ==
  ASSUME NEW r \in Row, NEW n \in Nat, NEW w \in FencedWrite,
         RowInv(r, n), r.status = w.expect,
         w.to \notin {"queued", "claimed"},
         w.to = "printing" => w.expect = "claimed"
  PROVE  Reported(r, w) \in Row /\ RowInv(Reported(r, w), n)
<1>1. /\ w.to \in Statuses /\ w.error \in Errors /\ 0 \in Ages
      /\ Stamped(r.evidence) \in {"none", "delivered", "acked"}
  BY DEF Ages, FencedWrite, Row, Stamped
<1>2. PICK e \in {"none", "delivered", "acked"} :
        Reported(r, w) = [r EXCEPT !.status = w.to, !.error = w.error, !.age = 0,
                                   !.evidence = e]
  <2>1. CASE w.to = "expired" /\ w.expect \notin {"claimed", "printing"}
    BY <2>1 DEF Reported, Row
  <2>2. CASE ~(w.to = "expired" /\ w.expect \notin {"claimed", "printing"})
    BY <1>1, <2>2 DEF Reported
  <2> QED
    BY <2>1, <2>2
<1> DEFINE q == [r EXCEPT !.status = w.to, !.error = w.error, !.age = 0, !.evidence = e]
<1>3. q \in Row
  BY <1>1 DEF Row
<1>4. RowInv(q, n)
  BY <1>1 DEF RowInv, Row
<1> QED
  BY <1>2, <1>3, <1>4

(* The fenced UPDATE writes one of these two rows, or nothing. *)
LEMMA PatchWriteInv ==
  ASSUME GatewayInv, NEW h \in Handlers, PatchWrite(h)
  PROVE  TablesInv'
<1> USE DEF GatewayInv, TablesInv, GatewayTypeOK
<1> DEFINE w == patch[h]
<1>1. /\ w # Idle
      /\ \/ UNCHANGED row
         \/ /\ FenceHolds(w)
            /\ row' = [row EXCEPT ![w.job] = IF w.to = "queued" THEN Handback(@, w)
                                             ELSE Reported(@, w)]
      /\ patch' = [patch EXCEPT ![h] = Idle]
      /\ UNCHANGED <<issued, push, poll, agent, printer>>
  BY DEF PatchWrite
<1>2. w \in FencedWrite /\ w.job \in Jobs
  BY <1>1 DEF FencedWrite
<1>3. /\ w.to # "claimed"
      /\ w.to \in {"queued", "printing"} => w.expect = "claimed"
  BY <1>1 DEF PatchInv
<1>4. row[w.job] \in Row /\ issued[w.job] \in Nat /\ RowInv(row[w.job], issued[w.job])
  BY <1>2 DEF RowsInv
<1>5. FenceHolds(w) => row[w.job].status = w.expect
  BY DEF FenceHolds
<1>6. row' \in [Jobs -> Row] /\ RowsInv'
  <2>1. CASE UNCHANGED row
    BY <1>1, <2>1, UnchangedInv
  <2>2. CASE FenceHolds(w) /\ w.to = "queued" /\ ~UNCHANGED row
    <3>1. row' = [row EXCEPT ![w.job] = Handback(row[w.job], w)]
      BY <1>1, <2>2
    <3>2. /\ Handback(row[w.job], w) \in Row
          /\ RowInv(Handback(row[w.job], w), issued[w.job])
      BY <1>2, <1>3, <1>4, <1>5, <2>2, HandbackRow
    <3> QED
      BY <1>1, <1>2, <3>1, <3>2, OneRowStep
  <2>3. CASE FenceHolds(w) /\ w.to # "queued" /\ ~UNCHANGED row
    <3>1. row' = [row EXCEPT ![w.job] = Reported(row[w.job], w)]
      BY <1>1, <2>3
    <3>2. /\ Reported(row[w.job], w) \in Row
          /\ RowInv(Reported(row[w.job], w), issued[w.job])
      BY <1>2, <1>3, <1>4, <1>5, <2>3, ReportedRow
    <3> QED
      BY <1>1, <1>2, <3>1, <3>2, OneRowStep
  <2> QED
    BY <1>1, <2>1, <2>2, <2>3
<1>7. PatchInv' /\ patch' \in [Handlers -> FencedWrite \cup {Idle}]
  BY <1>1 DEF PatchInv
<1> QED
  BY <1>1, <1>6, <1>7, UnchangedInv
-----------------------------------------------------------------------------
(* Time, presence and a Gateway crash disturb no invariant: ages and TTLs   *)
(* are in no conjunct of RowInv, and a crash only forgets.                  *)
LEMMA SurroundingsInv ==
  ASSUME GatewayInv, Surroundings
  PROVE  TablesInv'
<1> USE DEF GatewayInv, TablesInv, GatewayTypeOK
<1>1. ASSUME NEW j \in Jobs, TimePasses(j) \/ TtlPasses(j)
      PROVE  TablesInv'
  <2>1. row[j] \in Row /\ RowInv(row[j], issued[j])
    BY DEF RowsInv
  <2>2. /\ \/ row' = [row EXCEPT ![j] = [row[j] EXCEPT !.age = @ + 1]] /\ row[j].age < 3
           \/ \E l \in Ttls : row' = [row EXCEPT ![j] = [row[j] EXCEPT !.ttl = l]]
        /\ UNCHANGED <<issued, patch, push, poll, agent, printer>>
    BY <1>1 DEF TimePasses, TtlPasses, Ttls
  <2>3. CASE row' = [row EXCEPT ![j] = [row[j] EXCEPT !.age = @ + 1]] /\ row[j].age < 3
    <3> DEFINE r == [row[j] EXCEPT !.age = @ + 1]
    <3>1. row[j].age + 1 \in Ages
      BY <2>1, <2>3 DEF Row, Ages
    <3>2. r \in Row /\ RowInv(r, issued[j])
      BY <2>1, <3>1 DEF Row, RowInv
    <3> QED
      BY <2>2, <2>3, <3>2, OneRowStep, UnchangedInv
  <2>4. ASSUME NEW l \in Ttls, row' = [row EXCEPT ![j] = [row[j] EXCEPT !.ttl = l]]
        PROVE  TablesInv'
    <3> DEFINE r == [row[j] EXCEPT !.ttl = l]
    <3>1. r \in Row /\ RowInv(r, issued[j])
      BY <2>1 DEF Row, RowInv
    <3> QED
      BY <2>2, <2>4, <3>1, OneRowStep, UnchangedInv
  <2> QED
    BY <2>2, <2>3, <2>4
<1>2. ASSUME NEW s \in {"online", "offline", "disabled"}, AgentPresence(s)
      PROVE  TablesInv'
  BY <1>2, UnchangedInv DEF AgentPresence
<1>3. ASSUME NEW p \in Printers, PrinterPresence(p)
      PROVE  TablesInv'
  BY <1>3, UnchangedInv DEF PrinterPresence
<1>4. ASSUME GatewayRestart
      PROVE  TablesInv'
  BY <1>4, UnchangedInv DEF GatewayRestart, PatchInv, PushInv
<1> QED
  BY <1>1, <1>2, <1>3, <1>4 DEF Surroundings

-----------------------------------------------------------------------------
(* Every step of the Gateway keeps the tables in order. *)
LEMMA NextTables ==
  ASSUME GatewayInv, [GatewayNext]_gatewayVars
  PROVE  TablesInv'
<1>1. CASE Delivering
  BY <1>1, WsClaimInv, SendInv, MarkDeliveredInv, ReleaseInv DEF Delivering
<1>2. ASSUME NEW S \in SUBSET Jobs, PollSnapshot(S) \/ PollClaim(S)
      PROVE  TablesInv'
  BY <1>2, PollSnapshotInv, PollClaimInv DEF GatewayInv
<1>3. ASSUME NEW j \in Jobs, NEW t \in 1 .. issued[j], RecordAck(j, t) \/ KeepAlive(j, t)
      PROVE  TablesInv'
  BY <1>3, EvidenceInv
<1>4. CASE AnyReport
  <2>1. PICK h \in Handlers, j \in Jobs, want \in Statuses, error \in AgentErrors :
          \E t \in 0 .. issued[j] : PatchRead(h, j, want, t, error)
    BY <1>4 DEF AnyReport
  <2>2. PICK t \in 0 .. issued[j] : PatchRead(h, j, want, t, error)
    BY <2>1
  <2>3. issued[j] \in Nat
    BY DEF GatewayInv, TablesInv, GatewayTypeOK
  <2>4. t \in Nat /\ error \in Errors
    BY <2>3 DEF AgentErrors, Errors, UnknownMarkers
  <2> QED
    BY <2>2, <2>4, PatchReadInv
<1>5. ASSUME NEW h \in Handlers, PatchWrite(h)
      PROVE  TablesInv'
  BY <1>5, PatchWriteInv
<1>6. CASE Sweep
  BY <1>6, SweepEndsInv, SweepRequeueInv DEF Sweep
<1>7. CASE Surroundings
  BY <1>7, SurroundingsInv
<1>8. CASE UNCHANGED gatewayVars
  BY <1>8 DEF gatewayVars, GatewayInv, TablesInv, GatewayTypeOK, RowsInv, RowInv, PatchInv, PushInv
<1> QED
  BY <1>1, <1>2, <1>3, <1>4, <1>5, <1>6, <1>7, <1>8 DEF GatewayNext

(* While a poll has chosen a row, no step makes it dearer than PolledRow    *)
(* says, and only PollSnapshot chooses one.                                 *)
LEMMA PolledKept ==
  ASSUME GatewayInv, [GatewayNext]_gatewayVars,
         ~\E S \in SUBSET Jobs : PollSnapshot(S),
         NEW j \in poll'
  PROVE  j \in poll /\ PolledRow(row'[j])
<1> USE DEF GatewayInv, TablesInv, GatewayTypeOK
<1>0. j \in poll /\ poll # {} /\ poll' = poll
  BY DEF GatewayNext, gatewayVars, Delivering, WsClaim, PushSend, PushFails, MarkDelivered,
     ReleaseUndelivered, PollClaim, RecordAck, KeepAlive, AnyReport, PatchRead, PatchWrite,
     Sweep, SweepExpire, SweepRequeue, SweepSilent, SweepPrinting, SweepExhausted,
     Surroundings, TimePasses, TtlPasses, AgentPresence, PrinterPresence, GatewayRestart
<1>1. row[j] \in Row /\ PolledRow(row[j]) /\ j \in Jobs
  BY <1>0 DEF PollInv
<1>2. CASE row' = row
  BY <1>0, <1>1, <1>2 DEF PolledRow
<1>3. CASE Delivering
  <2>1. PICK p \in Pushers : MarkDelivered(p) \/ ReleaseUndelivered(p) \/ row' = row
    BY <1>0, <1>3 DEF Delivering, WsClaim, PushSend, PushFails
  <2>2. CASE MarkDelivered(p)
    BY <1>0, <1>1, <1>2, <2>2 DEF MarkDelivered, Row, PolledRow
  <2>3. CASE ReleaseUndelivered(p)
    <3>1. CASE push[p].job = j
      BY <1>0, <1>1, <1>2, <2>3, <3>1 DEF ReleaseUndelivered, Row, PolledRow
    <3>2. CASE push[p].job # j
      BY <1>0, <1>1, <1>2, <2>3, <3>2 DEF ReleaseUndelivered, Row, PolledRow
    <3> QED
      BY <3>1, <3>2
  <2> QED
    BY <1>2, <2>1, <2>2, <2>3
<1>4. ASSUME NEW k \in Jobs, NEW t \in 1 .. issued[k], RecordAck(k, t) \/ KeepAlive(k, t)
      PROVE  j \in poll /\ PolledRow(row'[j])
  <2>1. CASE k = j
    <3>1. CASE RecordAck(k, t)
      BY <1>0, <1>1, <2>1, <3>1 DEF RecordAck, Row, PolledRow
    <3>2. CASE KeepAlive(k, t)
      BY <1>0, <1>1, <2>1, <3>2 DEF KeepAlive, Row, PolledRow
    <3> QED
      BY <1>4, <3>1, <3>2
  <2>2. CASE k # j
    <3>1. row'[j] = row[j]
      BY <1>1, <1>4, <2>2 DEF RecordAck, KeepAlive
    <3> QED
      BY <1>0, <1>1, <3>1
  <2> QED
    BY <2>1, <2>2
<1>5. CASE AnyReport
  BY <1>2, <1>5 DEF AnyReport, PatchRead
<1>6. ASSUME NEW h \in Handlers, PatchWrite(h)
      PROVE  j \in poll /\ PolledRow(row'[j])
  <2> DEFINE w == patch[h]
  <2>1. CASE FenceHolds(w) /\ w.job = j
    <3>1. row'[j] = IF w.to = "queued" THEN Handback(row[j], w) ELSE Reported(row[j], w)
      BY <1>1, <1>6, <2>1 DEF PatchWrite
    <3>2. w # Idle /\ w \in FencedWrite
      BY <1>6 DEF PatchWrite
    <3>3. w.to # "claimed" /\ (w.to = "queued" => row[j].status = "claimed")
      BY <2>1, <3>2 DEF PatchInv, FenceHolds
    <3>4. CASE w.to = "queued"
      <4>1. /\ row'[j].attempts \in {row[j].attempts - 1, 0}
            /\ row'[j].retries = row[j].retries + 1 /\ row'[j].status = "queued"
            /\ row[j].retries < MaxRetries
        BY <1>1, <3>1, <3>3, <3>4 DEF Handback, Row, PolledRow
      <4> QED
        BY <1>0, <1>1, <4>1, BudgetAssumption DEF PolledRow, Row
    <3>5. CASE w.to # "queued"
      <4>1. /\ row'[j].attempts = row[j].attempts /\ row'[j].retries = row[j].retries
            /\ row'[j].status # "claimed"
        BY <1>1, <3>1, <3>3, <3>5 DEF Reported, Row
      <4> QED
        BY <1>0, <1>1, <4>1 DEF PolledRow
    <3> QED
      BY <3>4, <3>5
  <2>2. CASE ~FenceHolds(w)
    BY <1>2, <1>6, <2>2 DEF PatchWrite
  <2>3. CASE w.job # j
    <3>1. row'[j] = row[j]
      BY <1>1, <1>6, <2>3 DEF PatchWrite
    <3> QED
      BY <1>0, <1>1, <3>1
  <2> QED
    BY <2>1, <2>2, <2>3
<1>7. CASE Sweep
  <2>1. CASE SweepExpire
    BY <1>0, <1>1, <2>1 DEF SweepExpire, Row, PolledRow
  <2>2. CASE SweepRequeue
    <3>1. \/ row'[j] = row[j]
          \/ /\ row[j].retries < MaxRetries
             /\ row'[j].status = "queued" /\ row'[j].attempts = row[j].attempts
             /\ row'[j].retries = row[j].retries + 1
      BY <1>1, <2>2 DEF SweepRequeue, Row
    <3>2. row[j].retries \in Nat
      BY <1>1 DEF Row
    <3> QED
      BY <1>0, <1>1, <3>1, <3>2, BudgetAssumption DEF PolledRow
  <2>3. CASE SweepSilent
    BY <1>0, <1>1, <2>3 DEF SweepSilent, Row, PolledRow
  <2>4. CASE SweepPrinting
    BY <1>0, <1>1, <2>4 DEF SweepPrinting, Row, PolledRow
  <2>5. CASE SweepExhausted
    BY <1>0, <1>1, <2>5 DEF SweepExhausted, Row, PolledRow
  <2> QED
    BY <1>7, <2>1, <2>2, <2>3, <2>4, <2>5 DEF Sweep
<1>8. CASE Surroundings
  BY <1>0, <1>1, <1>2, <1>8 DEF Surroundings, TimePasses, TtlPasses, AgentPresence,
     PrinterPresence, GatewayRestart, Row, PolledRow
<1>9. ASSUME NEW S \in SUBSET Jobs, PollClaim(S)
      PROVE  FALSE
  BY <1>0, <1>9 DEF PollClaim
<1> QED
  BY <1>2, <1>3, <1>4, <1>5, <1>6, <1>7, <1>8, <1>9 DEF GatewayNext, gatewayVars, Delivering

(* Every step of the Gateway keeps the inductive invariant. *)
LEMMA NextInv ==
  ASSUME GatewayInv, [GatewayNext]_gatewayVars
  PROVE  GatewayInv'
<1>1. CASE \E S \in SUBSET Jobs : PollSnapshot(S)
  BY <1>1, PollSnapshotInv
<1>2. CASE ~\E S \in SUBSET Jobs : PollSnapshot(S)
  <2>1. PollInv'
    BY <1>2, PolledKept DEF PollInv
  <2> QED
    BY <2>1, NextTables DEF GatewayInv
<1> QED
  BY <1>1, <1>2

(* The inductive invariant holds in every reachable state. *)
THEOREM GatewayInvariant == GatewaySpec => []GatewayInv
<1>1. GatewayInit => GatewayInv
  BY InitInv
<1>2. GatewayInv /\ [GatewayNext]_gatewayVars => GatewayInv'
  BY NextInv
<1> QED
  BY <1>1, <1>2, PTL DEF GatewaySpec

(* Every variable keeps its type; in particular no refund takes the attempt *)
(* counter below zero.                                                      *)
THEOREM GatewayTypeCorrect == GatewaySpec => []GatewayTypeOK
BY GatewayInvariant, InvImplies, PTL

(* No requeue of any path leaves a token or delivery evidence behind.       *)
THEOREM RequeuedRowsAreClean == GatewaySpec => []QueuedIsClean
BY GatewayInvariant, InvImplies, PTL

(* A job never has two attempts whose token the row would accept.           *)
THEOREM AttemptsAreExclusive == GatewaySpec => []OneLiveAttempt
BY GatewayInvariant, InvImplies, PTL

(* No job is handed out more than MaxDelivery + MaxRetries + 1 times.       *)
THEOREM ClaimsAreBounded == GatewaySpec => []ClaimBudget
BY GatewayInvariant, InvImplies, PTL

-----------------------------------------------------------------------------
Settled(r) == ReachedAgent(r) \/ r.status \in TerminalStatuses

(* A row that ended or reached an agent is chosen by no one, and claimed    *)
(* only by a poll that had chosen it before.                                *)
LEMMA ClaimsSpareEvidence ==
  ASSUME GatewayInv, NEW j \in Jobs, Settled(row[j]),
         \/ \E p \in Pushers, k \in Jobs : WsClaim(p, k)
         \/ \E S \in SUBSET Jobs : PollSnapshot(S) \/ PollClaim(S)
  PROVE  /\ j \in poll' => j \in poll
         /\ issued'[j] # issued[j] => j \in poll
         /\ row'[j].status # "queued"
<1> USE DEF GatewayInv, TablesInv, GatewayTypeOK
<1>0. row[j] \in Row /\ row[j].status # "queued"
  BY DEF Settled, ReachedAgent, TerminalStatuses
<1>1. ASSUME NEW p \in Pushers, NEW k \in Jobs, WsClaim(p, k)
      PROVE  poll' = poll /\ issued'[j] = issued[j] /\ row'[j] = row[j]
  <2>1. j # k
    BY <1>0, <1>1 DEF WsClaim, QueuedCandidate
  <2> QED
    BY <1>1, <2>1 DEF WsClaim
<1>2. ASSUME NEW S \in SUBSET Jobs, PollSnapshot(S)
      PROVE  j \notin poll' /\ issued'[j] = issued[j] /\ row'[j] = row[j]
  <2>1. ~StaleCandidate(j) /\ ~QueuedCandidate(j)
    BY <1>0 DEF Settled, ReachedAgent, TerminalStatuses, StaleCandidate, QueuedCandidate
  <2> QED
    BY <1>2, <2>1 DEF PollSnapshot
<1>3. ASSUME NEW S \in SUBSET Jobs, PollClaim(S)
      PROVE  /\ poll' = {}
             /\ issued'[j] # issued[j] => j \in poll
             /\ row'[j].status # "queued"
  <2>1. CASE j \in S
    <3>1. row'[j] = PollClaimed(row[j], issued[j] + 1)
      BY <1>3, <2>1 DEF PollClaim
    <3>2. row'[j].status = "claimed"
      BY <1>0, <3>1 DEF PollClaimed, Row
    <3> QED
      BY <1>3, <2>1, <3>2 DEF PollClaim
  <2>2. CASE j \notin S
    BY <1>0, <1>3, <2>2 DEF PollClaim
  <2> QED
    BY <2>1, <2>2
<1> QED
  BY <1>0, <1>1, <1>2, <1>3

(* No statement of the sweep requeues such a row. *)
LEMMA SweepSparesEvidence ==
  ASSUME GatewayInv, Sweep, NEW j \in Jobs, Settled(row[j])
  PROVE  poll' = poll /\ issued'[j] = issued[j] /\ row'[j].status # "queued"
<1> USE DEF GatewayInv, TablesInv, GatewayTypeOK
<1>1. /\ row[j] \in Row /\ row[j].status # "queued"
      /\ row[j].status = "claimed" => row[j].evidence # "none"
  BY DEF Settled, ReachedAgent, TerminalStatuses
<1>2. CASE SweepExpire
  BY <1>1, <1>2 DEF SweepExpire, Row
<1>3. CASE SweepRequeue
  BY <1>1, <1>3 DEF SweepRequeue, Row
<1>4. CASE SweepSilent
  BY <1>1, <1>4 DEF SweepSilent, Row
<1>5. CASE SweepPrinting
  BY <1>1, <1>5 DEF SweepPrinting, Row
<1>6. CASE SweepExhausted
  BY <1>1, <1>6 DEF SweepExhausted, Row
<1> QED
  BY <1>2, <1>3, <1>4, <1>5, <1>6 DEF Sweep

(* A handler requeues only the claim whose token it was given, and a live   *)
(* claim's token is the newest.                                             *)
LEMMA HandbackIsNewest ==
  ASSUME GatewayInv, NEW h \in Handlers, PatchWrite(h), NEW j \in Jobs,
         row[j].status # "queued", row'[j].status = "queued"
  PROVE  /\ row[j].status = "claimed"
         /\ patch[h] # Idle /\ patch[h].job = j /\ patch[h].to = "queued"
         /\ patch[h].token = issued[j]
<1> USE DEF GatewayInv, TablesInv, GatewayTypeOK
<1> DEFINE w == patch[h]
<1>1. w # Idle /\ w \in FencedWrite
  BY DEF PatchWrite
<1>2. row[j] \in Row /\ RowInv(row[j], issued[j])
  BY DEF RowsInv
<1>3. w.job = j /\ FenceHolds(w)
  BY <1>2 DEF PatchWrite
<1>4. row'[j] = IF w.to = "queued" THEN Handback(row[j], w) ELSE Reported(row[j], w)
  BY <1>1, <1>3 DEF PatchWrite, FencedWrite
<1>5. w.to = "queued"
  BY <1>2, <1>4 DEF Reported, Row
<1>6. w.expect = "claimed" /\ row[j].status = "claimed" /\ row[j].token = w.token
  BY <1>1, <1>3, <1>5 DEF PatchInv, FenceHolds
<1> QED
  BY <1>1, <1>2, <1>3, <1>5, <1>6 DEF RowInv

(* The step behind EvidencedJobIsNotRedelivered. *)
LEMMA RedeliveryStep ==
  ASSUME GatewayInv, [GatewayNext]_gatewayVars
  PROVE  [OnlyHandbackRedelivers]_gatewayVars
<1> SUFFICES ASSUME GatewayNext, NEW j \in Jobs, Settled(row[j])
             PROVE  /\ j \in poll' => j \in poll
                    /\ issued'[j] # issued[j] => j \in poll
                    /\ row'[j].status = "queued" =>
                         /\ row[j].status = "claimed"
                         /\ \E h \in Handlers : /\ patch[h] # Idle
                                                /\ patch[h].job = j
                                                /\ patch[h].to = "queued"
                                                /\ patch[h].token = issued[j]
  BY DEF OnlyHandbackRedelivers, Settled
<1> DEFINE Kept == poll' \subseteq poll /\ issued'[j] = issued[j] /\ row'[j].status # "queued"
<1> USE DEF GatewayInv, TablesInv, GatewayTypeOK
<1>1. /\ row[j] \in Row /\ row[j].status # "queued"
      /\ row[j].status = "claimed" => row[j].evidence # "none"
  BY DEF Settled, ReachedAgent, TerminalStatuses
<1>2. CASE Delivering
  <2>1. PICK p \in Pushers :
          \/ \E k \in Jobs : WsClaim(p, k)
          \/ PushSend(p) \/ PushFails(p)
          \/ MarkDelivered(p)
          \/ ReleaseUndelivered(p)
    BY <1>2 DEF Delivering
  <2>2. CASE \E k \in Jobs : WsClaim(p, k)
    BY <2>2, ClaimsSpareEvidence
  <2>3. CASE PushSend(p) \/ PushFails(p)
    BY <1>1, <2>3 DEF PushSend, PushFails
  <2>4. CASE MarkDelivered(p)
    <3>1. issued' = issued /\ poll' = poll
          /\ \/ UNCHANGED row
             \/ row' = [row EXCEPT ![push[p].job].evidence = Stamped(@), ![push[p].job].age = 0]
      BY <2>4 DEF MarkDelivered
    <3> QED
      BY <1>1, <3>1 DEF Row
  <2>5. CASE ReleaseUndelivered(p)
    <3>1. CASE push[p].job = j
      BY <1>1, <2>5, <3>1 DEF ReleaseUndelivered
    <3>2. CASE push[p].job # j
      BY <1>1, <2>5, <3>2 DEF ReleaseUndelivered
    <3> QED
      BY <3>1, <3>2
  <2> QED
    BY <2>1, <2>2, <2>3, <2>4, <2>5
<1>3. CASE \E S \in SUBSET Jobs : PollSnapshot(S) \/ PollClaim(S)
  BY <1>3, ClaimsSpareEvidence
<1>4. ASSUME NEW k \in Jobs, NEW t \in 1 .. issued[k], RecordAck(k, t) \/ KeepAlive(k, t)
      PROVE  Kept
  BY <1>1, <1>4 DEF RecordAck, KeepAlive, Row
<1>5. CASE AnyReport
  BY <1>1, <1>5 DEF AnyReport, PatchRead
<1>6. ASSUME NEW h \in Handlers, PatchWrite(h)
      PROVE  /\ poll' = poll /\ issued'[j] = issued[j]
             /\ row'[j].status = "queued" =>
                  /\ row[j].status = "claimed"
                  /\ patch[h] # Idle /\ patch[h].job = j /\ patch[h].to = "queued"
                  /\ patch[h].token = issued[j]
  <2>1. poll' = poll /\ issued'[j] = issued[j]
    BY <1>6 DEF PatchWrite
  <2> QED
    BY <1>1, <1>6, <2>1, HandbackIsNewest
<1>7. CASE Sweep
  BY <1>7, SweepSparesEvidence
<1>8. CASE Surroundings
  BY <1>1, <1>8 DEF Surroundings, TimePasses, TtlPasses, AgentPresence, PrinterPresence,
     GatewayRestart, Row
<1> QED
  BY <1>2, <1>3, <1>4, <1>5, <1>6, <1>7, <1>8 DEF GatewayNext

(* A job that ended, or that an agent gave a sign of having, is given to    *)
(* someone else only by a poll that had chosen it before, and goes back to  *)
(* the queue only by the hand of its newest attempt.                        *)
THEOREM NoRedelivery == GatewaySpec => EvidencedJobIsNotRedelivered
<1>1. GatewayInv /\ [GatewayNext]_gatewayVars => [OnlyHandbackRedelivers]_gatewayVars
  BY RedeliveryStep
<1> QED
  BY <1>1, GatewayInvariant, PTL DEF GatewaySpec, EvidencedJobIsNotRedelivered

(* The step behind NewestAttemptReports: only its own PatchWrite clears a   *)
(* handler and changes the table at once.                                   *)
LEMMA ReportStep ==
  ASSUME GatewayInv, [GatewayNext]_gatewayVars
  PROVE  [OnlyNewestMoves]_gatewayVars
<1> SUFFICES ASSUME GatewayNext, NEW h \in Handlers,
                    patch[h] # Idle, patch'[h] = Idle, row' # row
             PROVE  patch[h].token \in {issued[patch[h].job], 0}
  BY DEF OnlyNewestMoves
<1> USE DEF GatewayInv, TablesInv, GatewayTypeOK
<1>1. PatchWrite(h)
  <2>1. patch' # patch
    OBVIOUS
  <2>2. ~Delivering
    BY <2>1 DEF Delivering, WsClaim, PushSend, PushFails, MarkDelivered, ReleaseUndelivered
  <2>3. ~\E S \in SUBSET Jobs : PollSnapshot(S) \/ PollClaim(S)
    BY <2>1 DEF PollSnapshot, PollClaim
  <2>4. ~\E j \in Jobs : \E t \in 1 .. issued[j] : RecordAck(j, t) \/ KeepAlive(j, t)
    BY <2>1 DEF RecordAck, KeepAlive
  <2>5. ~AnyReport
    BY DEF AnyReport, PatchRead
  <2>6. ~Sweep
    BY <2>1 DEF Sweep, SweepExpire, SweepRequeue, SweepSilent, SweepPrinting, SweepExhausted
  <2>7. ~Surroundings
    BY <2>1 DEF Surroundings, TimePasses, TtlPasses, AgentPresence, PrinterPresence,
       GatewayRestart
  <2>8. PICK g \in Handlers : PatchWrite(g)
    BY <2>2, <2>3, <2>4, <2>5, <2>6, <2>7 DEF GatewayNext
  <2>9. g = h
    BY <2>8 DEF PatchWrite
  <2> QED
    BY <2>8, <2>9
<1>2. FenceHolds(patch[h]) /\ patch[h] \in FencedWrite
  BY <1>1 DEF PatchWrite
<1>3. patch[h].job \in Jobs /\ row[patch[h].job].token = patch[h].token
  BY <1>2 DEF FenceHolds, FencedWrite
<1>4. RowInv(row[patch[h].job], issued[patch[h].job])
  BY <1>3 DEF RowsInv
<1> QED
  BY <1>3, <1>4 DEF RowInv

(* A report carrying the token of an older attempt never changes a row.     *)
THEOREM StaleReportsAreFenced == GatewaySpec => NewestAttemptReports
<1>1. GatewayInv /\ [GatewayNext]_gatewayVars => [OnlyNewestMoves]_gatewayVars
  BY ReportStep
<1> QED
  BY <1>1, GatewayInvariant, PTL DEF GatewaySpec, NewestAttemptReports

-----------------------------------------------------------------------------
(* The in-flight ceiling.  The claims count only the jobs of printers that *)
(* are online, so a printer that goes offline and comes back breaks it, and *)
(* one that does so between the poll's count and its snapshot would break  *)
(* it for a single printer.  It is shown to hold while agent and printers  *)
(* stay online: then every live job is counted, and while a poll holds the *)
(* advisory lock nothing but its own rows can be claimed.                  *)

IsLive(r) == r.status \in {"claimed", "printing"} /\ r.ttl = "live"

LiveJobs == {j \in Jobs : IsLive(row[j])}

(* The live jobs with those the poll under way may still make live.        *)
LiveSoon == LiveJobs \cup {j \in poll : row[j].ttl = "live"}

AllOnline == agent = "online" /\ \A p \in Printers : printer[p] = "online"

(* Only a claim makes a job live: no other step adds one.                  *)
LEMMA OnlyClaimsAddLive ==
  ASSUME GatewayInv, [GatewayNext]_gatewayVars,
         ~\E p \in Pushers, j \in Jobs : WsClaim(p, j),
         ~\E S \in SUBSET Jobs : PollClaim(S)
  PROVE  LiveJobs' \subseteq LiveJobs
<1> SUFFICES ASSUME NEW j \in Jobs, IsLive(row'[j])
             PROVE  IsLive(row[j])
  BY DEF LiveJobs
<1> USE DEF GatewayInv, TablesInv, GatewayTypeOK, IsLive
<1>1. row[j] \in Row
  OBVIOUS
<1>2. CASE row' = row
  BY <1>2
<1>3. CASE Delivering
  <2>1. PICK p \in Pushers : MarkDelivered(p) \/ ReleaseUndelivered(p) \/ row' = row
    BY <1>3 DEF Delivering, PushSend, PushFails
  <2>2. CASE MarkDelivered(p)
    BY <1>1, <1>2, <2>2 DEF MarkDelivered, Row
  <2>3. CASE ReleaseUndelivered(p)
    <3>1. CASE push[p].job = j
      BY <1>1, <1>2, <2>3, <3>1 DEF ReleaseUndelivered, Row
    <3>2. CASE push[p].job # j
      BY <1>1, <1>2, <2>3, <3>2 DEF ReleaseUndelivered, Row
    <3> QED
      BY <3>1, <3>2
  <2> QED
    BY <1>2, <2>1, <2>2, <2>3
<1>4. ASSUME NEW k \in Jobs, NEW t \in 1 .. issued[k], RecordAck(k, t) \/ KeepAlive(k, t)
      PROVE  IsLive(row[j])
  <2>1. CASE k = j
    <3>1. CASE RecordAck(k, t)
      BY <1>1, <2>1, <3>1 DEF RecordAck, Row
    <3>2. CASE KeepAlive(k, t)
      BY <1>1, <2>1, <3>2 DEF KeepAlive, Row
    <3> QED
      BY <1>4, <3>1, <3>2
  <2>2. CASE k # j
    <3>1. row'[j] = row[j]
      BY <1>1, <1>4, <2>2 DEF RecordAck, KeepAlive
    <3> QED
      BY <3>1
  <2> QED
    BY <2>1, <2>2
<1>5. CASE AnyReport
  BY <1>2, <1>5 DEF AnyReport, PatchRead
<1>6. ASSUME NEW h \in Handlers, PatchWrite(h)
      PROVE  IsLive(row[j])
  <2> DEFINE w == patch[h]
  <2>1. CASE FenceHolds(w) /\ w.job = j
    <3>1. row'[j] = IF w.to = "queued" THEN Handback(row[j], w) ELSE Reported(row[j], w)
      BY <1>1, <1>6, <2>1 DEF PatchWrite
    <3>2. w # Idle /\ w \in FencedWrite
      BY <1>6 DEF PatchWrite
    <3>3. row'[j].status = w.to /\ row'[j].ttl = row[j].ttl
      BY <1>1, <3>1 DEF Handback, Reported, Row
    <3>4. w.to = "printing" /\ w.expect = "claimed"
      BY <3>2, <3>3 DEF PatchInv
    <3> QED
      BY <2>1, <3>3, <3>4 DEF FenceHolds
  <2>2. CASE ~FenceHolds(w)
    BY <1>2, <1>6, <2>2 DEF PatchWrite
  <2>3. CASE w.job # j
    <3>1. row'[j] = row[j]
      BY <1>6, <2>3 DEF PatchWrite
    <3> QED
      BY <3>1
  <2> QED
    BY <2>1, <2>2, <2>3
<1>7. CASE Sweep
  <2>1. CASE SweepExpire
    BY <1>1, <2>1 DEF SweepExpire, Row
  <2>2. CASE SweepRequeue
    BY <1>1, <2>2 DEF SweepRequeue, Row
  <2>3. CASE SweepSilent
    BY <1>1, <2>3 DEF SweepSilent, Row
  <2>4. CASE SweepPrinting
    BY <1>1, <2>4 DEF SweepPrinting, Row
  <2>5. CASE SweepExhausted
    BY <1>1, <2>5 DEF SweepExhausted, Row
  <2> QED
    BY <1>7, <2>1, <2>2, <2>3, <2>4, <2>5 DEF Sweep
<1>8. CASE Surroundings
  BY <1>1, <1>8 DEF Surroundings, TimePasses, TtlPasses, AgentPresence, PrinterPresence,
     GatewayRestart, Row
<1>9. CASE \E S \in SUBSET Jobs : PollSnapshot(S)
  BY <1>2, <1>9 DEF PollSnapshot
<1> QED
  BY <1>2, <1>3, <1>4, <1>5, <1>6, <1>7, <1>8, <1>9 DEF GatewayNext, gatewayVars, Delivering

(* No time is given back. *)
LEMMA TtlOnlyRunsOut ==
  ASSUME GatewayInv, [GatewayNext]_gatewayVars, NEW j \in Jobs, row'[j].ttl = "live"
  PROVE  row[j].ttl = "live"
<1> USE DEF GatewayInv, TablesInv, GatewayTypeOK
<1>1. row[j] \in Row
  OBVIOUS
<1>2. CASE row' = row
  BY <1>2
<1>3. CASE Delivering
  <2>1. PICK p \in Pushers : \/ \E k \in Jobs : WsClaim(p, k)
                            \/ MarkDelivered(p) \/ ReleaseUndelivered(p) \/ row' = row
    BY <1>3 DEF Delivering, PushSend, PushFails
  <2>2. CASE \E k \in Jobs : WsClaim(p, k)
    BY <1>1, <2>2 DEF WsClaim, Row
  <2>3. CASE MarkDelivered(p)
    BY <1>1, <1>2, <2>3 DEF MarkDelivered, Row
  <2>4. CASE ReleaseUndelivered(p)
    <3>1. CASE push[p].job = j
      BY <1>1, <1>2, <2>4, <3>1 DEF ReleaseUndelivered, Row
    <3>2. CASE push[p].job # j
      BY <1>1, <1>2, <2>4, <3>2 DEF ReleaseUndelivered, Row
    <3> QED
      BY <3>1, <3>2
  <2> QED
    BY <1>2, <2>1, <2>2, <2>3, <2>4
<1>4. ASSUME NEW k \in Jobs, NEW t \in 1 .. issued[k], RecordAck(k, t) \/ KeepAlive(k, t)
      PROVE  row[j].ttl = "live"
  BY <1>1, <1>4 DEF RecordAck, KeepAlive, Row
<1>5. CASE AnyReport
  BY <1>2, <1>5 DEF AnyReport, PatchRead
<1>6. ASSUME NEW h \in Handlers, PatchWrite(h)
      PROVE  row[j].ttl = "live"
  <2> DEFINE w == patch[h]
  <2>1. \/ row'[j] = row[j] \/ row'[j] = Handback(row[j], w) \/ row'[j] = Reported(row[j], w)
    BY <1>1, <1>6 DEF PatchWrite
  <2> QED
    BY <1>1, <2>1 DEF Handback, Reported, Row
<1>7. CASE Sweep
  <2>1. CASE SweepExpire
    BY <1>1, <2>1 DEF SweepExpire, Row
  <2>2. CASE SweepRequeue
    BY <1>1, <2>2 DEF SweepRequeue, Row
  <2>3. CASE SweepSilent
    BY <1>1, <2>3 DEF SweepSilent, Row
  <2>4. CASE SweepPrinting
    BY <1>1, <2>4 DEF SweepPrinting, Row
  <2>5. CASE SweepExhausted
    BY <1>1, <2>5 DEF SweepExhausted, Row
  <2> QED
    BY <1>7, <2>1, <2>2, <2>3, <2>4, <2>5 DEF Sweep
<1>8. CASE Surroundings
  BY <1>1, <1>8 DEF Surroundings, TimePasses, TtlPasses, AgentPresence, PrinterPresence,
     GatewayRestart, Row
<1>9. ASSUME NEW S \in SUBSET Jobs, PollSnapshot(S) \/ PollClaim(S)
      PROVE  row[j].ttl = "live"
  <2>1. row'[j] = row[j] \/ row'[j] = PollClaimed(row[j], issued[j] + 1)
    BY <1>9 DEF PollSnapshot, PollClaim
  <2> QED
    BY <1>1, <2>1 DEF PollClaimed, Row
<1> QED
  BY <1>2, <1>3, <1>4, <1>5, <1>6, <1>7, <1>8, <1>9 DEF GatewayNext, gatewayVars

(* While everything is online all live jobs count.                         *)
LEMMA AllLiveCount ==
  ASSUME AllOnline
  PROVE  InFlight = LiveJobs
BY JobsAssumption DEF InFlight, LiveJobs, IsLive, Routable, AllOnline

(* Fewer jobs stay under the ceiling.                                      *)
LEMMA FewerFit ==
  ASSUME NEW A, NEW B, IsFiniteSet(B), Cardinality(B) <= MaxInFlight, A \subseteq B
  PROVE  IsFiniteSet(A) /\ Cardinality(A) <= MaxInFlight
<1>1. /\ IsFiniteSet(A) /\ Cardinality(A) <= Cardinality(B)
      /\ Cardinality(A) \in Nat /\ Cardinality(B) \in Nat
  BY FS_Subset, FS_CardinalityType
<1> QED
  BY <1>1, BudgetAssumption

(* Every job is one of finitely many.                                      *)
LEMMA LiveFinite ==
  ASSUME IsFiniteSet(Jobs), GatewayInv
  PROVE  /\ LiveSoon \subseteq Jobs /\ IsFiniteSet(LiveSoon)
         /\ IsFiniteSet(LiveJobs) /\ Cardinality(LiveJobs) \in Nat
<1>1. LiveSoon \subseteq Jobs /\ LiveJobs \subseteq Jobs
  BY DEF LiveSoon, LiveJobs, GatewayInv, TablesInv, GatewayTypeOK
<1> QED
  BY <1>1, FS_Subset, FS_CardinalityType

(* A claim over the WebSocket adds one live job where there is room for it, *)
(* and is made only while no poll is under way.                             *)
LEMMA WsClaimCeiling ==
  ASSUME IsFiniteSet(Jobs), AllOnline, GatewayInv,
         NEW p \in Pushers, NEW k \in Jobs, WsClaim(p, k)
  PROVE  Cardinality(LiveSoon') <= MaxInFlight
<1>1. InFlight = LiveJobs
  BY AllLiveCount
<1>2. Cardinality(LiveJobs) < MaxInFlight
  BY <1>1 DEF WsClaim
<1>3. poll' = {} /\ (\A j \in Jobs : j # k => row'[j] = row[j])
  BY DEF WsClaim, GatewayInv, TablesInv, GatewayTypeOK
<1>4. LiveSoon' \subseteq LiveJobs \cup {k}
  BY <1>3 DEF LiveSoon, LiveJobs, IsLive
<1>5. IsFiniteSet(LiveJobs) /\ Cardinality(LiveJobs) \in Nat
  BY LiveFinite
<1>6. /\ IsFiniteSet(LiveJobs \cup {k})
      /\ Cardinality(LiveJobs \cup {k}) \in Nat
      /\ Cardinality(LiveJobs \cup {k}) <= Cardinality(LiveJobs) + 1
  <2> DEFINE L == LiveJobs
  <2>1. IsFiniteSet(L) /\ Cardinality(L) \in Nat
    BY <1>5
  <2> HIDE DEF L
  <2>2. /\ IsFiniteSet(L \cup {k})
        /\ Cardinality(L \cup {k}) = IF k \in L THEN Cardinality(L) ELSE Cardinality(L) + 1
    BY <2>1, FS_AddElement
  <2>3. /\ Cardinality(L \cup {k}) \in Nat
        /\ Cardinality(L \cup {k}) <= Cardinality(L) + 1
    BY <2>1, <2>2
  <2> QED
    BY <2>2, <2>3 DEF L
<1>7. Cardinality(LiveJobs \cup {k}) <= MaxInFlight
  BY <1>2, <1>5, <1>6, BudgetAssumption
<1> QED
  BY <1>4, <1>6, <1>7, FewerFit

(* A poll chooses no more queued jobs than there is room for; a stale claim *)
(* it chooses is live already.                                             *)
LEMMA PollSnapshotCeiling ==
  ASSUME IsFiniteSet(Jobs), AllOnline, GatewayInv, Cardinality(LiveSoon) <= MaxInFlight,
         NEW S \in SUBSET Jobs, PollSnapshot(S)
  PROVE  Cardinality(LiveSoon') <= MaxInFlight
<1> DEFINE fromQueue == {j \in S : row[j].status = "queued"}
<1>1. LiveSoon' \subseteq LiveJobs \cup fromQueue
  <2>1. row' = row /\ poll' = S
    BY DEF PollSnapshot
  <2>2. \A j \in S : j \in fromQueue \/ IsLive(row[j])
    BY DEF PollSnapshot, StaleCandidate, QueuedCandidate, IsLive
  <2> QED
    BY <2>1, <2>2 DEF LiveSoon, LiveJobs
<1>2. LiveJobs \subseteq LiveSoon /\ IsFiniteSet(LiveSoon)
  BY LiveFinite DEF LiveSoon
<1>3. CASE fromQueue = {}
  <2>1. LiveSoon' \subseteq LiveSoon
    BY <1>1, <1>2, <1>3
  <2> QED
    BY <1>2, <2>1, FewerFit
<1>4. CASE fromQueue # {}
  <2>1. InFlight = LiveJobs
    BY AllLiveCount
  <2>2. Cardinality(fromQueue) + Cardinality(LiveJobs) <= MaxInFlight
    BY <1>4, <2>1 DEF PollSnapshot
  <2>3. IsFiniteSet(fromQueue) /\ Cardinality(fromQueue) \in Nat
    <3>1. fromQueue \subseteq Jobs
      OBVIOUS
    <3> HIDE DEF fromQueue
    <3> QED
      BY <3>1, FS_Subset, FS_CardinalityType
  <2>4. IsFiniteSet(LiveJobs) /\ Cardinality(LiveJobs) \in Nat
    BY LiveFinite
  <2> HIDE DEF fromQueue
  <2>5. IsFiniteSet(LiveJobs \cap fromQueue) /\ Cardinality(LiveJobs \cap fromQueue) \in Nat
    <3>1. LiveJobs \cap fromQueue \subseteq LiveJobs
      OBVIOUS
    <3> QED
      BY <2>4, <3>1, FS_Subset, FS_CardinalityType
  <2>6. /\ IsFiniteSet(LiveJobs \cup fromQueue)
        /\ Cardinality(LiveJobs \cup fromQueue)
             = Cardinality(LiveJobs) + Cardinality(fromQueue) - Cardinality(LiveJobs \cap fromQueue)
    BY <2>3, <2>4, FS_Union
  <2>7. Cardinality(LiveJobs \cup fromQueue) <= MaxInFlight
    BY <2>2, <2>3, <2>4, <2>5, <2>6, BudgetAssumption
  <2> QED
    BY <1>1, <2>6, <2>7, FewerFit
<1> QED
  BY <1>3, <1>4

(* What the poll then claims was reckoned with when it chose.              *)
LEMMA PollClaimCeiling ==
  ASSUME GatewayInv, NEW S \in SUBSET Jobs, PollClaim(S)
  PROVE  LiveSoon' \subseteq LiveSoon
<1>1. poll' = {} /\ S \subseteq poll
  BY DEF PollClaim
<1>2. ASSUME NEW j \in Jobs, IsLive(row'[j])
      PROVE  j \in LiveSoon
  <2>1. row[j] \in Row
    BY DEF GatewayInv, TablesInv, GatewayTypeOK
  <2>2. row'[j] = IF j \in S THEN PollClaimed(row[j], issued[j] + 1) ELSE row[j]
    BY DEF PollClaim
  <2>3. CASE j \notin S
    BY <1>2, <2>2, <2>3 DEF LiveSoon, LiveJobs
  <2>4. CASE j \in S
    <3>1. row[j].ttl = "live"
      BY <1>2, <2>1, <2>2, <2>4 DEF IsLive, PollClaimed, Row
    <3> QED
      BY <1>1, <2>4, <3>1 DEF LiveSoon
  <2> QED
    BY <2>3, <2>4
<1> QED
  BY <1>1, <1>2 DEF LiveSoon, LiveJobs

(* The ceiling on live jobs (job-delivery.ts "a true invariant") holds, for *)
(* any number of printers, as long as the agent and its printers stay       *)
(* online.                                                                  *)
THEOREM CeilingWhileOnline ==
  ASSUME IsFiniteSet(Jobs)
  PROVE  GatewaySpec /\ [][UNCHANGED <<agent, printer>>]_gatewayVars => []InFlightCeiling
<1> DEFINE Bounded == AllOnline /\ Cardinality(LiveSoon) <= MaxInFlight
<1>1. GatewayInit => Bounded
  <2> SUFFICES ASSUME GatewayInit PROVE Bounded
    OBVIOUS
  <2>1. LiveSoon = {}
    BY DEF GatewayInit, NewRow, LiveSoon, LiveJobs, IsLive
  <2>2. AllOnline
    BY DEF GatewayInit, AllOnline
  <2> QED
    BY <2>1, <2>2, FS_EmptySet, BudgetAssumption
<1>2. /\ GatewayInv /\ Bounded /\ [GatewayNext]_gatewayVars
      /\ [UNCHANGED <<agent, printer>>]_gatewayVars
      => Bounded'
  <2> SUFFICES ASSUME GatewayInv, Bounded, [GatewayNext]_gatewayVars,
                      [UNCHANGED <<agent, printer>>]_gatewayVars
               PROVE  Bounded'
    OBVIOUS
  <2>0. AllOnline'
    BY DEF AllOnline, gatewayVars
  <2>1. CASE \E p \in Pushers, j \in Jobs : WsClaim(p, j)
    BY <2>0, <2>1, WsClaimCeiling
  <2>2. CASE \E S \in SUBSET Jobs : PollSnapshot(S)
    BY <2>0, <2>2, PollSnapshotCeiling
  <2>3. CASE /\ ~\E p \in Pushers, j \in Jobs : WsClaim(p, j)
             /\ ~\E S \in SUBSET Jobs : PollSnapshot(S)
    <3>1. LiveSoon' \subseteq LiveSoon
      <4>1. CASE \E S \in SUBSET Jobs : PollClaim(S)
        BY <4>1, PollClaimCeiling
      <4>2. CASE ~\E S \in SUBSET Jobs : PollClaim(S)
        <5>1. LiveJobs' \subseteq LiveJobs
          BY <2>3, <4>2, OnlyClaimsAddLive
        <5>2. ASSUME NEW j \in poll', row'[j].ttl = "live"
              PROVE  j \in poll /\ row[j].ttl = "live"
          <6>1. j \in poll /\ j \in Jobs
            BY <2>3, <5>2, PolledKept DEF GatewayInv, TablesInv, GatewayTypeOK
          <6> QED
            BY <5>2, <6>1, TtlOnlyRunsOut
        <5> QED
          BY <5>1, <5>2 DEF LiveSoon
      <4> QED
        BY <4>1, <4>2
    <3>2. IsFiniteSet(LiveSoon)
      BY LiveFinite
    <3> QED
      BY <2>0, <3>1, <3>2, FewerFit
  <2> QED
    BY <2>1, <2>2, <2>3
<1>3. GatewayInv /\ Bounded => InFlightCeiling
  <2> SUFFICES ASSUME GatewayInv, Bounded PROVE InFlightCeiling
    OBVIOUS
  <2>1. LiveJobs \subseteq LiveSoon /\ IsFiniteSet(LiveSoon)
    BY LiveFinite DEF LiveSoon
  <2> QED
    BY <2>1, FewerFit DEF InFlightCeiling, LiveJobs, IsLive
<1> QED
  BY <1>1, <1>2, <1>3, GatewayInvariant, PTL DEF GatewaySpec
=============================================================================
