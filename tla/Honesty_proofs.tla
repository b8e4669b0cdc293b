-------------------------- MODULE Honesty_proofs --------------------------
(***************************************************************************)
(* Proofs that the outcomes of PrintProtocol are honest, for any number of *)
(* jobs, printers, handlers and pushers, with crashes and shutdowns of the *)
(* agent, arbitrarily late messages and changing presence, provided every  *)
(* HTTP call is answered, the ledger works, reprint_after_crash is off     *)
(* (what a lost answer does is shown by the run honesty_under_loss), and   *)
(* no row changes between a poll's choice and its claim (what happens then *)
(* is shown by the run stale_poll).                                        *)
(*                                                                         *)
(* The argument is about the newest token of a job.  It travels once, so   *)
(* one goroutine at most acts on it; the Gateway answers "ok" to no other; *)
(* after that answer the row is never handed out again; and a report that  *)
(* would make the Gateway say not_printed is sent only by a goroutine that *)
(* will not print, never beside one that may.                              *)
(***************************************************************************)
EXTENDS PrintProtocol_proofs

Answering == SafeLedger /\ Faults \cap {"loss", "gateway", "snapshot"} = {}

NewestIn(M, j) == [job |-> j, token |-> issued[j]] \in M

PushesNewest(p, j) == /\ push[p] # Idle
                      /\ push[p].step = "claimed"
                      /\ push[p].job = j
                      /\ push[p].token = issued[j]

(* The newest token of a job is still on its way to the agent. *)
Pending(j) == NewestIn(frames, j) \/ NewestIn(polled, j) \/ \E p \in Pushers : PushesNewest(p, j)

(* It is on its way once. *)
OnceInv ==
  \A j \in Jobs :
    /\ ~(NewestIn(frames, j) /\ NewestIn(polled, j))
    /\ \A p \in Pushers : PushesNewest(p, j) =>
         /\ ~NewestIn(frames, j) /\ ~NewestIn(polled, j)
         /\ \A q \in Pushers : PushesNewest(q, j) => q = p

(* Bytes flow, may flow, or flowed. *)
Engaged(j) == \/ phase[j] \in {"cleared"} \cup AtPrinter
              \/ phase[j] = "asking" /\ reply[j] = "ok"
              \/ paper[j] > 0

(* A report that makes the Gateway say not_printed. *)
Denial(want, error) == want = "expired" \/ (want = "failed" /\ error \notin UnknownMarkers)

Denied(j) ==
  \/ \E m \in reports : m.job = j /\ m.token = issued[j] /\ Denial(m.want, m.error)
  \/ \E h \in Handlers : /\ patch[h] # Idle /\ patch[h].job = j /\ patch[h].token = issued[j]
                         /\ Denial(patch[h].to, patch[h].error)

NotPrinted(j) == /\ row[j].status \in TerminalStatuses
                 /\ PhysicalOutcome(row[j].status, row[j].error) = "not_printed"

(* What makes the reports trustworthy. *)
ReportsInv ==
  /\ \A m \in reports : Denial(m.want, m.error) => m.token # 0
  /\ \A h \in Handlers : patch[h] # Idle =>
       /\ patch[h].token \in 0 .. issued[patch[h].job]
       /\ Denial(patch[h].to, patch[h].error) => patch[h].token # 0
       /\ \/ patch[h].to = "expired"
          \/ patch[h].to = "success"
          \/ patch[h].to = "failed" /\ patch[h].expect \in {"claimed", "printing"}
          \/ patch[h].to \in {"queued", "printing"} /\ patch[h].expect = "claimed"
       /\ patch[h].to = "success" => patch[h].expect \in {"printing", "failed", "expired"}
       /\ patch[h].to = "expired" /\ patch[h].expect \in TerminalStatuses =>
            patch[h].error = "none"
  /\ \A j \in Jobs :
       phase[j] = "asking" => asked[j].want = "printing" /\ asked[j].token \in 0 .. issued[j]

Honest(j) ==
  /\ held[j] = issued[j] \/ (phase[j] = "asking" /\ asked[j].token = issued[j]) => ~Pending(j)
  /\ Engaged(j) => /\ row[j].status \notin {"queued", "claimed"}
                   /\ ~Pending(j)
                   /\ held[j] = issued[j] => phase[j] \notin {"backlog", "waiting"}
  /\ Denied(j) => /\ ~Engaged(j)
                  /\ ~Pending(j)
                  /\ held[j] = issued[j] => phase[j] \notin {"backlog", "waiting"}
                  /\ phase[j] = "asking" => asked[j].token # issued[j]
  /\ NotPrinted(j) => ~Engaged(j)

HonestInv == ReportsInv /\ OnceInv /\ \A j \in Jobs : Honest(j)

-----------------------------------------------------------------------------
(* What the Gateway does to a row *)

Open(r) == r.status \in {"queued", "claimed"}

(* A row that left queued and claimed comes back to them with a new token   *)
(* only, and a step gives it one at most.                                   *)
LEMMA SettledStays ==
  ASSUME GatewayInv, [GatewayNext]_gatewayVars, NEW j \in Jobs
  PROVE  /\ ~Open(row[j]) => ~Open(row'[j]) \/ issued'[j] # issued[j]
         /\ issued[j] \in Nat /\ issued'[j] \in {issued[j], issued[j] + 1}
<1> DEFINE Goal == /\ ~Open(row[j]) => ~Open(row'[j]) \/ issued'[j] # issued[j]
                   /\ issued'[j] \in {issued[j], issued[j] + 1}
<1> USE DEF GatewayInv, TablesInv, GatewayTypeOK, Open
<1>1. row[j] \in Row /\ issued[j] \in Nat
  OBVIOUS
<1>2. ASSUME NEW p \in Pushers, NEW k \in Jobs, WsClaim(p, k)
      PROVE  Goal
  BY <1>1, <1>2 DEF WsClaim, QueuedCandidate, Row
<1>3. ASSUME NEW S \in SUBSET Jobs, PollClaim(S)
      PROVE  Goal
  <2>1. CASE j \in S
    <3>1. issued'[j] = issued[j] + 1 /\ issued'[j] # issued[j]
      BY <1>1, <1>3, <2>1 DEF PollClaim
    <3> QED
      BY <3>1
  <2>2. CASE j \notin S
    BY <1>3, <2>2 DEF PollClaim
  <2> QED
    BY <2>1, <2>2
<1>4. ASSUME NEW p \in Pushers, MarkDelivered(p) \/ ReleaseUndelivered(p)
      PROVE  Goal
  <2>1. CASE MarkDelivered(p)
    BY <1>1, <2>1 DEF MarkDelivered, Row
  <2>2. CASE ReleaseUndelivered(p)
    BY <1>1, <2>2 DEF ReleaseUndelivered, Row
  <2> QED
    BY <1>4, <2>1, <2>2
<1>5. ASSUME NEW k \in Jobs, NEW t \in 1 .. issued[k], RecordAck(k, t) \/ KeepAlive(k, t)
      PROVE  Goal
  <2>1. CASE RecordAck(k, t)
    BY <1>1, <2>1 DEF RecordAck, Row
  <2>2. CASE KeepAlive(k, t)
    BY <1>1, <2>2 DEF KeepAlive, Row
  <2> QED
    BY <1>5, <2>1, <2>2
<1>6. ASSUME NEW h \in Handlers, PatchWrite(h)
      PROVE  Goal
  <2>1. CASE row'[j] = row[j]
    BY <1>6, <2>1 DEF PatchWrite
  <2>2. CASE row'[j] # row[j]
    <3>1. /\ patch[h] # Idle /\ patch[h].job = j /\ FenceHolds(patch[h])
          /\ row'[j] = IF patch[h].to = "queued" THEN Handback(row[j], patch[h])
                       ELSE Reported(row[j], patch[h])
      BY <1>1, <1>6, <2>2 DEF PatchWrite
    <3>2. row'[j].status = patch[h].to /\ row[j].status = patch[h].expect /\ issued' = issued
      BY <1>1, <1>6, <3>1 DEF Handback, Reported, Row, FenceHolds, PatchWrite
    <3>3. patch[h] \in FencedWrite
      BY <3>1
    <3> QED
      BY <3>1, <3>2, <3>3 DEF PatchInv, FencedWrite
  <2> QED
    BY <2>1, <2>2
<1>7. CASE Sweep
  <2>1. CASE SweepExpire
    BY <1>1, <2>1 DEF SweepExpire, Row
  <2>2. CASE SweepRequeue
    BY <1>1, <2>2 DEF SweepRequeue, Row
  <2>3. CASE SweepSilent
    BY <1>1, <2>3 DEF SweepSilent, Row
  <2>4. CASE SweepPrinting
    BY <1>1, <2>4 DEF SweepPrinting, Row
  <2>5. CASE SweepExhausted
    BY <1>1, <2>5 DEF SweepExhausted, Row
  <2> QED
    BY <1>7, <2>1, <2>2, <2>3, <2>4, <2>5 DEF Sweep
<1>8. CASE Surroundings
  BY <1>1, <1>8 DEF Surroundings, TimePasses, TtlPasses, AgentPresence, PrinterPresence,
     GatewayRestart, Row
<1>9. CASE UNCHANGED <<row, issued>>
  BY <1>9
<1> QED
  BY <1>1, <1>2, <1>3, <1>4, <1>5, <1>6, <1>7, <1>8, <1>9 DEF GatewayNext, PollSnapshot,
     Delivering, PushSend, PushFails, AnyReport, PatchRead, gatewayVars

(* A new token goes to a candidate.                                         *)
CandidatesClaimed ==
  \A j \in Jobs : issued'[j] # issued[j] => StaleCandidate(j) \/ QueuedCandidate(j)

(* So it is while no row changes between a poll's choice and its claim.     *)
LEMMA OnlyCandidates ==
  ASSUME "snapshot" \notin Faults, ProtocolInv, [Next]_vars
  PROVE  CandidatesClaimed
<1> SUFFICES ASSUME NEW j \in Jobs, issued'[j] # issued[j]
             PROVE  StaleCandidate(j) \/ QueuedCandidate(j)
  BY DEF CandidatesClaimed
<1> USE DEF ProtocolInv, GatewayInv, TablesInv, GatewayTypeOK
<1>1. CASE \E S \in SUBSET Jobs : AnswerPoll(S)
  BY <1>1 DEF AnswerPoll, PollClaim
<1>2. CASE \E p \in Pushers, k \in Jobs : WsClaim(p, k)
  BY <1>2 DEF WsClaim
<1>3. CASE GatewayAlone
  BY <1>2, <1>3 DEF GatewayAlone, PushFails, MarkDelivered, ReleaseUndelivered, Sweep,
     SweepExpire, SweepRequeue, SweepSilent, SweepPrinting, SweepExhausted, TimePasses,
     TtlPasses, AgentPresence, PrinterPresence
<1>4. CASE Serving
  BY <1>1, <1>3, <1>4 DEF Serving, PushToSocket, PushSend, StartPoll, PollSnapshot, ReceiveAck,
     RecordAck, Heartbeat, KeepAlive, ServerError, ServeRead, PatchRead, ServeWrite,
     PatchWrite, GatewayDies, GatewayRestart, gatewayVars
<1> QED
  BY <1>4, AgentLeavesGateway DEF Next, AgentMoves, vars, gatewayVars

DeniedBy(h, j) == /\ patch[h] # Idle /\ patch[h].job = j /\ patch[h].token = issued[j]
                  /\ Denial(patch[h].to, patch[h].error)

(* A row past queued and claimed is called not_printed only on the word of  *)
(* a report of its newest attempt, and so is one that was printed called    *)
(* anything else.                                                          *)
LEMMA OnlyDenialsDeny ==
  ASSUME GatewayInv, ReportsInv, [GatewayNext]_gatewayVars, CandidatesClaimed, NEW j \in Jobs,
         row[j].status \notin {"queued", "claimed"},
         \A h \in Handlers : ~DeniedBy(h, j)
  PROVE  /\ NotPrinted(j)' => NotPrinted(j)
         /\ row[j].status \in TerminalStatuses => row'[j].status \in TerminalStatuses
         /\ row[j].status = "success" => row'[j].status = "success"
<1> DEFINE Goal == /\ NotPrinted(j)' => NotPrinted(j)
                   /\ row[j].status \in TerminalStatuses => row'[j].status \in TerminalStatuses
                   /\ row[j].status = "success" => row'[j].status = "success"
<1> USE DEF GatewayInv, TablesInv, GatewayTypeOK, NotPrinted, PhysicalOutcome
<1>1. row[j] \in Row /\ row[j].status \in Statuses
  BY DEF Row
<1>2. CASE row'[j].status = row[j].status /\ row'[j].error = row[j].error
  BY <1>2
<1>3. ASSUME NEW p \in Pushers,
             (\E k \in Jobs : WsClaim(p, k)) \/ MarkDelivered(p) \/ ReleaseUndelivered(p)
      PROVE  Goal
  <2>1. CASE \E k \in Jobs : WsClaim(p, k)
    BY <1>1, <1>2, <2>1 DEF WsClaim, QueuedCandidate, Row
  <2>2. CASE MarkDelivered(p)
    BY <1>1, <1>2, <2>2 DEF MarkDelivered, Row
  <2>3. CASE ReleaseUndelivered(p)
    BY <1>1, <1>2, <2>3 DEF ReleaseUndelivered, Row
  <2> QED
    BY <1>3, <2>1, <2>2, <2>3
<1>4. ASSUME NEW S \in SUBSET Jobs, PollClaim(S)
      PROVE  Goal
  <2>1. j \notin S
    BY <1>4 DEF CandidatesClaimed, PollClaim, StaleCandidate, QueuedCandidate
  <2> QED
    BY <1>2, <1>4, <2>1 DEF PollClaim
<1>5. ASSUME NEW k \in Jobs, NEW t \in 1 .. issued[k], RecordAck(k, t) \/ KeepAlive(k, t)
      PROVE  Goal
  <2>1. CASE RecordAck(k, t)
    BY <1>1, <1>2, <2>1 DEF RecordAck, Row
  <2>2. CASE KeepAlive(k, t)
    BY <1>1, <1>2, <2>2 DEF KeepAlive, Row
  <2> QED
    BY <1>5, <2>1, <2>2
<1>6. ASSUME NEW h \in Handlers, PatchWrite(h)
      PROVE  Goal
  <2>1. CASE row'[j] = row[j]
    BY <1>2, <2>1
  <2>2. CASE row'[j] # row[j]
    <3>1. /\ patch[h] # Idle /\ patch[h].job = j /\ FenceHolds(patch[h])
          /\ row'[j] = IF patch[h].to = "queued" THEN Handback(row[j], patch[h])
                       ELSE Reported(row[j], patch[h])
      BY <1>1, <1>6, <2>2 DEF PatchWrite
    <3>2. /\ row'[j].status = patch[h].to /\ row'[j].error = patch[h].error
          /\ row[j].status = patch[h].expect /\ row[j].token = patch[h].token
      BY <1>1, <3>1 DEF Handback, Reported, Row, FenceHolds
    <3>3. ~Denial(patch[h].to, patch[h].error)
      <4>1. RowInv(row[j], issued[j])
        BY DEF RowsInv
      <4> QED
        BY <3>1, <3>2, <4>1 DEF DeniedBy, ReportsInv, RowInv
    <3>4. CASE patch[h].to = "success"
      BY <3>2, <3>4 DEF TerminalStatuses
    <3>5. CASE patch[h].to = "failed"
      BY <3>1, <3>2, <3>3, <3>5 DEF Denial, ReportsInv, TerminalStatuses
    <3> QED
      BY <3>1, <3>2, <3>3, <3>4, <3>5 DEF ReportsInv, Denial
  <2> QED
    BY <2>1, <2>2
<1>7. CASE Sweep
  <2>1. CASE SweepExpire
    BY <1>1, <1>2, <2>1 DEF SweepExpire, Row, TerminalStatuses, Statuses, UnknownMarkers
  <2>2. CASE SweepRequeue
    BY <1>1, <1>2, <2>2 DEF SweepRequeue, Row
  <2>3. CASE SweepSilent
    BY <1>1, <1>2, <2>3 DEF SweepSilent, Row
  <2>4. CASE SweepPrinting
    BY <1>1, <1>2, <2>4 DEF SweepPrinting, Row, TerminalStatuses, UnknownMarkers
  <2>5. CASE SweepExhausted
    BY <1>1, <1>2, <2>5 DEF SweepExhausted, Row
  <2> QED
    BY <1>7, <2>1, <2>2, <2>3, <2>4, <2>5 DEF Sweep
<1>8. CASE Surroundings
  BY <1>1, <1>2, <1>8 DEF Surroundings, TimePasses, TtlPasses, AgentPresence, PrinterPresence,
     GatewayRestart, Row
<1> QED
  BY <1>2, <1>3, <1>4, <1>5, <1>6, <1>7, <1>8 DEF GatewayNext, PollSnapshot, Delivering,
     PushSend, PushFails, AnyReport, PatchRead, gatewayVars

(* What is said of a job that ended is never taken back: it does not open   *)
(* again, and does not become unknown.                                     *)
LEMMA EndedStaysSettled ==
  ASSUME GatewayInv, ReportsInv, [GatewayNext]_gatewayVars, CandidatesClaimed, NEW j \in Jobs,
         row[j].status \in TerminalStatuses
  PROVE  /\ row'[j].status \in TerminalStatuses
         /\ PhysicalOutcome(row'[j].status, row'[j].error) = "unknown" =>
              PhysicalOutcome(row[j].status, row[j].error) \in {"unknown", "printed"}
<1> DEFINE Goal == /\ row'[j].status \in TerminalStatuses
                   /\ PhysicalOutcome(row'[j].status, row'[j].error) = "unknown" =>
                        PhysicalOutcome(row[j].status, row[j].error) \in {"unknown", "printed"}
<1> USE DEF GatewayInv, TablesInv, GatewayTypeOK, PhysicalOutcome, TerminalStatuses
<1>0. row \in [Jobs -> Row]
  OBVIOUS
<1>1. row[j] \in Row
  BY <1>0
<1>2. ASSUME row'[j].status = row[j].status, row'[j].error = row[j].error
      PROVE  Goal
  BY <1>2
<1>3. ASSUME NEW p \in Pushers,
             (\E k \in Jobs : WsClaim(p, k)) \/ MarkDelivered(p) \/ ReleaseUndelivered(p)
      PROVE  Goal
  <2>1. CASE \E k \in Jobs : WsClaim(p, k)
    BY <1>1, <1>2, <2>1 DEF WsClaim, QueuedCandidate, Row
  <2>2. CASE MarkDelivered(p)
    <3> HIDE DEF GatewayInv, TablesInv, GatewayTypeOK, PhysicalOutcome, TerminalStatuses, Goal
    <3>1. \/ row' = row
          \/ row' = [row EXCEPT ![push[p].job].evidence = Stamped(@), ![push[p].job].age = 0]
      BY <2>2 DEF MarkDelivered
    <3>2. row'[j].status = row[j].status /\ row'[j].error = row[j].error
      BY <1>0, <1>1, <3>1 DEF Row
    <3> QED
      BY <1>2, <3>2
  <2>3. CASE ReleaseUndelivered(p)
    BY <1>1, <1>2, <2>3 DEF ReleaseUndelivered, Row
  <2> QED
    BY <1>3, <2>1, <2>2, <2>3
<1>4. ASSUME NEW S \in SUBSET Jobs, PollClaim(S)
      PROVE  Goal
  <2>1. j \notin S
    BY <1>4 DEF CandidatesClaimed, PollClaim, StaleCandidate, QueuedCandidate
  <2> QED
    BY <1>2, <1>4, <2>1 DEF PollClaim
<1>5. ASSUME NEW k \in Jobs, NEW t \in 1 .. issued[k], RecordAck(k, t) \/ KeepAlive(k, t)
      PROVE  Goal
  <2>1. CASE RecordAck(k, t)
    BY <1>1, <1>2, <2>1 DEF RecordAck, Row
  <2>2. CASE KeepAlive(k, t)
    BY <1>1, <1>2, <2>2 DEF KeepAlive, Row
  <2> QED
    BY <1>5, <2>1, <2>2
<1>6. ASSUME NEW h \in Handlers, PatchWrite(h)
      PROVE  Goal
  <2>1. CASE row'[j] = row[j]
    BY <1>2, <2>1
  <2>2. CASE row'[j] # row[j]
    <3>1. /\ patch[h] # Idle /\ patch[h].job = j /\ FenceHolds(patch[h])
          /\ row'[j] = IF patch[h].to = "queued" THEN Handback(row[j], patch[h])
                       ELSE Reported(row[j], patch[h])
      BY <1>1, <1>6, <2>2 DEF PatchWrite
    <3>2. /\ row'[j].status = patch[h].to /\ row'[j].error = patch[h].error
          /\ row[j].status = patch[h].expect
      BY <1>1, <3>1 DEF Handback, Reported, Row, FenceHolds
    <3>3. \/ patch[h].to = "success"
          \/ patch[h].to = "expired" /\ patch[h].error = "none"
      BY <3>1, <3>2 DEF ReportsInv
    <3> QED
      BY <3>2, <3>3 DEF UnknownMarkers
  <2> QED
    BY <2>1, <2>2
<1>7. CASE Sweep
  <2>1. CASE SweepExpire
    BY <1>1, <1>2, <2>1 DEF SweepExpire, Row
  <2>2. CASE SweepRequeue
    BY <1>1, <1>2, <2>2 DEF SweepRequeue, Row
  <2>3. CASE SweepSilent
    BY <1>1, <1>2, <2>3 DEF SweepSilent, Row
  <2>4. CASE SweepPrinting
    BY <1>1, <1>2, <2>4 DEF SweepPrinting, Row
  <2>5. CASE SweepExhausted
    BY <1>1, <1>2, <2>5 DEF SweepExhausted, Row
  <2> QED
    BY <1>7, <2>1, <2>2, <2>3, <2>4, <2>5 DEF Sweep
<1>8. CASE Surroundings
  BY <1>1, <1>2, <1>8 DEF Surroundings, TimePasses, TtlPasses, AgentPresence, PrinterPresence,
     GatewayRestart, Row
<1> QED
  BY <1>2, <1>3, <1>4, <1>5, <1>6, <1>7, <1>8 DEF GatewayNext, PollSnapshot, Delivering,
     PushSend, PushFails, AnyReport, PatchRead, gatewayVars

-----------------------------------------------------------------------------
(* The Gateway's steps *)

(* The reports, handlers and answers a step of the Gateway leaves behind.  *)
LEMMA HandlersQuote ==
  ASSUME ProtocolInv, Serving, NEW h \in Handlers, patch'[h] # Idle
  PROVE  \/ patch'[h] = patch[h]
         \/ \E m \in reports :
              patch'[h] = [job |-> m.job, expect |-> row[m.job].status, to |-> m.want,
                           token |-> m.token,
                           error |-> PatchError(row[m.job], m.want, m.error)]
              /\ PatchAdmits(row[m.job], m.want, m.token)
<1> USE DEF ProtocolInv, GatewayInv, TablesInv, GatewayTypeOK
<1>1. ASSUME NEW g \in Handlers, NEW m \in reports, ServeRead(g, m), patch' # patch
      PROVE  \/ patch'[h] = patch[h]
             \/ /\ patch'[h] = [job |-> m.job, expect |-> row[m.job].status, to |-> m.want,
                                token |-> m.token,
                                error |-> PatchError(row[m.job], m.want, m.error)]
                /\ PatchAdmits(row[m.job], m.want, m.token)
  BY <1>1 DEF ServeRead, PatchRead, gatewayVars
<1>2. ASSUME NEW g \in Handlers, ServeWrite(g)
      PROVE  patch'[h] = patch[h]
  BY <1>2 DEF ServeWrite, PatchWrite
<1>3. CASE GatewayAlone
  BY <1>3 DEF GatewayAlone, WsClaim, PushFails, MarkDelivered, ReleaseUndelivered, Sweep,
     SweepExpire, SweepRequeue, SweepSilent, SweepPrinting, SweepExhausted, TimePasses,
     TtlPasses, AgentPresence, PrinterPresence
<1>4. CASE patch' = patch
  BY <1>4
<1>5. CASE GatewayDies
  BY <1>5 DEF GatewayDies, GatewayRestart
<1> QED
  BY <1>1, <1>2, <1>3, <1>4, <1>5 DEF Serving, PushToSocket, PushSend, StartPoll, PollSnapshot,
     AnswerPoll, PollClaim, ReceiveAck, RecordAck, gatewayVars, Heartbeat, KeepAlive, ServerError

(* Agent-side state a step of the Gateway leaves alone. *)
LEMMA ServingFrame ==
  ASSUME Serving
  PROVE  /\ UNCHANGED <<life, held, fresh, task, phase, asked, ledger, paper>>
         /\ reports' \subseteq reports
BY DEF Serving, PushToSocket, StartPoll, AnswerPoll, ReceiveAck, Heartbeat, ServerError,
   ServeRead, ServeWrite, GatewayAlone, GatewayDies, OnlyReply, agentVars, networkVars

(* A denial is not invented by the Gateway, and none is about a new token. *)
LEMMA ServingDenials ==
  ASSUME ProtocolInv, ReportsInv, Serving, NEW j \in Jobs, Denied(j)'
  PROVE  issued'[j] = issued[j] /\ Denied(j)
<1> USE DEF ProtocolInv, GatewayInv, TablesInv
<1>1. /\ issued[j] \in Nat /\ issued'[j] \in Nat
      /\ issued'[j] = issued[j] \/ issued'[j] = issued[j] + 1
  BY GatewayStep, SettledStays DEF Next
<1>2. ASSUME NEW m \in reports, m.job = j, m.token = issued'[j], Denial(m.want, m.error)
      PROVE  issued'[j] = issued[j] /\ Denied(j)
  BY <1>1, <1>2 DEF TokensInv, Denied
<1>3. ASSUME NEW h \in Handlers, patch'[h] # Idle, patch'[h].job = j,
             patch'[h].token = issued'[j], Denial(patch'[h].to, patch'[h].error)
      PROVE  issued'[j] = issued[j] /\ Denied(j)
  <2>1. CASE patch'[h] = patch[h]
    BY <1>1, <1>3, <2>1 DEF ReportsInv, Denied
  <2>2. ASSUME NEW m \in reports,
               patch'[h] = [job |-> m.job, expect |-> row[m.job].status, to |-> m.want,
                            token |-> m.token,
                            error |-> PatchError(row[m.job], m.want, m.error)]
        PROVE  issued'[j] = issued[j] /\ Denied(j)
    <3>1. Denial(m.want, m.error)
      BY <1>3, <2>2 DEF Denial, PatchError
    <3> QED
      BY <1>2, <1>3, <2>2, <3>1
  <2> QED
    BY <1>3, <2>1, <2>2, HandlersQuote
<1> QED
  BY <1>2, <1>3, ServingFrame DEF Denied

(* A token is sent out by the step that makes it, and only then. *)
LEMMA ServingPending ==
  ASSUME ProtocolInv, ReportsInv, Serving, NEW j \in Jobs, issued'[j] = issued[j], Pending(j)'
  PROVE  Pending(j)
<1> USE DEF ProtocolInv, GatewayInv, TablesInv, GatewayTypeOK, Pending, NewestIn, PushesNewest
<1>1. ASSUME NEW p \in Pushers, PushToSocket(p)
      PROVE  Pending(j)
  <2>1. CASE NewestIn(frames, j)' /\ ~NewestIn(frames, j)
    BY <1>1, <2>1 DEF PushToSocket, PushSend
  <2>2. ASSUME NEW q \in Pushers, PushesNewest(q, j)'
        PROVE  PushesNewest(q, j)
    <3>1. q # p
      <4>1. push[p] \in Delivery
        BY <1>1 DEF PushToSocket, PushSend
      <4> QED
        BY <1>1, <2>2, <4>1 DEF PushToSocket, PushSend, Delivery
    <3> QED
      BY <1>1, <2>2, <3>1 DEF PushToSocket, PushSend
  <2>3. polled' = polled
    BY <1>1 DEF PushToSocket
  <2> QED
    BY <2>1, <2>2, <2>3
<1>2. ASSUME NEW S \in SUBSET Jobs, AnswerPoll(S)
      PROVE  Pending(j)
  <2>1. j \notin S
    BY <1>2 DEF AnswerPoll, PollClaim
  <2> QED
    BY <1>2, <2>1 DEF AnswerPoll, PollClaim
<1>3. CASE /\ UNCHANGED <<frames, polled>>
           /\ \A p \in Pushers : PushesNewest(p, j)' => PushesNewest(p, j)
  BY <1>3
<1>4. ASSUME NEW p \in Pushers, NEW k \in Jobs, WsClaim(p, k), UNCHANGED <<frames, polled>>
      PROVE  Pending(j)
  <2>1. k # j
    BY <1>4 DEF WsClaim
  <2> QED
    BY <1>3, <1>4, <2>1 DEF WsClaim
<1>5. ASSUME NEW p \in Pushers, UNCHANGED <<frames, polled>>,
             PushFails(p) \/ MarkDelivered(p) \/ ReleaseUndelivered(p)
      PROVE  Pending(j)
  <2>1. push[p] \in Delivery /\ UNCHANGED issued
    BY <1>5 DEF PushFails, MarkDelivered, ReleaseUndelivered
  <2>2. \A q \in Pushers : q # p => push'[q] = push[q]
    BY <1>5 DEF PushFails, MarkDelivered, ReleaseUndelivered
  <2>3. push'[p] = Idle \/ push'[p].step # "claimed" \/ push'[p] = push[p]
    BY <1>5, <2>1 DEF PushFails, MarkDelivered, ReleaseUndelivered, Delivery
  <2> QED
    BY <1>3, <1>5, <2>1, <2>2, <2>3
<1>6. CASE UNCHANGED <<issued, push, frames, polled>>
  BY <1>6
<1>7. CASE GatewayDies
  BY <1>7 DEF GatewayDies, GatewayRestart
<1>8. CASE GatewayAlone
  BY <1>4, <1>5, <1>6, <1>8 DEF GatewayAlone, networkVars, Sweep, SweepExpire, SweepRequeue,
     SweepSilent, SweepPrinting, SweepExhausted, TimePasses, TtlPasses, AgentPresence,
     PrinterPresence
<1> QED
  BY <1>1, <1>2, <1>6, <1>7, <1>8 DEF Serving, StartPoll, PollSnapshot, ReceiveAck, RecordAck,
     Heartbeat, KeepAlive, ServerError, ServeRead, PatchRead, ServeWrite, PatchWrite, OnlyReply, gatewayVars, networkVars

LEMMA ServingReports ==
  ASSUME ProtocolInv, ReportsInv, Serving
  PROVE  ReportsInv'
<1> USE DEF ProtocolInv, GatewayInv, TablesInv, GatewayTypeOK
<1>1. /\ issued \in [Jobs -> Nat] /\ issued' \in [Jobs -> Nat]
      /\ \A j \in Jobs : issued[j] <= issued'[j]
  BY GatewayStep, TokensGrow DEF Next
<1>2. ASSUME NEW h \in Handlers, patch'[h] # Idle
      PROVE  /\ patch'[h].token \in 0 .. issued'[patch'[h].job]
             /\ Denial(patch'[h].to, patch'[h].error) => patch'[h].token # 0
             /\ \/ patch'[h].to = "expired"
                \/ patch'[h].to = "success"
                \/ patch'[h].to = "failed" /\ patch'[h].expect \in {"claimed", "printing"}
                \/ patch'[h].to \in {"queued", "printing"} /\ patch'[h].expect = "claimed"
             /\ patch'[h].to = "success" =>
                  patch'[h].expect \in {"printing", "failed", "expired"}
             /\ patch'[h].to = "expired" /\ patch'[h].expect \in TerminalStatuses =>
                  patch'[h].error = "none"
  <2>1. CASE patch'[h] = patch[h]
    <3>1. patch[h] \in FencedWrite
      BY <1>2, <2>1
    <3>2. patch[h].job \in Jobs /\ patch[h].token \in 0 .. issued[patch[h].job]
      BY <1>2, <2>1, <3>1 DEF ReportsInv, FencedWrite
    <3>3. patch[h].token \in 0 .. issued'[patch[h].job]
      <4>1. \A a, b \in Nat : a <= b => \A t \in 0 .. a : t \in 0 .. b
        OBVIOUS
      <4> QED
        BY <1>1, <3>2, <4>1
    <3> QED
      BY <1>2, <2>1, <3>3 DEF ReportsInv
  <2>2. ASSUME NEW m \in reports,
               patch'[h] = [job |-> m.job, expect |-> row[m.job].status, to |-> m.want,
                            token |-> m.token,
                            error |-> PatchError(row[m.job], m.want, m.error)],
               PatchAdmits(row[m.job], m.want, m.token)
        PROVE  /\ patch'[h].token \in 0 .. issued'[patch'[h].job]
               /\ Denial(patch'[h].to, patch'[h].error) => patch'[h].token # 0
               /\ \/ patch'[h].to = "expired"
                  \/ patch'[h].to = "success"
                  \/ patch'[h].to = "failed" /\ patch'[h].expect \in {"claimed", "printing"}
                  \/ patch'[h].to \in {"queued", "printing"} /\ patch'[h].expect = "claimed"
               /\ patch'[h].to = "success" =>
                    patch'[h].expect \in {"printing", "failed", "expired"}
               /\ patch'[h].to = "expired" /\ patch'[h].expect \in TerminalStatuses =>
                    patch'[h].error = "none"
    <3>1. m.job \in Jobs /\ m.token \in 0 .. issued[m.job] /\ m.want \in Statuses
      BY DEF TokensInv, TypeOK, Report
    <3>2. m.token \in 0 .. issued'[m.job]
      <4>1. \A a, b \in Nat : a <= b => \A t \in 0 .. a : t \in 0 .. b
        OBVIOUS
      <4> QED
        BY <1>1, <3>1, <4>1
    <3>3. row[m.job].status \in Statuses
      BY <3>1 DEF Row
    <3>4. Denial(m.want, PatchError(row[m.job], m.want, m.error)) => Denial(m.want, m.error)
      BY DEF Denial, PatchError
    <3>5. m.want # "expired" =>
            \/ CanTransition(row[m.job].status, m.want)
            \/ m.want = "success" /\ row[m.job].status \in {"failed", "expired"}
      BY <2>2 DEF PatchAdmits, LateSuccessAllowed, ExpiredLateSuccessAllowed
    <3>6. CanTransition(row[m.job].status, m.want) =>
            \/ row[m.job].status = "claimed" /\ m.want \in {"printing", "failed", "queued"}
            \/ row[m.job].status = "printing" /\ m.want \in {"success", "failed"}
      BY <3>3 DEF CanTransition, AllowedTransitions, Statuses, TerminalStatuses
    <3>7. m.want = "expired" /\ row[m.job].status \in TerminalStatuses =>
            PatchError(row[m.job], m.want, m.error) = "none"
      BY DEF PatchError, TerminalStatuses
    <3> QED
      BY <2>2, <3>2, <3>4, <3>5, <3>6, <3>7 DEF ReportsInv
  <2> QED
    BY <1>2, <2>1, <2>2, HandlersQuote
<1>3. \A j \in Jobs : phase[j] = "asking" => asked[j].token \in 0 .. issued'[j]
  <2>1. \A a, b \in Nat : a <= b => \A t \in 0 .. a : t \in 0 .. b
    OBVIOUS
  <2> QED
    BY <1>1, <2>1 DEF ReportsInv
<1> QED
  BY <1>2, <1>3, ServingFrame DEF ReportsInv

LEMMA ServingOnce ==
  ASSUME ProtocolInv, ReportsInv, OnceInv, Serving
  PROVE  OnceInv'
<1> USE DEF ProtocolInv, GatewayInv, TablesInv, GatewayTypeOK, NewestIn, PushesNewest
<1>1. CASE /\ UNCHANGED issued
           /\ frames' \subseteq frames /\ polled' \subseteq polled
           /\ \A p \in Pushers, j \in Jobs : PushesNewest(p, j)' => PushesNewest(p, j)
  BY <1>1 DEF OnceInv
<1>2. ASSUME NEW p \in Pushers, PushToSocket(p)
      PROVE  OnceInv'
  <2>1. /\ push[p] \in Delivery /\ push[p].step = "claimed" /\ UNCHANGED <<issued, polled>>
        /\ push' = [push EXCEPT ![p].step = "sent"]
        /\ frames' \subseteq frames \cup {[job |-> push[p].job, token |-> push[p].token]}
    BY <1>2 DEF PushToSocket, PushSend
  <2>2. \A q \in Pushers, j \in Jobs : PushesNewest(q, j)' => PushesNewest(q, j) /\ q # p
    BY <2>1 DEF Delivery
  <2>3. \A j \in Jobs : NewestIn(frames, j)' => NewestIn(frames, j) \/ PushesNewest(p, j)
    BY <1>2, <2>1 DEF PushToSocket, PushSend
  <2> QED
    BY <2>1, <2>2, <2>3 DEF OnceInv
(* A fresh token is nowhere else. *)
<1>3. \A j \in Jobs : /\ issued[j] \in Nat
                     /\ ~([job |-> j, token |-> issued[j] + 1] \in frames \cup polled)
                     /\ \A q \in Pushers : push[q] # Idle /\ push[q].job = j =>
                          push[q].token # issued[j] + 1
  BY DEF TokensInv, PushInv
<1>4. ASSUME NEW p \in Pushers, NEW k \in Jobs, WsClaim(p, k), UNCHANGED <<frames, polled>>
      PROVE  OnceInv'
  <2>1. /\ push[p] = Idle /\ issued' = [issued EXCEPT ![k] = @ + 1]
        /\ push' = [push EXCEPT ![p] = [job |-> k, token |-> issued[k] + 1,
                                       step |-> "claimed"]]
    BY <1>4 DEF WsClaim
  <2>2. ASSUME NEW j \in Jobs, j # k
        PROVE  /\ issued'[j] = issued[j]
               /\ \A q \in Pushers : PushesNewest(q, j)' => PushesNewest(q, j)
    BY <2>1, <2>2
  <2>3. \A q \in Pushers : PushesNewest(q, k)' => q = p
    BY <1>3, <2>1
  <2>4. ~NewestIn(frames, k)' /\ ~NewestIn(polled, k)'
    BY <1>3, <1>4, <2>1
  <2> QED
    BY <1>4, <2>2, <2>3, <2>4 DEF OnceInv
<1>5. ASSUME NEW S \in SUBSET Jobs, AnswerPoll(S)
      PROVE  OnceInv'
  <2>1. /\ issued' = [j \in Jobs |-> IF j \in S THEN issued[j] + 1 ELSE issued[j]]
        /\ UNCHANGED <<frames, push>>
        /\ polled' \subseteq polled \cup {[job |-> j, token |-> issued'[j]] : j \in S}
    BY <1>5 DEF AnswerPoll, PollClaim
  <2>2. ASSUME NEW j \in Jobs, j \notin S
        PROVE  /\ NewestIn(frames, j)' => NewestIn(frames, j)
               /\ NewestIn(polled, j)' => NewestIn(polled, j)
               /\ \A q \in Pushers : PushesNewest(q, j)' => PushesNewest(q, j)
    BY <2>1, <2>2
  <2>3. ASSUME NEW j \in S
        PROVE  /\ ~NewestIn(frames, j)'
               /\ \A q \in Pushers : ~PushesNewest(q, j)'
    BY <1>3, <2>1
  <2>4. ASSUME NEW j \in Jobs
        PROVE  /\ ~(NewestIn(frames, j)' /\ NewestIn(polled, j)')
               /\ \A p \in Pushers : PushesNewest(p, j)' =>
                    /\ ~NewestIn(frames, j)' /\ ~NewestIn(polled, j)'
                    /\ \A q \in Pushers : PushesNewest(q, j)' => q = p
    <3>1. CASE j \in S
      <4> HIDE DEF NewestIn, PushesNewest
      <4> QED
        BY <2>3, <3>1
    <3>2. CASE j \notin S
      <4> HIDE DEF NewestIn, PushesNewest
      <4> QED
        BY <2>2, <3>2 DEF OnceInv
    <3> QED
      BY <3>1, <3>2
  <2> HIDE DEF NewestIn, PushesNewest
  <2> QED
    BY <2>4 DEF OnceInv
<1>6. ASSUME NEW p \in Pushers, UNCHANGED <<frames, polled>>,
             PushFails(p) \/ MarkDelivered(p) \/ ReleaseUndelivered(p)
      PROVE  OnceInv'
  <2>1. push[p] \in Delivery /\ UNCHANGED issued
    BY <1>6 DEF PushFails, MarkDelivered, ReleaseUndelivered
  <2>2. \A q \in Pushers : q # p => push'[q] = push[q]
    BY <1>6 DEF PushFails, MarkDelivered, ReleaseUndelivered
  <2>3. push'[p] = Idle \/ push'[p].step # "claimed" \/ push'[p] = push[p]
    BY <1>6, <2>1 DEF PushFails, MarkDelivered, ReleaseUndelivered, Delivery
  <2> QED
    BY <1>1, <1>6, <2>1, <2>2, <2>3
<1>7. CASE UNCHANGED <<issued, push, frames, polled>>
  BY <1>1, <1>7
<1>8. CASE GatewayDies
  BY <1>1, <1>8 DEF GatewayDies, GatewayRestart
<1>9. CASE GatewayAlone
  BY <1>4, <1>6, <1>7, <1>9 DEF GatewayAlone, networkVars, Sweep, SweepExpire, SweepRequeue,
     SweepSilent, SweepPrinting, SweepExhausted, TimePasses, TtlPasses, AgentPresence,
     PrinterPresence
<1> QED
  BY <1>2, <1>5, <1>7, <1>8, <1>9 DEF Serving, StartPoll, PollSnapshot, ReceiveAck, RecordAck,
     Heartbeat, KeepAlive, ServerError, ServeRead, PatchRead, ServeWrite, PatchWrite, OnlyReply, gatewayVars, networkVars

(* "ok" to a printing report comes with a printing row, for the newest      *)
(* token only.                                                             *)
LEMMA OnlyNewestIsCleared ==
  ASSUME ProtocolInv, Serving, NEW j \in Jobs,
         asked[j].want = "printing", reply[j] # "ok", reply'[j] = "ok"
  PROVE  /\ row'[j].status = "printing"
         /\ asked[j].token = issued[j]
         /\ issued'[j] = issued[j]
<1> USE DEF ProtocolInv, GatewayInv, TablesInv, GatewayTypeOK
<1>0. reply \in [Jobs -> {"none", "ok", "refused"}]
  BY DEF TypeOK
<1>1. PICK h \in Handlers : ServeWrite(h)
  <2>1. reply' # reply
    OBVIOUS
  <2>2. ASSUME NEW h \in Handlers, NEW m \in reports, ServeRead(h, m)
        PROVE  FALSE
    BY <1>0, <2>2 DEF ServeRead, Answered
  <2>3. ASSUME NEW k \in Jobs, ServerError(k)
        PROVE  FALSE
    BY <1>0, <2>3 DEF ServerError
  <2> QED
    BY <2>1, <2>2, <2>3 DEF Serving, PushToSocket, StartPoll, AnswerPoll, ReceiveAck, Heartbeat,
       GatewayAlone, GatewayDies, agentVars
<1>2. /\ patch[h].job = j /\ FenceHolds(patch[h]) /\ patch[h] # Idle
      /\ asked[j] = [want |-> patch[h].to, token |-> patch[h].token]
  BY <1>0, <1>1 DEF ServeWrite, PatchWrite, Answered
<1>7. asked[j].want = patch[h].to /\ asked[j].token = patch[h].token
  BY <1>2
<1>3. patch[h].to = "printing" /\ patch[h].expect = "claimed"
  BY <1>2, <1>7 DEF PatchInv
<1>4. row[j] \in Row /\ RowInv(row[j], issued[j])
  BY DEF RowsInv
<1>5. row[j].token = issued[j] /\ row[j].token = patch[h].token
  BY <1>2, <1>3, <1>4 DEF FenceHolds, RowInv
<1>6. row'[j].status = "printing" /\ issued' = issued
  BY <1>1, <1>2, <1>3, <1>4 DEF ServeWrite, PatchWrite, Reported, Row
<1> HIDE DEF ProtocolInv, GatewayInv, TablesInv, GatewayTypeOK
<1> QED
  BY <1>3, <1>5, <1>6, <1>7

LEMMA ServingHonest ==
  ASSUME Answering, ProtocolInv, HonestInv, Serving
  PROVE  HonestInv'
<1> USE DEF ProtocolInv, GatewayInv, TablesInv, GatewayTypeOK
<1>a. ReportsInv /\ OnceInv /\ \A j \in Jobs : Honest(j)
  BY DEF HonestInv
<1>b. UNCHANGED <<held, phase, asked, paper>>
  BY ServingFrame
<1>c. CandidatesClaimed
  BY OnlyCandidates DEF Answering, Next
<1>1. ASSUME NEW j \in Jobs
      PROVE  Honest(j)'
  <2>1. /\ issued[j] \in Nat
        /\ held[j] \in 0 .. issued[j]
        /\ phase[j] = "asking" => asked[j].token \in 0 .. issued[j]
    BY <1>a DEF TokensInv, ReportsInv
  <2>2. /\ row[j].status \notin {"queued", "claimed"} =>
             row'[j].status \notin {"queued", "claimed"}
        /\ \/ issued'[j] = issued[j]
           \/ issued'[j] = issued[j] + 1 /\ row[j].status \in {"queued", "claimed"}
    <3>1. issued'[j] # issued[j] => Open(row[j])
      BY <1>c DEF CandidatesClaimed, StaleCandidate, QueuedCandidate, Open
    <3> QED
      BY <3>1, GatewayStep, SettledStays DEF Next, Open
  <2>3. issued'[j] = issued[j] /\ Pending(j)' => Pending(j)
    BY <1>a, ServingPending
  <2>4. Denied(j)' => issued'[j] = issued[j] /\ Denied(j)
    BY <1>a, ServingDenials
  <2>5. Engaged(j)' /\ ~Engaged(j) =>
          /\ phase[j] = "asking" /\ row'[j].status = "printing"
          /\ asked[j].token = issued[j] /\ issued'[j] = issued[j]
    BY <1>a, <1>b, OnlyNewestIsCleared DEF Engaged, ReportsInv
  <2>6. Honest(j)
    BY <1>a
  <2>7. (held[j] = issued[j] \/ (phase[j] = "asking" /\ asked[j].token = issued[j]) => ~Pending(j))'
    BY <1>b, <2>1, <2>2, <2>3, <2>6 DEF Honest
  <2>8. (Engaged(j) => /\ row[j].status \notin {"queued", "claimed"}
                       /\ ~Pending(j)
                       /\ held[j] = issued[j] => phase[j] \notin {"backlog", "waiting"})'
    <3>1. CASE Engaged(j)
      BY <1>b, <2>2, <2>3, <2>6, <3>1 DEF Honest
    <3>2. CASE ~Engaged(j)
      BY <1>b, <2>3, <2>5, <2>6, <3>2 DEF Honest
    <3> QED
      BY <3>1, <3>2
  <2>9. (Denied(j) => /\ ~Engaged(j)
                      /\ ~Pending(j)
                      /\ held[j] = issued[j] => phase[j] \notin {"backlog", "waiting"}
                      /\ phase[j] = "asking" => asked[j].token # issued[j])'
    BY <1>b, <2>3, <2>4, <2>5, <2>6 DEF Honest
  <2>10. (NotPrinted(j) => ~Engaged(j))'
    <3>1. CASE Engaged(j)
      <4>1. row[j].status \notin {"queued", "claimed"} /\ ~Denied(j) /\ ~NotPrinted(j)
        BY <2>6, <3>1 DEF Honest
      <4>2. \A h \in Handlers : ~DeniedBy(h, j)
        BY <4>1 DEF Denied, DeniedBy
      <4> QED
        BY <1>a, <1>c, <4>1, <4>2, GatewayStep, OnlyDenialsDeny DEF Next
    <3>2. CASE ~Engaged(j) /\ Engaged(j)'
      BY <2>5, <3>2 DEF NotPrinted, TerminalStatuses
    <3> QED
      BY <3>1, <3>2
  <2> QED
    BY <2>7, <2>8, <2>9, <2>10 DEF Honest
<1> QED
  BY <1>a, <1>1, ServingReports, ServingOnce DEF HonestInv

-----------------------------------------------------------------------------
(* The agent's steps *)

GatewayStill == UNCHANGED <<row, issued, patch, push>>

(* Nothing is sent to the agent by the agent. *)
NothingSent == GatewayStill /\ frames' \subseteq frames /\ polled' \subseteq polled

(* The reports the agent adds deny nothing about a job. *)
NoDenialOf(j) == \A m \in reports' : m.job = j /\ Denial(m.want, m.error) => m \in reports

LEMMA ReceiptOnly ==
  ASSUME NothingSent
  PROVE  /\ \A j \in Jobs : Pending(j)' => Pending(j)
         /\ OnceInv => OnceInv'
         /\ \A j \in Jobs : NoDenialOf(j) /\ Denied(j)' => Denied(j)
BY DEF NothingSent, GatewayStill, Pending, NewestIn, PushesNewest, OnceInv, NoDenialOf, Denied

(* A job whose goroutine does not move. *)
LEMMA OthersStayHonest ==
  ASSUME NothingSent, NEW j \in Jobs, Honest(j), NoDenialOf(j),
         phase'[j] = phase[j], reply'[j] = reply[j], asked'[j] = asked[j],
         paper'[j] = paper[j], held'[j] = held[j]
  PROVE  Honest(j)'
<1>1. (Pending(j)' => Pending(j)) /\ (Denied(j)' => Denied(j))
  BY ReceiptOnly
<1>2. Engaged(j)' <=> Engaged(j)
  BY DEF Engaged
<1>3. NotPrinted(j)' <=> NotPrinted(j)
  BY DEF NotPrinted, NothingSent, GatewayStill
<1>4. issued' = issued /\ row' = row
  BY DEF NothingSent, GatewayStill
<1> QED
  BY <1>1, <1>2, <1>3, <1>4 DEF Honest

(* A goroutine that moves on without a new report. *)
LEMMA MoveStaysHonest ==
  ASSUME NothingSent, NEW j \in Jobs, Honest(j), NoDenialOf(j),
         Engaged(j)' => Engaged(j),
         phase'[j] \in {"backlog", "waiting"} => phase[j] \in {"backlog", "waiting"},
         held'[j] = held[j],
         phase'[j] # "asking"
  PROVE  Honest(j)'
<1>1. (Pending(j)' => Pending(j)) /\ (Denied(j)' => Denied(j))
  BY ReceiptOnly
<1>3. NotPrinted(j)' <=> NotPrinted(j)
  BY DEF NotPrinted, NothingSent, GatewayStill
<1>4. issued' = issued /\ row' = row
  BY DEF NothingSent, GatewayStill
<1> QED
  BY <1>1, <1>3, <1>4 DEF Honest

(* A goroutine that ends forgets its token, which leaves it nothing to do. *)
LEMMA ForgottenIsHonest ==
  ASSUME ProtocolInv, NothingSent, NEW j \in Jobs, Honest(j), NoDenialOf(j),
         held'[j] = 0, phase'[j] = "idle", reply'[j] = "none",
         paper'[j] = paper[j]
  PROVE  Honest(j)'
<1>1. (Pending(j)' => Pending(j)) /\ (Denied(j)' => Denied(j))
  BY ReceiptOnly
<1>2. Engaged(j)' => Engaged(j)
  BY DEF Engaged, AtPrinter
<1>3. NotPrinted(j)' <=> NotPrinted(j)
  BY DEF NotPrinted, NothingSent, GatewayStill
<1>4. issued' = issued /\ row' = row
  BY DEF NothingSent, GatewayStill
<1>5. issued[j] = 0 => ~Pending(j)
  <2>1. \A f \in frames \cup polled : f.token \in 1 .. issued[f.job]
    BY DEF ProtocolInv, TokensInv
  <2>2. \A p \in Pushers : push[p] # Idle => push[p].token \in 1 .. issued[push[p].job]
    BY DEF ProtocolInv, GatewayInv, TablesInv, PushInv
  <2>3. issued[j] \in Nat
    BY DEF ProtocolInv, GatewayInv, TablesInv, GatewayTypeOK
  <2> QED
    BY <2>1, <2>2, <2>3 DEF Pending, NewestIn, PushesNewest
<1> QED
  BY <1>1, <1>2, <1>3, <1>4, <1>5 DEF Honest

(* A goroutine that reports.  It denies only while it has not begun, or when *)
(* it knows nothing was sent.                                              *)
LEMMA ReporterIsHonest ==
  ASSUME ProtocolInv, PaperInv, NothingSent, NEW j \in Jobs, Honest(j),
         NEW want \in Statuses, NEW error \in AgentErrors,
         NEW next \in {"closing", "returning", "asking"},
         ReportAndWait(j, want, error, next),
         UNCHANGED <<held, paper>>,
         Denial(want, error) => phase[j] \in {"backlog", "waiting", "broken"},
         next = "asking" => want = "printing" /\ phase[j] = "waiting"
  PROVE  Honest(j)'
<1> USE DEF ProtocolInv, TypeOK
<1>1. /\ phase'[j] = next /\ reply'[j] = "none"
      /\ asked'[j].token = held[j]
  BY DEF ReportAndWait
<1>2. Pending(j)' => Pending(j)
  BY ReceiptOnly
<1>3. NotPrinted(j)' <=> NotPrinted(j)
  BY DEF NotPrinted, NothingSent, GatewayStill
<1>4. issued' = issued /\ row' = row /\ patch' = patch
  BY DEF NothingSent, GatewayStill
<1>5. Engaged(j)' => paper[j] > 0
  BY <1>1 DEF Engaged, AtPrinter
<1>6. paper[j] > 0 => Engaged(j)
  BY DEF Engaged
<1>7. Denied(j)' => Denied(j) \/ (held[j] = issued[j] /\ Denial(want, error))
  BY <1>4 DEF Denied, ReportAndWait, Send
<1>8. held[j] = issued[j] /\ Denial(want, error) =>
        paper[j] = 0 /\ ~Pending(j) /\ next # "asking"
  <2>1. phase[j] = "broken" => paper[j] = 0
    BY DEF PaperInv
  <2>2. paper[j] \in Nat
    OBVIOUS
  <2> QED
    BY <1>6, <2>1, <2>2 DEF Honest, Denial
<1>9. Denied(j) => /\ ~Engaged(j) /\ ~Pending(j)
                   /\ next = "asking" => held[j] # issued[j]
  BY DEF Honest
<1> QED
  BY <1>1, <1>2, <1>3, <1>4, <1>5, <1>6, <1>7, <1>8, <1>9 DEF Honest

(* And it reports the token it holds. *)
LEMMA ReporterIsReliable ==
  ASSUME ProtocolInv, PaperInv, ReportsInv, UNCHANGED <<issued, patch>>, NEW j \in Jobs,
         NEW want \in Statuses, NEW error \in AgentErrors,
         NEW next \in {"closing", "returning", "asking"},
         ReportAndWait(j, want, error, next), phase[j] # "idle",
         next = "asking" => want = "printing"
  PROVE  ReportsInv'
<1> USE DEF ProtocolInv, TypeOK
<1>1. held[j] # 0 /\ held[j] \in 0 .. issued[j]
  BY DEF PaperInv, TokensInv
<1>2. \A m \in reports' : Denial(m.want, m.error) => m.token # 0
  BY <1>1 DEF ReportAndWait, Send, ReportsInv
<1>3. \A k \in Jobs : phase'[k] = "asking" =>
        asked'[k].want = "printing" /\ asked'[k].token \in 0 .. issued'[k]
  <2>1. \A k \in Jobs : k # j => phase'[k] = phase[k] /\ asked'[k] = asked[k]
    BY DEF ReportAndWait
  <2>2. phase'[j] = next /\ asked'[j].want = want /\ asked'[j].token = held[j]
    BY DEF ReportAndWait
  <2> QED
    BY <1>1, <2>1, <2>2 DEF ReportsInv
<1> QED
  BY <1>2, <1>3 DEF ReportsInv

(* A step that adds no denial and lets no goroutine ask. *)
LEMMA QuietIsReliable ==
  ASSUME ReportsInv, UNCHANGED <<issued, patch>>,
         \A j \in Jobs : NoDenialOf(j), reports' \subseteq Report,
         \A j \in Jobs : phase'[j] = "asking" => phase[j] = "asking" /\ asked'[j] = asked[j]
  PROVE  ReportsInv'
BY DEF ReportsInv, NoDenialOf, Report

LEMMA DispatchIsHonest ==
  ASSUME ProtocolInv, PaperInv, HonestInv, Receiving
  PROVE  HonestInv'
<1> USE DEF ProtocolInv, GatewayInv, TablesInv, TypeOK
<1>a. ReportsInv /\ OnceInv /\ \A j \in Jobs : Honest(j)
  BY DEF HonestInv
<1>1. PICK f \in frames \cup polled :
        /\ Dispatch(f.job, f.token)
        /\ UNCHANGED <<life, ledger, paper>>
        /\ \/ f \in frames /\ frames' = frames \ {f} /\ polled' = polled
           \/ f \in polled /\ polled' = polled \ {f} /\ frames' = frames
  BY DEF Receiving, ReceiveFrame, ReceivePolled
<1>2. NothingSent
  BY <1>1, AgentLeavesGateway DEF NothingSent, GatewayStill, gatewayVars, AgentMoves
<1>3. f.job \in Jobs /\ f = [job |-> f.job, token |-> f.token]
  BY DEF Envelope
<1>4. UNCHANGED <<issued, row, patch, push>>
  BY <1>2 DEF NothingSent, GatewayStill
<1>5. \A m \in reports' : Denial(m.want, m.error) => m \in reports
  <2>1. \E t : reports' \subseteq reports \cup {Send(f.job, "queued", t, "none")}
    BY <1>1 DEF Dispatch
  <2> QED
    BY <2>1 DEF Send, Denial
<1>6. reports' \subseteq Report
  BY ReceivingKeepsTokens
<1>7. \A j \in Jobs : NoDenialOf(j)
  BY <1>5 DEF NoDenialOf
<1>8. \A j \in Jobs : phase'[j] = "asking" => phase[j] = "asking" /\ asked'[j] = asked[j]
  BY <1>1 DEF Dispatch, taskVars
<1>9. ReportsInv'
  BY <1>a, <1>4, <1>6, <1>7, <1>8, QuietIsReliable
<1>10. OnceInv'
  BY <1>a, <1>2, ReceiptOnly
(* The token taken from the network was there once. *)
<1>11. f.token = issued[f.job] => Pending(f.job) /\ ~Pending(f.job)'
  <2>1. f.token = issued[f.job] => NewestIn(frames, f.job) \/ NewestIn(polled, f.job)
    BY <1>3 DEF NewestIn
  <2>2. CASE f \in frames /\ frames' = frames \ {f} /\ polled' = polled
    BY <1>a, <1>3, <1>4, <2>2 DEF OnceInv, Pending, NewestIn, PushesNewest
  <2>3. CASE f \in polled /\ polled' = polled \ {f} /\ frames' = frames
    BY <1>a, <1>3, <1>4, <2>3 DEF OnceInv, Pending, NewestIn, PushesNewest
  <2> QED
    BY <1>1, <2>2, <2>3
<1>12. ASSUME NEW j \in Jobs
       PROVE  Honest(j)'
  <2>1. CASE j # f.job \/ UNCHANGED taskVars
    <3>1. /\ phase'[j] = phase[j] /\ reply'[j] = reply[j] /\ asked'[j] = asked[j]
          /\ paper'[j] = paper[j] /\ held'[j] = held[j]
      BY <1>1, <1>3, <2>1 DEF Dispatch, taskVars
    <3> QED
      BY <1>a, <1>2, <1>7, <3>1, OthersStayHonest
  <2>2. CASE j = f.job /\ ~UNCHANGED taskVars
    <3>1. held'[j] = f.token /\ UNCHANGED <<asked, reply>> /\ paper'[j] = paper[j]
      BY <1>1, <1>3, <2>2 DEF Dispatch, taskVars
    <3>2. \/ phase'[j] = phase[j]
          \/ phase[j] = "idle" /\ phase'[j] = "backlog"
      <4>1. held[j] = 0 => phase[j] = "idle"
        BY DEF PaperInv
      <4> QED
        BY <1>1, <2>2, <4>1 DEF Dispatch, taskVars
    <3>3. (Pending(j)' => Pending(j)) /\ (Denied(j)' => Denied(j))
      BY <1>2, <1>7, ReceiptOnly
    <3>4. Engaged(j)' => Engaged(j)
      BY <3>1, <3>2 DEF Engaged, AtPrinter
    <3>5. NotPrinted(j)' <=> NotPrinted(j)
      BY <1>4 DEF NotPrinted
    <3>6. f.token = issued[j] => Pending(j) /\ ~Pending(j)'
      BY <1>11, <2>2
    <3>7. Honest(j)
      BY <1>a
    <3> HIDE DEF ProtocolInv, GatewayInv, TablesInv, TypeOK
    <3>8. (held[j] = issued[j] \/ (phase[j] = "asking" /\ asked[j].token = issued[j])
             => ~Pending(j))'
      BY <1>4, <3>1, <3>2, <3>3, <3>6, <3>7 DEF Honest
    <3>9. (Engaged(j) => /\ row[j].status \notin {"queued", "claimed"}
                         /\ ~Pending(j)
                         /\ held[j] = issued[j] => phase[j] \notin {"backlog", "waiting"})'
      BY <1>4, <3>1, <3>3, <3>4, <3>6, <3>7 DEF Honest
    <3>10. (Denied(j) => /\ ~Engaged(j)
                         /\ ~Pending(j)
                         /\ held[j] = issued[j] => phase[j] \notin {"backlog", "waiting"}
                         /\ phase[j] = "asking" => asked[j].token # issued[j])'
      BY <1>4, <3>1, <3>2, <3>3, <3>4, <3>6, <3>7 DEF Honest
    <3> QED
      BY <3>4, <3>5, <3>7, <3>8, <3>9, <3>10 DEF Honest
  <2> QED
    BY <2>1, <2>2
<1> QED
  BY <1>9, <1>10, <1>12 DEF HonestInv

(* A step of one goroutine that sends a report. *)
LEMMA ReportIsHonest ==
  ASSUME ProtocolInv, PaperInv, HonestInv, NothingSent, NEW j \in Jobs,
         NEW want \in Statuses, NEW error \in AgentErrors,
         NEW next \in {"closing", "returning", "asking"},
         ReportAndWait(j, want, error, next), phase[j] # "idle",
         UNCHANGED <<held, paper>>,
         Denial(want, error) => phase[j] \in {"backlog", "waiting", "broken"},
         next = "asking" => want = "printing" /\ phase[j] = "waiting"
  PROVE  HonestInv'
<1>a. ReportsInv /\ OnceInv /\ \A k \in Jobs : Honest(k)
  BY DEF HonestInv
<1>1. UNCHANGED <<issued, patch>>
  BY DEF NothingSent, GatewayStill
<1>2. ReportsInv'
  BY <1>a, <1>1, ReporterIsReliable
<1>3. OnceInv'
  BY <1>a, ReceiptOnly
<1>4. Honest(j)'
  BY <1>a, ReporterIsHonest
<1>5. ASSUME NEW k \in Jobs, k # j
      PROVE  Honest(k)'
  <2>1. /\ phase'[k] = phase[k] /\ reply'[k] = reply[k] /\ asked'[k] = asked[k]
        /\ paper'[k] = paper[k] /\ held'[k] = held[k]
    BY <1>5 DEF ReportAndWait, ProtocolInv, TypeOK
  <2>2. NoDenialOf(k)
    BY <1>5 DEF NoDenialOf, ReportAndWait, Send
  <2> QED
    BY <1>a, <2>1, <2>2, OthersStayHonest
<1> QED
  BY <1>2, <1>3, <1>4, <1>5 DEF HonestInv

(* A step of one goroutine that sends nothing. *)
LEMMA MoveIsHonest ==
  ASSUME ProtocolInv, HonestInv, NothingSent, NEW j \in Jobs, UNCHANGED reports,
         Honest(j)', phase'[j] # "asking",
         \A k \in Jobs : k # j =>
           /\ phase'[k] = phase[k] /\ reply'[k] = reply[k] /\ asked'[k] = asked[k]
           /\ paper'[k] = paper[k] /\ held'[k] = held[k]
  PROVE  HonestInv'
<1>a. ReportsInv /\ OnceInv /\ \A k \in Jobs : Honest(k)
  BY DEF HonestInv
<1>1. UNCHANGED <<issued, patch>>
  BY DEF NothingSent, GatewayStill
<1>2. \A k \in Jobs : NoDenialOf(k)
  BY DEF NoDenialOf
<1>3. ReportsInv'
  BY <1>a, <1>1, <1>2, QuietIsReliable DEF ProtocolInv, TypeOK
<1>4. OnceInv'
  BY <1>a, ReceiptOnly
<1>5. ASSUME NEW k \in Jobs, k # j
      PROVE  Honest(k)'
  BY <1>a, <1>2, <1>5, OthersStayHonest
<1> QED
  BY <1>3, <1>4, <1>5 DEF HonestInv

LEMMA ExecutionIsHonest ==
  ASSUME Answering, ProtocolInv, PaperInv, HonestInv, NEW j \in Jobs,
         \/ Process(j) \/ BacklogCancelled(j) \/ Hear(j) \/ WindowPasses(j)
         \/ \E outcome \in AtPrinter : PrintDocument(j, outcome)
         \/ RecordOutcome(j)
  PROVE  HonestInv'
<1>a. ReportsInv /\ OnceInv /\ Honest(j)
  BY DEF HonestInv
<1>b. GatewayStill
  BY AgentLeavesGateway DEF GatewayStill, gatewayVars, AgentMoves, Executing
<1>c. TypeOK
  BY DEF ProtocolInv
<1>d. UNCHANGED <<frames, polled>> => NothingSent
  BY <1>b DEF NothingSent
<1>1. CASE Process(j) /\ ~ProcessReady(j)
  <2>1. NothingSent /\ UNCHANGED <<held, paper>> /\ phase[j] \in {"backlog", "waiting"}
    BY <1>1, <1>d DEF Process, ProcessExpired, ProcessLedgerFault, ProcessKnownSuccess,
       ProcessKnownUnknown, ProcessRefused, ProcessBegin, Processing, OnlyTask
  <2>2. \E want \in Statuses, error \in AgentErrors :
          \/ ReportAndWait(j, want, error, "closing")
          \/ ReportAndWait(j, "printing", error, "asking") /\ phase[j] = "waiting"
    <3>1. /\ {"queued", "success", "failed", "expired", "printing"} \subseteq Statuses
          /\ {"none", "plain", "AGENT_RESTART_DURING_PRINT", "UNKNOWN_PARTIAL_DELIVERY"}
               \subseteq AgentErrors
      BY DEF Statuses, AgentErrors
    <3>2. CASE ProcessExpired(j) \/ ProcessLedgerFault(j) \/ ProcessKnownSuccess(j)
      BY <3>1, <3>2 DEF ProcessExpired, ProcessLedgerFault, ProcessKnownSuccess
    <3>3. CASE ProcessKnownUnknown(j) \/ ProcessRefused(j)
      BY <3>1, <3>3 DEF ProcessKnownUnknown, ProcessRefused
    <3>4. CASE ProcessBegin(j)
      BY <3>1, <3>4 DEF ProcessBegin
    <3> QED
      BY <1>1, <3>2, <3>3, <3>4 DEF Process
  <2>3. phase[j] # "idle" /\ "printing" \in Statuses
    BY <2>1 DEF Statuses
  <2> QED
    BY <2>1, <2>2, <2>3, ReportIsHonest
<1>2. CASE BacklogCancelled(j)
  <2>1. NothingSent /\ UNCHANGED <<held, paper>> /\ phase[j] = "backlog"
    BY <1>2, <1>d DEF BacklogCancelled, OnlyTask
  <2>2. "queued" \in Statuses /\ "none" \in AgentErrors
    BY DEF Statuses, AgentErrors
  <2> QED
    BY <1>2, <2>1, <2>2, ReportIsHonest DEF BacklogCancelled
(* Only a job nothing was sent of is reported as not printed. *)
<1>3. CASE RecordOutcome(j)
  <2>1. /\ NothingSent /\ UNCHANGED <<held, paper>>
        /\ phase[j] \in AtPrinter /\ phase[j] # "idle"
    BY <1>3, <1>d DEF RecordOutcome, OnlyTask, AtPrinter
  <2>2. PICK want \in Statuses, error \in AgentErrors :
          /\ ReportAndWait(j, want, error, "closing")
          /\ Denial(want, error) => phase[j] = "broken"
    BY <1>3, <2>1 DEF RecordOutcome, Statuses, AgentErrors, Denial, UnknownMarkers, AtPrinter
  <2> QED
    BY <2>1, <2>2, ReportIsHonest
<1>4. CASE ProcessReady(j)
  <2>1. /\ NothingSent /\ UNCHANGED <<reports, held, paper, asked, reply>>
        /\ phase[j] = "backlog" /\ phase' = [phase EXCEPT ![j] = "waiting"]
    BY <1>4, <1>d DEF ProcessReady, Processing, OnlyTask
  <2>2. phase'[j] = "waiting" /\ \A k \in Jobs : k # j => phase'[k] = phase[k]
    BY <1>c, <2>1 DEF TypeOK
  <2>3. (Engaged(j)' => Engaged(j)) /\ NoDenialOf(j)
    BY <2>1, <2>2 DEF Engaged, AtPrinter, NoDenialOf
  <2>4. Honest(j)'
    BY <1>a, <2>1, <2>2, <2>3, MoveStaysHonest
  <2> QED
    BY <2>1, <2>2, <2>4, MoveIsHonest
<1>5. ASSUME Forget(j), OnlyPhase
      PROVE  HonestInv'
  <2>1. NothingSent /\ UNCHANGED <<reports, paper>>
    BY <1>5, <1>d DEF OnlyPhase, networkVars
  <2>2. /\ held'[j] = 0 /\ phase'[j] = "idle" /\ reply'[j] = "none"
        /\ \A k \in Jobs : k # j =>
             /\ phase'[k] = phase[k] /\ reply'[k] = reply[k] /\ asked'[k] = asked[k]
             /\ held'[k] = held[k]
    BY <1>5, <1>c DEF Forget, TypeOK
  <2>3. Honest(j)'
    BY <1>a, <2>1, <2>2, ForgottenIsHonest DEF NoDenialOf
  <2> QED
    BY <2>1, <2>2, <2>3, MoveIsHonest
<1>6. CASE Hear(j)
  <2>1. CASE PrintingAccepted(j)
    <3>1. NothingSent /\ UNCHANGED <<reports, paper, held>>
      BY <2>1, <1>d DEF PrintingAccepted, Proceed, OnlyPhase, networkVars
    <3>2. /\ phase'[j] = "cleared"
          /\ \A k \in Jobs : k # j =>
               phase'[k] = phase[k] /\ reply'[k] = reply[k] /\ asked'[k] = asked[k]
      BY <2>1, <1>c DEF PrintingAccepted, Proceed, TypeOK
    <3>3. Engaged(j) /\ NoDenialOf(j)
      BY <2>1, <3>1 DEF PrintingAccepted, Engaged, NoDenialOf
    <3>4. Honest(j)'
      BY <1>a, <3>1, <3>2, <3>3, MoveStaysHonest
    <3> QED
      BY <3>1, <3>2, <3>4, MoveIsHonest
  <2>2. ~PrintingUnanswered(j)
    BY DEF PrintingUnanswered, TransportErrors, Answering
  <2> QED
    BY <1>5, <1>6, <2>1, <2>2 DEF Hear, PrintingRefused, Abort, Close
<1>7. CASE WindowPasses(j)
  <2>1. NothingSent /\ UNCHANGED <<reports, paper, held, phase, asked, reply>>
    BY <1>7, <1>d DEF WindowPasses, OnlyPhase, networkVars
  <2>2. \A k \in Jobs : NoDenialOf(k)
    BY <2>1 DEF NoDenialOf
  <2>3. ReportsInv'
    BY <1>a, <1>c, <2>1, <2>2, QuietIsReliable DEF NothingSent, GatewayStill, TypeOK
  <2> QED
    BY <1>a, <2>1, <2>2, <2>3, OthersStayHonest, ReceiptOnly DEF HonestInv
<1>8. ASSUME NEW outcome \in AtPrinter, PrintDocument(j, outcome)
      PROVE  HonestInv'
  <2>1. NothingSent /\ UNCHANGED <<reports, held, asked, reply>> /\ phase[j] = "cleared"
    BY <1>8, <1>d DEF PrintDocument, networkVars
  <2>2. /\ phase'[j] = outcome
        /\ \A k \in Jobs : k # j => phase'[k] = phase[k] /\ paper'[k] = paper[k]
    BY <1>8, <1>c DEF PrintDocument, TypeOK
  <2>3. Engaged(j) /\ NoDenialOf(j) /\ outcome \notin {"asking", "backlog", "waiting"}
    BY <2>1 DEF Engaged, NoDenialOf, AtPrinter
  <2>4. Honest(j)'
    BY <1>a, <2>1, <2>2, <2>3, MoveStaysHonest
  <2> QED
    BY <2>1, <2>2, <2>3, <2>4, MoveIsHonest
<1> QED
  BY <1>1, <1>2, <1>3, <1>4, <1>6, <1>7, <1>8 DEF Process

(* Stopping, dying and starting again: recovery reports what it does not    *)
(* know as unknown, never as not printed.                                  *)
LEMMA LifeIsHonest ==
  ASSUME ProtocolInv, HonestInv, Living
  PROVE  HonestInv'
<1>a. ReportsInv /\ OnceInv /\ \A j \in Jobs : Honest(j)
  BY DEF HonestInv
<1>b. GatewayStill
  BY AgentLeavesGateway DEF GatewayStill, gatewayVars, AgentMoves
<1>c. TypeOK /\ TypeOK'
  BY LivingKeepsTokens DEF ProtocolInv
<1>1. CASE Die
  <2>1. /\ NothingSent /\ UNCHANGED <<reports, paper>>
        /\ \A j \in Jobs : held'[j] = 0 /\ phase'[j] = "idle" /\ reply'[j] = "none"
    BY <1>1, <1>b DEF Die, NothingSent
  <2>2. \A j \in Jobs : NoDenialOf(j)
    BY <2>1 DEF NoDenialOf
  <2>3. ReportsInv'
    BY <1>a, <1>c, <2>1, <2>2, QuietIsReliable DEF NothingSent, GatewayStill, TypeOK
  <2> QED
    BY <1>a, <2>1, <2>2, <2>3, ForgottenIsHonest, ReceiptOnly DEF HonestInv
<1>2. CASE ~Die
  <2>1. NothingSent /\ UNCHANGED <<held, phase, asked, reply, paper>>
    BY <1>2, <1>b DEF Living, Shutdown, Restart, CleanupTerminal, networkVars, taskVars,
       NothingSent
  <2>2. \A m \in reports' : Denial(m.want, m.error) => m \in reports
    <3>1. CASE Restart
      <4>1. PICK found : reports' \subseteq reports \cup
              {Send(k, "failed", ledger[k].token, "AGENT_RESTART_DURING_PRINT") : k \in found}
        BY <3>1 DEF Restart
      <4> QED
        BY <4>1 DEF Send, Denial, UnknownMarkers
    <3>2. CASE ~Restart
      BY <1>2, <3>2 DEF Living, Shutdown, CleanupTerminal, networkVars
    <3> QED
      BY <3>1, <3>2
  <2>3. \A j \in Jobs : NoDenialOf(j)
    BY <2>2 DEF NoDenialOf
  <2>4. ReportsInv'
    BY <1>a, <1>c, <2>1, <2>3, QuietIsReliable DEF NothingSent, GatewayStill, TypeOK
  <2> QED
    BY <1>a, <2>1, <2>3, <2>4, OthersStayHonest, ReceiptOnly DEF HonestInv
<1> QED
  BY <1>1, <1>2

LEMMA HonestStep ==
  ASSUME Answering, ProtocolInv, PaperInv, HonestInv, [Next]_vars
  PROVE  HonestInv'
<1>1. CASE UNCHANGED vars
  <2>1. /\ NothingSent /\ UNCHANGED <<issued, patch, reports, phase, reply, asked, paper, held>>
    BY <1>1 DEF vars, gatewayVars, networkVars, agentVars, NothingSent, GatewayStill
  <2>2. \A j \in Jobs : NoDenialOf(j)
    BY <2>1 DEF NoDenialOf
  <2>3. ReportsInv'
    BY <2>1, <2>2, QuietIsReliable DEF HonestInv, ProtocolInv, TypeOK
  <2> QED
    BY <2>1, <2>2, <2>3, OthersStayHonest, ReceiptOnly DEF HonestInv
<1>2. CASE Executing
  BY <1>2, ExecutionIsHonest DEF Executing
<1> QED
  BY <1>1, <1>2, ServingHonest, DispatchIsHonest, LifeIsHonest DEF Next

LEMMA InitHonest == Init => HonestInv
<1> SUFFICES ASSUME Init PROVE HonestInv
  OBVIOUS
<1> USE DEF Init, GatewayInit
<1>1. ReportsInv
  BY DEF ReportsInv
<1>2. OnceInv
  BY DEF OnceInv, NewestIn, PushesNewest
<1>3. \A j \in Jobs : ~Pending(j) /\ ~Engaged(j) /\ ~Denied(j)
  BY DEF Pending, NewestIn, PushesNewest, Engaged, Denied, AtPrinter
<1> QED
  BY <1>1, <1>2, <1>3 DEF HonestInv, Honest

LEMMA HonestInvariant == Answering => (Spec => []HonestInv)
<1> SUFFICES ASSUME Answering PROVE Spec => []HonestInv
  OBVIOUS
<1>1. ProtocolInv /\ PaperInv /\ HonestInv /\ [Next]_vars => HonestInv'
  BY HonestStep
<1>2. Spec => []PaperInv
  BY PaperInvariant DEF Answering
<1> QED
  BY <1>1, <1>2, InitHonest, ProtocolInvariant, PTL DEF Spec

(* A job that ends as not_printed has no paper, so submitting it again      *)
(* duplicates nothing: whatever crashes, delays and changes of presence     *)
(* there are, as long as every HTTP call of the agent is answered and a     *)
(* poll claims only what is still a candidate.                              *)
THEOREM OutcomesAreHonest ==
  ASSUME ReprintAfterCrash = FALSE, Faults \subseteq {"crash", "presence"}
  PROVE  Spec => []HonestOutcome
<1>1. Answering
  BY DEF Answering, SafeLedger
<1>2. ProtocolInv /\ HonestInv => HonestOutcome
  BY DEF HonestInv, Honest, HonestOutcome, NotPrinted, Engaged, ProtocolInv, TypeOK
<1>3. Spec => []HonestInv
  BY <1>1, HonestInvariant
<1> QED
  BY <1>2, <1>3, ProtocolInvariant, PTL

-----------------------------------------------------------------------------
(* Dispatches are known *)

(* Bytes may flow, or the answer that lets them is there. *)
Admitted(j) == \/ phase[j] \in {"cleared"} \cup AtPrinter
               \/ phase[j] = "asking" /\ reply[j] = "ok"

Overtaken(j) == "snapshot" \in Faults /\ task[j] < issued[j]

KnownInv ==
  \A j \in Jobs :
    /\ phase[j] = "asking" => asked[j].want = "printing"
    /\ Admitted(j) => ~Open(row[j]) \/ Overtaken(j)

(* A row that says printing opens again only for a newer claim, by a poll   *)
(* that had chosen it before.                                               *)
LEMMA ServingKnows ==
  ASSUME ProtocolInv, KnownInv, Serving
  PROVE  KnownInv'
<1>1. UNCHANGED <<task, phase, asked>>
  BY ServingFrame
<1>2. ASSUME NEW j \in Jobs, Admitted(j)'
      PROVE  ~Open(row'[j]) \/ Overtaken(j)'
  <2>1. CASE ~Admitted(j)
    <3>1. asked[j].want = "printing" /\ reply[j] # "ok" /\ reply'[j] = "ok"
      BY <1>1, <1>2, <2>1 DEF Admitted, KnownInv
    <3> QED
      BY <3>1, OnlyNewestIsCleared DEF Open
  <2>2. CASE Admitted(j)
    <3>1. /\ task[j] \in 0 .. issued[j] /\ issued[j] \in Nat
          /\ issued'[j] \in {issued[j], issued[j] + 1}
          /\ ~Open(row[j]) => ~Open(row'[j]) \/ issued'[j] # issued[j]
      BY GatewayStep, SettledStays DEF Next, ProtocolInv, TokensInv
    <3>2. issued'[j] # issued[j] => "snapshot" \in Faults \/ Open(row[j])
      BY OnlyCandidates DEF Next, CandidatesClaimed, StaleCandidate, QueuedCandidate, Open
    <3>3. ~Open(row[j]) \/ Overtaken(j)
      BY <2>2 DEF KnownInv
    <3> QED
      BY <1>1, <3>1, <3>2, <3>3 DEF Overtaken
  <2> QED
    BY <2>1, <2>2
<1> QED
  BY <1>1, <1>2 DEF KnownInv

(* A goroutine starts in the backlog. *)
LEMMA ReceivingKnows ==
  ASSUME ProtocolInv, KnownInv, Receiving
  PROVE  KnownInv'
<1>1. UNCHANGED <<row, issued>>
  BY AgentLeavesGateway DEF AgentMoves, gatewayVars
<1>2. PICK f \in frames \cup polled : Dispatch(f.job, f.token)
  BY DEF Receiving, ReceiveFrame, ReceivePolled
<1>3. UNCHANGED <<asked, reply>>
  BY <1>2 DEF Dispatch, taskVars
<1>4. ASSUME NEW j \in Jobs
      PROVE  (phase'[j] = phase[j] /\ task'[j] = task[j]) \/ phase'[j] = "backlog"
  BY <1>2 DEF Dispatch, taskVars, ProtocolInv, TypeOK
<1> QED
  BY <1>1, <1>3, <1>4 DEF KnownInv, Admitted, Overtaken, AtPrinter

(* Only the answer "ok" admits a goroutine to the printer. *)
LEMMA ExecutingKnows ==
  ASSUME Faults \cap {"loss", "gateway"} = {}, ProtocolInv, KnownInv, NEW j \in Jobs,
         \/ Process(j) \/ BacklogCancelled(j) \/ Hear(j) \/ WindowPasses(j)
         \/ \E outcome \in AtPrinter : PrintDocument(j, outcome)
         \/ RecordOutcome(j)
  PROVE  KnownInv'
<1> USE DEF ProtocolInv, TypeOK
<1>1. UNCHANGED <<row, issued>>
  BY AgentLeavesGateway DEF AgentMoves, Executing, gatewayVars
(* It suffices to look at the goroutine that moves. *)
<1>2. ASSUME \A k \in Jobs \ {j} : /\ phase'[k] = phase[k] /\ asked'[k] = asked[k]
                                   /\ reply'[k] = reply[k] /\ task'[k] = task[k],
             phase'[j] = "asking" => asked'[j].want = "printing",
             Admitted(j)' => Admitted(j) /\ task'[j] = task[j]
      PROVE  KnownInv'
  BY <1>1, <1>2 DEF KnownInv, Admitted, Overtaken
<1>3. ASSUME NEW want, NEW error, NEW next, ReportAndWait(j, want, error, next),
             UNCHANGED task, next \notin {"cleared"} \cup AtPrinter,
             next = "asking" => want = "printing"
      PROVE  KnownInv'
  BY <1>2, <1>3 DEF ReportAndWait, Admitted
<1>4. CASE Process(j)
  <2>1. CASE ProcessReady(j)
    <3>1. /\ phase' = [phase EXCEPT ![j] = "waiting"]
          /\ UNCHANGED <<task, asked, reply>>
      BY <2>1 DEF ProcessReady, OnlyTask
    <3> QED
      BY <1>2, <3>1 DEF Admitted, AtPrinter
  <2>2. CASE ~ProcessReady(j)
    <3>1. PICK want, error, next :
            /\ ReportAndWait(j, want, error, next) /\ UNCHANGED task
            /\ next = "closing" \/ (next = "asking" /\ want = "printing")
      BY <1>4, <2>2 DEF Process, ProcessExpired, ProcessLedgerFault, ProcessKnownSuccess,
         ProcessKnownUnknown, ProcessRefused, ProcessBegin, OnlyTask
    <3> QED
      BY <1>3, <3>1 DEF AtPrinter
  <2> QED
    BY <2>1, <2>2
<1>5. CASE BacklogCancelled(j)
  BY <1>3, <1>5 DEF BacklogCancelled, OnlyTask, AtPrinter
<1>6. CASE RecordOutcome(j)
  <2>1. PICK want, error : ReportAndWait(j, want, error, "closing") /\ UNCHANGED task
    BY <1>6 DEF RecordOutcome, OnlyTask
  <2> QED
    BY <1>3, <2>1 DEF AtPrinter
<1>7. ASSUME Forget(j)
      PROVE  KnownInv'
  BY <1>2, <1>7 DEF Forget, Admitted, AtPrinter
<1>8. CASE Hear(j)
  <2>1. CASE PrintingAccepted(j)
    BY <1>2, <2>1 DEF PrintingAccepted, Proceed, OnlyPhase, Admitted
  <2>2. CASE PrintingRefused(j) \/ Close(j)
    BY <1>7, <2>2 DEF PrintingRefused, Abort, Close
  <2>3. ~PrintingUnanswered(j)
    BY DEF PrintingUnanswered, TransportErrors
  <2> QED
    BY <1>8, <2>1, <2>2, <2>3 DEF Hear
<1>9. CASE WindowPasses(j)
  <2>1. UNCHANGED <<task, phase, asked, reply>>
    BY <1>9 DEF WindowPasses, OnlyPhase
  <2> QED
    BY <1>1, <2>1 DEF KnownInv, Admitted, Overtaken
<1>10. ASSUME NEW outcome \in AtPrinter, PrintDocument(j, outcome)
       PROVE  KnownInv'
  <2>1. /\ phase[j] = "cleared" /\ phase' = [phase EXCEPT ![j] = outcome]
        /\ UNCHANGED <<task, asked, reply>>
    BY <1>10 DEF PrintDocument
  <2> QED
    BY <1>2, <2>1 DEF Admitted, AtPrinter
<1> QED
  BY <1>4, <1>5, <1>6, <1>8, <1>9, <1>10

LEMMA LivingKnows ==
  ASSUME ProtocolInv, KnownInv, Living
  PROVE  KnownInv'
<1>1. UNCHANGED <<row, issued>>
  BY AgentLeavesGateway DEF AgentMoves, gatewayVars
<1>2. UNCHANGED taskVars \/ (\A j \in Jobs : phase'[j] = "idle")
  BY DEF Living, Shutdown, Die, Restart, CleanupTerminal
<1> QED
  BY <1>1, <1>2 DEF KnownInv, Admitted, Overtaken, AtPrinter, taskVars

(* While bytes may flow the Gateway knows: the row is neither queued nor    *)
(* merely claimed, unless a poll that had chosen the row before overtook    *)
(* the claim.  So it is with crashes, a failing or cleaned ledger and       *)
(* reprint_after_crash, as long as every HTTP call is answered: an agent    *)
(* without an answer prints on its own authority.                           *)
THEOREM DispatchesAreKnown ==
  ASSUME Faults \cap {"loss", "gateway"} = {}
  PROVE  Spec => []DispatchIsKnown
<1>1. Init => KnownInv
  BY DEF Init, KnownInv, Admitted, AtPrinter
<1>2. ProtocolInv /\ KnownInv /\ [Next]_vars => KnownInv'
  <2> SUFFICES ASSUME ProtocolInv, KnownInv, [Next]_vars PROVE KnownInv'
    OBVIOUS
  <2>1. CASE UNCHANGED vars
    BY <2>1 DEF vars, gatewayVars, agentVars, KnownInv, Admitted, Overtaken, Open
  <2>2. CASE Executing
    BY <2>2, ExecutingKnows DEF Executing
  <2> QED
    BY <2>1, <2>2, ServingKnows, ReceivingKnows, LivingKnows DEF Next
<1>3. KnownInv => DispatchIsKnown
  BY DEF KnownInv, Admitted, Overtaken, Open, DispatchIsKnown
<1> QED
  BY <1>1, <1>2, <1>3, ProtocolInvariant, PTL DEF Spec

-----------------------------------------------------------------------------
(* The promise to the submitting system *)

(* Paper comes from a goroutine at the printer, one sheet at a time. *)
LEMMA PaperComesFromPrinting ==
  ASSUME Answering, ProtocolInv, PaperInv, HonestInv, [Next]_vars, NEW j \in Jobs,
         paper'[j] # paper[j]
  PROVE  Engaged(j) /\ paper[j] = 0 /\ paper'[j] = 1 /\ row' = row
<1> USE DEF ProtocolInv, TypeOK
<1>1. PICK k \in Jobs, outcome \in AtPrinter : PrintDocument(k, outcome)
  <2>1. ~Serving
    BY ServingFrame
  <2> QED
    BY <2>1 DEF Next, Receiving, ReceiveFrame, ReceivePolled, Executing, Process, ProcessExpired,
       ProcessLedgerFault, ProcessKnownSuccess, ProcessKnownUnknown, ProcessRefused,
       ProcessReady, ProcessBegin, BacklogCancelled, Hear, PrintingAccepted, PrintingRefused,
       PrintingUnanswered, Close, WindowPasses, RecordOutcome, OnlyTask, OnlyPhase, Living,
       Shutdown, Die, Restart, CleanupTerminal, vars, agentVars
<1>2. k = j /\ phase[j] = "cleared" /\ paper'[j] = paper[j] + 1 /\ row' = row
  BY <1>1 DEF PrintDocument, gatewayVars
<1>3. paper[j] = 0
  BY <1>2 DEF PaperInv
<1> QED
  BY <1>2, <1>3 DEF Engaged

Said(j) == IF row[j].status \in TerminalStatuses
           THEN PhysicalOutcome(row[j].status, row[j].error) ELSE "open"

LEMMA SaidIsAnOutcome ==
  \A j \in Jobs : /\ Said(j) \in {"open", "printed", "unknown", "not_printed"}
                 /\ (Said(j) = "not_printed" <=> NotPrinted(j))
                 /\ (Said(j) = "printed" <=> row[j].status = "success")
BY DEF Said, PhysicalOutcome, NotPrinted, TerminalStatuses

(* What the Gateway says of a job changes only as the promise allows.      *)
LEMMA SayingsAreHonest ==
  ASSUME Answering, ProtocolInv, PaperInv, SuccessInv, HonestInv, [Next]_vars,
         PaperInv', SuccessInv', HonestInv',
         NEW j \in Jobs, Said(j)' # Said(j)
  PROVE  /\ paper'[j] = paper[j]
         /\ \/ Said(j) = "open" /\ Said(j)' = "unknown"
            \/ /\ Said(j) \in {"open", "unknown"}
               /\ \/ Said(j)' = "printed" /\ paper[j] = 1
                  \/ Said(j)' = "not_printed" /\ paper[j] = 0
<1> USE DEF ProtocolInv, GatewayInv, TablesInv
<1>1. row' # row
  BY DEF Said
<1>2. paper'[j] = paper[j] /\ paper[j] \in {0, 1}
  BY <1>1, PaperComesFromPrinting DEF PaperInv, TypeOK
<1>3. [GatewayNext]_gatewayVars /\ ReportsInv /\ CandidatesClaimed
  BY GatewayStep, OnlyCandidates DEF HonestInv, Answering
<1>4. /\ Said(j) \in {"open", "printed", "unknown", "not_printed"}
      /\ (Said(j) = "not_printed" <=> NotPrinted(j))
      /\ (Said(j) = "printed" <=> row[j].status = "success")
  BY SaidIsAnOutcome
<1>5. /\ Said(j)' \in {"open", "printed", "unknown", "not_printed"}
      /\ (Said(j)' = "not_printed" <=> NotPrinted(j)')
      /\ (Said(j)' = "printed" <=> row'[j].status = "success")
  BY SaidIsAnOutcome DEF Said, NotPrinted, PhysicalOutcome, TerminalStatuses
<1>6. /\ NotPrinted(j) => paper[j] = 0
      /\ NotPrinted(j)' => paper[j] = 0
  BY <1>2 DEF HonestInv, Honest, Engaged
<1>7. /\ row[j].status = "success" => paper[j] > 0
      /\ row'[j].status = "success" => paper[j] > 0
  BY <1>2 DEF SuccessInv
(* "printed" is final: no denial of a printed job is under way. *)
<1>8. Said(j) # "printed"
  <2> SUFFICES ASSUME row[j].status = "success" PROVE FALSE
    BY <1>4
  <2>1. Engaged(j)
    BY <1>7 DEF Engaged
  <2>2. \A h \in Handlers : ~DeniedBy(h, j)
    BY <2>1 DEF HonestInv, Honest, Denied, DeniedBy
  <2>3. row'[j].status = "success"
    BY <1>3, <2>2, OnlyDenialsDeny
  <2> QED
    BY <2>3 DEF Said, PhysicalOutcome, TerminalStatuses
<1>9. row[j].status \in TerminalStatuses =>
        /\ Said(j)' # "open"
        /\ Said(j)' = "unknown" => Said(j) \in {"unknown", "printed"}
  BY <1>3, EndedStaysSettled DEF Said, PhysicalOutcome, TerminalStatuses
<1>10. row[j].status \notin TerminalStatuses <=> Said(j) = "open"
  BY DEF Said, PhysicalOutcome
<1> HIDE DEF ProtocolInv, GatewayInv, TablesInv
<1> QED
  BY <1>2, <1>4, <1>5, <1>6, <1>7, <1>8, <1>9, <1>10

(* The protocol implements PrintPromise: each job has one outcome, "printed" *)
(* means paper and is final, "not_printed" means there is and will be none, *)
(* and no job is printed twice.                                            *)
THEOREM PromiseIsKept ==
  ASSUME ReprintAfterCrash = FALSE, Faults \subseteq {"crash", "presence"}
  PROVE  Spec => PromiseKept
<1>1. Answering
  BY DEF Answering, SafeLedger
<1>2. Init => Promise!Init
  BY DEF Init, GatewayInit, NewRow, Promise!Init, TerminalStatuses
<1>3. /\ ProtocolInv /\ PaperInv /\ SuccessInv /\ HonestInv /\ [Next]_vars
      /\ ProtocolInv' /\ PaperInv' /\ SuccessInv' /\ HonestInv'
      => [Promise!Next]_(Promise!promiseVars)
  <2> SUFFICES ASSUME ProtocolInv, PaperInv, SuccessInv, HonestInv, [Next]_vars,
                      ProtocolInv', PaperInv', SuccessInv', HonestInv'
               PROVE  Promise!Next
    OBVIOUS
  <2>1. ASSUME NEW j \in Jobs
        PROVE  /\ Said(j)' \in Promise!Outcomes
               /\ paper'[j] \in Nat
               /\ \/ Said(j)' = Said(j) /\ paper'[j] = paper[j]
                  \/ Said(j)' = Said(j) /\ Said(j) \in {"open", "unknown"}
                       /\ paper[j] = 0 /\ paper'[j] = 1
                  \/ /\ paper'[j] = paper[j]
                     /\ \/ Said(j) = "open" /\ Said(j)' = "unknown"
                        \/ /\ Said(j) \in {"open", "unknown"}
                           /\ \/ Said(j)' = "printed" /\ paper[j] = 1
                              \/ Said(j)' = "not_printed" /\ paper[j] = 0
    <3>1. Said(j)' \in Promise!Outcomes /\ paper'[j] \in Nat
      BY DEF Said, PhysicalOutcome, Promise!Outcomes, ProtocolInv, TypeOK
    <3>2. CASE paper'[j] # paper[j]
      <4>1. Engaged(j) /\ paper[j] = 0 /\ paper'[j] = 1 /\ row' = row
        BY <1>1, <3>2, PaperComesFromPrinting
      <4>2. Said(j) \notin {"printed", "not_printed"}
        BY <4>1, SaidIsAnOutcome DEF HonestInv, Honest, SuccessInv
      <4> QED
        BY <3>1, <4>1, <4>2, SaidIsAnOutcome DEF Said
    <3>3. CASE Said(j)' # Said(j)
      BY <1>1, <3>1, <3>3, SayingsAreHonest
    <3> QED
      BY <3>1, <3>2, <3>3
  <2>2. paper' \in [Jobs -> Nat]
    BY DEF ProtocolInv, TypeOK
  <2> QED
    BY <2>1, <2>2 DEF Said, Promise!Next, Promise!Keep, Promise!Emit, Promise!Confirm,
       Promise!GiveUp, Promise!Refuse, Promise!Says
<1>4. Spec => []PaperInv /\ []HonestInv /\ []SuccessInv
  BY <1>1, PaperInvariant, HonestInvariant, SuccessInvariant DEF Answering
<1> QED
  BY <1>2, <1>3, <1>4, ProtocolInvariant, PTL DEF Spec, PromiseKept, Promise!Spec
=============================================================================
