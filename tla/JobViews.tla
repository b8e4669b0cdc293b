------------------------------ MODULE JobViews ------------------------------
(***************************************************************************)
(* How the pages present a job: the Gateway's status filters               *)
(* (api/jobs/route.ts, actions.ts), the tabs of the desktop manager        *)
(* (desktop/main.tsx), its timeline (JobTimeline.tsx) and the words for an *)
(* error (desktop/lib/printers.ts).  Pure rules.                           *)
(*                                                                         *)
(* A row as the pages see it:                                              *)
(*   status, error   of JobStatus;                                         *)
(*   claimed         whether claimed_at is set;                            *)
(*   unnamed         whether its destination or its printer reads          *)
(*                   "unassigned";                                         *)
(*   owned           whether its agent and printer are active;             *)
(*   reachable       whether its printer is online on the workstation      *)
(*                   whose window is looked at.                            *)
(***************************************************************************)
EXTENDS PrintRules

JobRows ==
  [status : Statuses, error : Errors, claimed : BOOLEAN, unnamed : BOOLEAN,
   owned : BOOLEAN, reachable : BOOLEAN]

Marked(job) == job.error \in UnknownMarkers
Outcome(job) == DeriveOutcome(job.status, job.error)

-----------------------------------------------------------------------------
(* The Gateway's filters                                                   *)

Filter(name, job) ==
  \/ name = "all"
  \/ name \in {"active", "in_flight"} /\ job.status \in {"queued", "claimed", "printing"}
  \/ name \in {"queued", "claimed", "printing", "expired"} /\ job.status = name
  \/ name \in {"success", "printed"} /\ job.status = "success"
  \/ name \in {"unknown", "attention"} /\ Marked(job)
  \/ name = "failed" /\ job.status = "failed" /\ ~Marked(job)
  \/ name = "unassigned" /\ (job.unnamed \/ ~job.owned)

-----------------------------------------------------------------------------
(* The desktop's tabs                                                      *)

TabShows(tab, job) ==
  \/ tab = "all"
  \/ tab \in {"queued", "claimed", "printing"} /\ job.status = tab
  \/ tab = "unassigned" /\ (job.unnamed \/ ~job.reachable)
  \/ tab = "printed" /\ job.status = "success"
  \/ tab = "unknown" /\ Outcome(job) = "unknown"
  \/ tab = "failed" /\ job.status = "failed" /\ Outcome(job) = "not_printed"
  \/ tab = "expired" /\ job.status = "expired" /\ Outcome(job) # "unknown"

(* failedJobs: what the Overview reports as "N jobs failed" and the failed  *)
(* tab has for its number: the expired ones, and those of unknown outcome, *)
(* too.                                                                    *)
CountedAsFailed(job) == job.status \in {"failed", "expired"}

(* jobCounts.                                                              *)
TabCounts(tab, job) ==
  IF tab = "failed" THEN CountedAsFailed(job) ELSE TabShows(tab, job)

(* The Gateway's dashboard: its KPIs "N failed before printing" and "needs *)
(* attention".                                                             *)
KpiFailed(job) == job.status = "failed" /\ Outcome(job) = "not_printed"
KpiAttention(job) == Outcome(job) = "unknown"

-----------------------------------------------------------------------------
(* The timeline                                                            *)

Ended(job) == job.status \in {"failed", "expired"}
Unknown(job) == Outcome(job) = "unknown"

Reached(step, job) ==
  \/ step = "Queued"
  \/ job.status \in {"printing", "success"} \/ (Ended(job) /\ Unknown(job))
  \/ step = "Claimed" /\ (job.claimed \/ job.status = "claimed")

IsCurrent(step, job) ==
  \/ step = "Claimed" /\ job.status = "claimed"
  \/ step = "Printing" /\ job.status = "printing"

(* A live row that carries a marker shows no current step.                 *)
StepState(step, job) ==
  IF IsCurrent(step, job) /\ ~Ended(job) /\ ~Unknown(job) THEN "current"
  ELSE IF Reached(step, job) THEN "done" ELSE "todo"

TerminalTone(job) ==
  IF job.status = "success" THEN "ok"
  ELSE IF Unknown(job) THEN "warn" ELSE IF Ended(job) THEN "bad" ELSE "todo"

TerminalLabel(job) ==
  IF job.status = "success" \/ Ended(job) \/ Unknown(job) THEN JobLabel(job.status, Outcome(job))
                                                         ELSE "Outcome"

-----------------------------------------------------------------------------
(* The words for an error                                                  *)

(* What a text is searched for, in this order; a marker is itself such a   *)
(* text, and two of them read like a timeout or an expiry.                 *)
Mentions == {"refused", "timeout", "offline", "not found", "denied"}

(* friendlyPrinterError of a text that opens with `error` and mentions     *)
(* some of these words.                                                    *)
FriendlyError(error, words) ==
  IF error \in UnknownMarkers THEN "unknown"
  ELSE IF "refused" \in words THEN "could not connect"
  ELSE IF "timeout" \in words THEN "did not respond"
  ELSE IF "offline" \in words THEN "offline"
  ELSE IF "not found" \in words THEN "not found"
  ELSE IF "denied" \in words THEN "access denied" ELSE "as it is"

(* The desktop's inspector of a job: a row with an error text is announced *)
(* as unknown or as failed before printing, to be sent again; one without  *)
(* by its guidance.                                                        *)
InspectorAdvisesResend(job) ==
  IF job.error # "none" THEN ~Unknown(job) ELSE GuidanceAllowsResend(job.status, Outcome(job))
=============================================================================
