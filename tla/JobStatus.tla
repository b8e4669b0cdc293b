----------------------------- MODULE JobStatus -----------------------------
(***************************************************************************)
(* The vocabulary of a print job: the statuses of a print_jobs row, the    *)
(* markers that open its error text, and the pure rules that decide which  *)
(* status may follow which (src/lib/job-status.ts).                        *)
(*                                                                         *)
(* Clock readings are abstracted to the windows the rules compare with:    *)
(*   age  how long ago the row's updated_at was written: 0 within the      *)
(*        90 s claim lease, 1 past it, 2 past the 600 s printing lease,    *)
(*        3 past the 24 h late-success window;                             *)
(*   ttl  where now lies around expires_at: "live" before it, "grace" in   *)
(*        the 5 minutes after it, "over" later.                            *)
(***************************************************************************)
EXTENDS Integers

Statuses == {"queued", "claimed", "printing", "success", "failed", "expired"}

TerminalStatuses == {"success", "failed", "expired"}

UnknownMarkers ==
  {"AGENT_EXECUTION_TIMEOUT", "AGENT_RESTART_DURING_PRINT", "JOB_EXPIRED_DURING_PRINT",
   "UNKNOWN_PARTIAL_DELIVERY", "UNKNOWN_SUBMISSION_OUTCOME"}

(* What an error column can hold, up to its prefix: SQL NULL or the empty  *)
(* text is "none", an unmarked text is "plain".                            *)
Errors == UnknownMarkers \cup {"none", "plain", "LATE_SUCCESS", "PRINTED_POST_EXPIRATION"}

PhysicalOutcome(status, error) ==
  IF status = "success" THEN "printed"
  ELSE IF error \in UnknownMarkers THEN "unknown" ELSE "not_printed"

Ages == 0 .. 3
Ttls == {"live", "grace", "over"}

ClaimLeaseOver(age)    == age >= 1
PrintingLeaseOver(age) == age >= 2

AllowedTransitions ==
  [queued   |-> {},
   claimed  |-> {"printing", "failed", "queued"},
   printing |-> {"success", "failed"},
   success  |-> {},
   failed   |-> {},
   expired  |-> {}]

(* canTransition with no options: the late override is a rule of its own.  *)
CanTransition(from, to) ==
  from \notin TerminalStatuses /\ to \in AllowedTransitions[from]

LateSuccessMarkers == {"AGENT_EXECUTION_TIMEOUT", "AGENT_RESTART_DURING_PRINT"}

LateSuccessAllowed(status, error, age) ==
  status = "failed" /\ error \in LateSuccessMarkers /\ age < 3

ExpiredLateSuccessAllowed(status, ttl) ==
  status = "expired" /\ ttl = "grace"
=============================================================================
