--------------------------- MODULE ConsoleOffers ---------------------------
(***************************************************************************)
(* What the web console offers to do (dashboard-client.tsx), next to what  *)
(* the Gateway's actions then accept (actions.ts).  Pure rules about the   *)
(* rows a page shows; that a row may have changed since is Console's.      *)
(***************************************************************************)
EXTENDS JobViews, Lifecycle

(* The buttons beside an agent: the lifecycle each asks for, or "delete".  *)
AgentOffers(agent) ==
  {"delete"} \cup (IF agent.lifecycle = "active" THEN {"disabled"} ELSE {})
             \cup (IF agent.lifecycle = "disabled" THEN {"active"} ELSE {})
             \cup (IF agent.lifecycle # "retired" THEN {"retired"} ELSE {})

(* deleteAgent, its history and its connection apart.                      *)
DeleteAccepted(agent) == agent.status # "online" /\ agent.lifecycle # "retired"

(* Beside a printer: a test page, and its lifecycle.                       *)
OffersTestPage(printer) == printer.lifecycle = "active"
PrinterOffers(printer) == IF printer.lifecycle = "active" THEN {"disabled"} ELSE {"active"}

(* getPrinterBadges: what a printer is said to print.                      *)
Badges(printer) ==
  (IF printer.class = "thermal" \/ printer.protocol = "escpos" THEN {"escpos"} ELSE {})
    \cup (IF printer.class = "label" THEN {"labels"} ELSE {})
    \cup (IF printer.connection = "spooler" \/ printer.class = "laser" \/ printer.protocol = "ipp"
          THEN {"pdf"} ELSE {})

(* The inspector of a job: the button that sends the document again, in    *)
(* its two wordings, and the warning before it is done.                    *)
OffersReprint(job) == Outcome(job) = "unknown" /\ job.status \in TerminalStatuses
OffersRetry(job) == job.status = "failed" /\ Outcome(job) = "not_printed"
WarnsOfDuplicate(job) == Outcome(job) = "unknown"

(* reprintJob's condition.                                                 *)
ReprintAccepted(job) == job.status \in TerminalStatuses
=============================================================================
