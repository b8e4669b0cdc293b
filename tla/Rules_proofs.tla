---------------------------- MODULE Rules_proofs ----------------------------
(***************************************************************************)
(* Proofs about the pure rules of PrintRules, Inventory, JobViews and       *)
(* ConsoleOffers: what two programs that were written apart decide about   *)
(* the same printer, what the pages say of a job and what they offer to do *)
(* about it, for every configuration, report and row.                      *)
(***************************************************************************)
EXTENDS Inventory, ConsoleOffers, TLAPS

-----------------------------------------------------------------------------
(* Capabilities                                                            *)

(* The table of the Go agent and that of the Gateway are the same table:   *)
(* they accept the same payloads for the same facts about a printer        *)
(* (capability.go "mirrors src/lib/routing.ts (gateway) EXACTLY").         *)
THEOREM TablesAgree ==
  ASSUME NEW payload \in Payload, NEW printer
  PROVE  ValidatePayloadForPrinter(payload, printer)
           <=> PayloadCompatibleForDevice(payload, printer)
<1> DEFINE type == payload.type
<1> USE DEF Payload, ByteProtocols, DocumentTransports
<1>1. CASE type = "pdf"
  BY <1>1 DEF ValidatePayloadForPrinter, PayloadCompatibleForDevice, Accepts, Declared
<1>2. CASE type = "image"
  BY <1>2 DEF ValidatePayloadForPrinter, PayloadCompatibleForDevice, Accepts, Declared
<1>3. CASE type = "escpos"
  BY <1>3 DEF ValidatePayloadForPrinter, PayloadCompatibleForDevice, Accepts, Declared
<1>4. CASE type = "raw"
  BY <1>4 DEF ValidatePayloadForPrinter, PayloadCompatibleForDevice, Accepts, Declared
<1> QED
  BY <1>1, <1>2, <1>3, <1>4

(* The table looks only at the language, the connection and the list.      *)
LEMMA OnlyFactsMatter ==
  ASSUME NEW payload \in Payload, NEW p, NEW q,
         Family(p) = Family(q),
         (p.supported = {}) <=> (q.supported = {}),
         p.supported \cap CapabilityTokens = q.supported \cap CapabilityTokens
  PROVE  ValidatePayloadForPrinter(payload, p) <=> ValidatePayloadForPrinter(payload, q)
<1>1. ASSUME NEW names \in SUBSET CapabilityTokens, NEW families
      PROVE  Accepts(p, names, families) <=> Accepts(q, names, families)
  <2>1. names \cap p.supported = names \cap q.supported
    OBVIOUS
  <2> QED
    BY <2>1 DEF Accepts
<1>2. /\ {"pdf"} \cup DocumentTransports \in SUBSET CapabilityTokens
      /\ {"image", "jpeg", "escpos"} \cup DocumentTransports \in SUBSET CapabilityTokens
      /\ {"escpos"} \in SUBSET CapabilityTokens
      /\ \A b \in ByteProtocols : {b} \in SUBSET CapabilityTokens
  BY DEF CapabilityTokens, ByteProtocols, DocumentTransports
<1> QED
  BY <1>1, <1>2 DEF ValidatePayloadForPrinter

(* The list the agent derives where the operator configured none accepts   *)
(* the same payloads as the family it was derived from.                    *)
LEMMA DerivedListIsHonest ==
  ASSUME NEW payload \in Payload, NEW p, NEW q,
         p.supported = {}, Family(p) = Family(q),
         q.supported = SupportedProtocolsForDevice(p)
  PROVE  ValidatePayloadForPrinter(payload, p) <=> ValidatePayloadForPrinter(payload, q)
<1> USE DEF Payload, ByteProtocols, DocumentTransports, ValidatePayloadForPrinter, Accepts,
            SupportedProtocolsForDevice
<1>1. CASE Family(p) = "escpos"
  BY <1>1
<1>2. CASE Family(p) \in {"zpl", "tspl", "raw"}
  BY <1>2
<1>3. CASE Family(p) = "spooler"
  BY <1>3
<1>4. CASE Family(p) \in {"ipp", "ipps"}
  BY <1>4
<1>5. CASE Family(p) \notin {"escpos", "zpl", "tspl", "raw", "spooler", "ipp", "ipps"}
  <2>1. q.supported = {}
    BY <1>5
  <2> QED
    BY <2>1
<1> QED
  BY <1>1, <1>2, <1>3, <1>4, <1>5

(* What the agent reported and the Gateway stored decides like the agent   *)
(* itself, for every configuration the operator may have written: the      *)
(* Gateway never queues a payload its agent will refuse for its kind, and  *)
(* refuses none the agent would print.  The list in the configuration, if  *)
(* there is one, must name a capability the Gateway knows.                 *)
THEOREM GatewayAgreesWithAgent ==
  ASSUME NEW config \in Configuration, NEW probed, NEW payload \in Payload,
         config.listed => \/ config.explicit = {}
                          \/ config.explicit \cap CapabilityTokens # {}
  PROVE  ValidatePayloadForPrinter(payload, Stored(config, probed))
           <=> PayloadCompatibleForDevice(payload, DeviceFacts(config))
<1> DEFINE facts == DeviceFacts(config)
           stored == Stored(config, probed)
<1>1. Family(stored) = Family(facts)
  BY DEF Family, Stored, Sanitized, Report, DeviceFacts
<1>2. ValidatePayloadForPrinter(payload, facts) <=> PayloadCompatibleForDevice(payload, facts)
  BY TablesAgree
<1>3. CASE config.listed
  <2>1. /\ stored.supported = config.explicit \cap CapabilityTokens
        /\ facts.supported = config.explicit
    BY <1>3 DEF Stored, Sanitized, Report, DeviceFacts
  <2>2. (stored.supported = {}) <=> (facts.supported = {})
    BY <1>3, <2>1
  <2>3. stored.supported \cap CapabilityTokens = facts.supported \cap CapabilityTokens
    BY <2>1
  <2> HIDE DEF facts, stored
  <2>4. ValidatePayloadForPrinter(payload, stored) <=> ValidatePayloadForPrinter(payload, facts)
    BY <1>1, <2>2, <2>3, OnlyFactsMatter
  <2> QED
    BY <1>2, <2>4 DEF facts, stored
<1>4. CASE ~config.listed
  <2>1. facts.supported = {}
    BY <1>4 DEF DeviceFacts
  <2>2. SupportedProtocolsForDevice(facts) \subseteq CapabilityTokens
    BY DEF SupportedProtocolsForDevice, CapabilityTokens
  <2>3. stored.supported = SupportedProtocolsForDevice(facts)
    BY <1>4, <2>2 DEF Stored, Sanitized, Report
  <2> HIDE DEF facts, stored
  <2>4. ValidatePayloadForPrinter(payload, facts) <=> ValidatePayloadForPrinter(payload, stored)
    BY <1>1, <2>1, <2>3, DerivedListIsHonest
  <2> QED
    BY <1>2, <2>4 DEF facts, stored
<1> QED
  BY <1>3, <1>4

(* Where it names none, they part: the cleaning of the report leaves no    *)
(* list, so the Gateway goes by the family and may queue, while the agent  *)
(* goes by the list and refuses whatever comes (heartbeat/route.ts says    *)
(* that what it drops "can never route").                                  *)
THEOREM UnknownListsDivide ==
  ASSUME NEW config \in Configuration, NEW probed, NEW payload \in Payload,
         config.listed, config.explicit # {}, config.explicit \cap CapabilityTokens = {}
  PROVE  /\ ~PayloadCompatibleForDevice(payload, DeviceFacts(config))
         /\ ValidatePayloadForPrinter(payload, Stored(config, probed))
              <=> ValidatePayloadForPrinter(payload, [DeviceFacts(config) EXCEPT !.supported = {}])
<1> DEFINE facts == DeviceFacts(config)
           stored == Stored(config, probed)
           bare == [facts EXCEPT !.supported = {}]
<1>1. facts.supported = config.explicit /\ stored.supported = {}
  BY DEF Stored, Sanitized, Report, DeviceFacts
<1>2. ~PayloadCompatibleForDevice(payload, facts)
  <2>1. ASSUME NEW names \in SUBSET CapabilityTokens, NEW families
        PROVE  ~Declared(facts, names, families)
    BY <1>1, <2>1 DEF Declared
  <2>2. /\ {"pdf", "spooler", "ipp", "ipps"} \in SUBSET CapabilityTokens
        /\ {"image", "jpeg", "spooler", "ipp", "ipps", "escpos"} \in SUBSET CapabilityTokens
        /\ \A b \in {"raw", "escpos", "zpl", "tspl"} : {b} \in SUBSET CapabilityTokens
    BY DEF CapabilityTokens, ByteProtocols, DocumentTransports
  <2> QED
    BY <2>1, <2>2 DEF PayloadCompatibleForDevice
<1>3. Family(stored) = Family(bare) /\ bare.supported = {}
  BY DEF Family, Stored, Sanitized, Report, DeviceFacts
<1> HIDE DEF facts, stored, bare
<1>4. ValidatePayloadForPrinter(payload, stored) <=> ValidatePayloadForPrinter(payload, bare)
  BY <1>1, <1>3, OnlyFactsMatter
<1> QED
  BY <1>2, <1>4 DEF facts, stored, bare

-----------------------------------------------------------------------------
(* The test page                                                           *)

(* The console offers a test page only where it will be printed: built for *)
(* what an agent reported of a printer without a list of its own, it is a  *)
(* well-formed payload that the Gateway and the agent both accept          *)
(* (actions.ts builds it after the agent's report, no operator chooses).   *)
THEOREM TestPageIsAccepted ==
  ASSUME NEW config \in Configuration, NEW probed, ~config.listed,
         HasTestPage(Stored(config, probed))
  PROVE  LET page == TestPayloadFor(Stored(config, probed))
         IN  /\ ValidPayload(page)
             /\ ValidatePayloadForPrinter(page, Stored(config, probed))
             /\ PayloadCompatibleForDevice(page, DeviceFacts(config))
<1> DEFINE stored == Stored(config, probed)
           facts == DeviceFacts(config)
           page == TestPayloadFor(stored)
           family == Family(facts)
<1>1. stored.supported = (IF family \in ByteProtocols THEN {family} ELSE {})
                           \cup (IF family \in DocumentTransports THEN {"pdf"} ELSE {})
                           \cup (IF family \in {"escpos", "spooler"} THEN {"image"} ELSE {})
  BY DEF Stored, Sanitized, Report, SupportedProtocolsForDevice, CapabilityTokens
<1>2. /\ stored.protocol = facts.protocol /\ stored.connection = facts.connection
      /\ facts.protocol \in PrinterProtocols
  BY DEF Stored, Sanitized, Report, DeviceFacts, NormalizedProtocol, PrinterProtocols,
         DocumentTransports
<1>3. family = IF stored.protocol # "unknown" THEN stored.protocol ELSE stored.connection
  BY <1>2 DEF Family, PrinterProtocols, ByteProtocols, DocumentTransports
<1>4. page \in Payload /\ ValidPayload(page)
  BY DEF TestPayloadFor, TestLanguage, Payload, ValidPayload, ByteProtocols, Signatures
<1>5. ValidatePayloadForPrinter(page, stored)
  <2> HIDE DEF stored, family
  <2>1. CASE TestLanguage(stored) # ""
    <3>1. TestLanguage(stored) \in ByteProtocols /\ TestLanguage(stored) \in stored.supported
      BY <1>1, <1>3, <2>1 DEF TestLanguage, ByteProtocols
    <3> QED
      BY <2>1, <3>1 DEF ValidatePayloadForPrinter, Accepts, TestPayloadFor, ByteProtocols
  <2>2. CASE TestLanguage(stored) = ""
    <3>1. IsDocumentTransport(stored)
      BY <2>2 DEF HasTestPage, stored
    <3>2. "pdf" \in stored.supported
      BY <1>1, <1>2, <1>3, <2>2, <3>1
      DEF IsDocumentTransport, TestLanguage, PrinterProtocols, ByteProtocols, DocumentTransports
    <3> QED
      BY <2>2, <3>2 DEF ValidatePayloadForPrinter, Accepts, TestPayloadFor
  <2> QED
    BY <2>1, <2>2
<1>6. PayloadCompatibleForDevice(page, facts)
  BY <1>4, <1>5, GatewayAgreesWithAgent
<1> QED
  BY <1>4, <1>5, <1>6

-----------------------------------------------------------------------------
(* Presence                                                                *)

Agent == [lifecycle : {"active", "disabled", "retired"}, status : STRING, seen : BOOLEAN, age : Int]

(* With the shared threshold, and clocks that agree, a green agent on the  *)
(* console is one the Gateway gives jobs to, and only such a one is green  *)
(* (presence.ts: one vocabulary for the console and the server).           *)
THEOREM GreenAgentIsAvailable ==
  ASSUME NEW agent \in Agent, StaleAfter = HeartbeatStaleSeconds, agent.seen => agent.age >= 0
  PROVE  AgentTone(agent) = "ok" <=> IsAgentAvailableForJob(agent)
<1>1. agent.age \in Int /\ agent.seen \in BOOLEAN
  BY DEF Agent
<1>2. CASE agent.seen = TRUE
  BY <1>1, <1>2
  DEF AgentTone, IsAgentAvailableForJob, AgentAvailability, HeartbeatStaleSeconds
<1>3. CASE agent.seen = FALSE
  BY <1>3 DEF AgentTone, IsAgentAvailableForJob, AgentAvailability
<1> QED
  BY <1>1, <1>2, <1>3

(* An online printer on the console takes jobs, as long as the server is   *)
(* not configured to be stricter than the console's own 90 seconds.        *)
THEOREM OnlinePrinterIsOnline ==
  ASSUME NEW agent \in Agent, StaleAfter >= HeartbeatStaleSeconds, agent.seen => agent.age >= 0,
         NEW printer, EffectivePrinterStatus(printer, agent) = "online",
         printer.lifecycle \in {"active", "disabled", "retired"}
  PROVE  /\ GetEffectivePrinterStatus(printer, agent) = "online"
         /\ ~IsVirtualPrinterRecord(printer) => IsPrinterAvailableForJob(printer, agent)
<1>1. printer.lifecycle = "active" /\ AgentTone(agent) = "ok" /\ printer.status = "online"
  BY DEF EffectivePrinterStatus
<1>2. IsAgentAvailableForJob(agent)
  BY <1>1, StaleAssumption
  DEF Agent, AgentTone, HeartbeatStaleSeconds, IsAgentAvailableForJob, AgentAvailability
<1> QED
  BY <1>1, <1>2 DEF GetEffectivePrinterStatus, IsPrinterAvailableForJob

-----------------------------------------------------------------------------
(* Words                                                                   *)

(* A job that ended with an unknown outcome is never itself called failed, *)
(* and the operator is never told to send it again: not by its label,      *)
(* tone, guidance, error text or inspector, nor by a timeline that stops   *)
(* short of the printer; the dashboard's numbers and the lists behind the  *)
(* filters and tabs put it under what needs attention (job-vocabulary.ts   *)
(* "never a plain 'Failed' when paper may exist").  The desktop's own      *)
(* number of failed jobs is the exception: the Overview and the failed tab *)
(* count it (failedJobs, main.tsx), so that the tab's number exceeds its   *)
(* list by every such job.                                                 *)
THEOREM UnknownIsCalledUnknown ==
  ASSUME NEW job \in JobRows, NEW words \in SUBSET Mentions, job.status \in {"failed", "expired"},
         Marked(job)
  PROVE  /\ JobLabel(job.status, Outcome(job)) = "Unknown outcome"
         /\ JobTone(job.status, Outcome(job)) = "warn"
         /\ ~GuidanceAllowsResend(job.status, Outcome(job)) /\ ~InspectorAdvisesResend(job)
         /\ FriendlyError(job.error, words) = "unknown"
         /\ TerminalTone(job) = "warn" /\ TerminalLabel(job) = "Unknown outcome"
         /\ \A step \in {"Queued", "Claimed", "Printing"} : StepState(step, job) = "done"
         /\ Filter("attention", job) /\ TabShows("unknown", job) /\ KpiAttention(job)
         /\ ~Filter("failed", job) /\ ~TabShows("failed", job) /\ ~KpiFailed(job)
         /\ CountedAsFailed(job) /\ TabCounts("failed", job)
<1>1. Outcome(job) = "unknown"
  BY DEF Outcome, DeriveOutcome, Marked
<1>2. job.error # "none"
  BY DEF Marked, UnknownMarkers
<1>3. /\ Unknown(job) /\ Ended(job)
  BY <1>1 DEF Unknown, Ended
<1>4. JobLabel(job.status, Outcome(job)) = "Unknown outcome"
  BY <1>1 DEF JobLabel
<1>5. JobTone(job.status, Outcome(job)) = "warn"
  BY <1>1 DEF JobTone
<1>6. ~GuidanceAllowsResend(job.status, Outcome(job)) /\ ~InspectorAdvisesResend(job)
  BY <1>1, <1>2, <1>3 DEF GuidanceAllowsResend, InspectorAdvisesResend
<1>7. FriendlyError(job.error, words) = "unknown"
  BY DEF FriendlyError, Marked
<1>8. TerminalTone(job) = "warn" /\ TerminalLabel(job) = "Unknown outcome"
  BY <1>3, <1>4 DEF TerminalTone, TerminalLabel, Ended
<1>9. ASSUME NEW step \in {"Queued", "Claimed", "Printing"}
      PROVE  StepState(step, job) = "done"
  BY <1>3 DEF StepState, Reached
<1>10. Filter("attention", job) /\ TabShows("unknown", job) /\ KpiAttention(job)
  BY <1>1 DEF Filter, TabShows, KpiAttention
<1>11. ~Filter("failed", job) /\ ~TabShows("failed", job) /\ ~KpiFailed(job)
  BY <1>1 DEF Filter, TabShows, KpiFailed
<1>12. CountedAsFailed(job) /\ TabCounts("failed", job)
  BY DEF CountedAsFailed, TabCounts
<1> QED
  BY <1>4, <1>5, <1>6, <1>7, <1>8, <1>9, <1>10, <1>11, <1>12

(* The console calls a job "Failed (not printed)" only where the Gateway   *)
(* would answer not_printed, and "Printed" only where it answers printed.  *)
THEOREM WordsMatchOutcome ==
  ASSUME NEW job \in JobRows
  PROVE  /\ JobLabel(job.status, Outcome(job)) = "Failed (not printed)"
              => PhysicalOutcome(job.status, job.error) = "not_printed"
         /\ JobLabel(job.status, Outcome(job)) = "Printed"
              => PhysicalOutcome(job.status, job.error) = "printed"
<1>1. job.status \in Statuses
  BY DEF JobRows
<1> QED
  BY <1>1 DEF Statuses, JobLabel, Outcome, DeriveOutcome, PhysicalOutcome

(* A job that ended is under exactly one of the tabs for ended jobs.       *)
THEOREM EndedJobIsListedOnce ==
  ASSUME NEW job \in JobRows, job.status \in TerminalStatuses
  PROVE  \E tab \in {"printed", "unknown", "failed", "expired"} :
           /\ TabShows(tab, job)
           /\ \A other \in {"printed", "unknown", "failed", "expired"} \ {tab} : ~TabShows(other, job)
<1> DEFINE tab == IF job.status = "success" THEN "printed"
                  ELSE IF Marked(job) THEN "unknown" ELSE job.status
<1>1. tab \in {"printed", "unknown", "failed", "expired"}
  BY DEF TerminalStatuses
<1>2. TabShows(tab, job)
  BY DEF TerminalStatuses, TabShows, Outcome, DeriveOutcome, Marked
<1>3. ASSUME NEW other \in {"printed", "unknown", "failed", "expired"}, other # tab
      PROVE  ~TabShows(other, job)
  BY <1>3 DEF TerminalStatuses, TabShows, Outcome, DeriveOutcome, Marked
<1> QED
  BY <1>1, <1>2, <1>3

(* The tabs of the desktop and the filters of the Gateway list the same    *)
(* rows under the same name, except that an expired job of unknown outcome *)
(* is listed by the Gateway among the expired ones too.                    *)
THEOREM TabsAgreeWithFilters ==
  ASSUME NEW job \in JobRows, Marked(job) => job.status # "success"
  PROVE  /\ \A name \in {"all", "queued", "claimed", "printing", "printed", "unknown", "failed"} :
              TabShows(name, job) <=> Filter(name, job)
         /\ TabShows("expired", job) <=> Filter("expired", job) /\ ~Filter("unknown", job)
<1>1. ASSUME NEW name \in {"all", "queued", "claimed", "printing", "printed", "unknown", "failed"}
      PROVE  TabShows(name, job) <=> Filter(name, job)
  BY <1>1 DEF TabShows, Filter, Outcome, DeriveOutcome, Marked
<1>2. TabShows("expired", job) <=> Filter("expired", job) /\ ~Filter("unknown", job)
  BY DEF TabShows, Filter, Outcome, DeriveOutcome, Marked
<1> QED
  BY <1>1, <1>2

(* Where they part from job-vocabulary.ts: a success that came late keeps  *)
(* its error text, so the desktop's timeline ends in "Printed" while its   *)
(* inspector, looking only at the text, says that the print failed and     *)
(* that the document is to be sent again.                                  *)
THEOREM LateSuccessLooksFailed ==
  ASSUME NEW job \in JobRows, job.status = "success",
         job.error \in {"LATE_SUCCESS", "PRINTED_POST_EXPIRATION"}
  PROVE  TerminalLabel(job) = "Printed" /\ InspectorAdvisesResend(job)
<1>1. Outcome(job) = "printed"
  BY DEF Outcome, DeriveOutcome
<1> QED
  BY <1>1 DEF TerminalLabel, JobLabel, InspectorAdvisesResend, Unknown

-----------------------------------------------------------------------------
(* Buttons                                                                 *)

(* What the inspector of a job offers the Gateway accepts, a document that *)
(* was printed or is on its way is never offered again, and one that may   *)
(* have been printed only with the warning (actions.ts "physical reprints  *)
(* of unknown outcomes are always an explicit operator action").           *)
THEOREM ReprintOffersAreHonest ==
  ASSUME NEW job \in JobRows, OffersReprint(job) \/ OffersRetry(job)
  PROVE  /\ ReprintAccepted(job)
         /\ PhysicalOutcome(job.status, job.error) # "printed"
         /\ PhysicalOutcome(job.status, job.error) = "unknown" <=> WarnsOfDuplicate(job)
<1>1. CASE OffersReprint(job)
  <2>1. job.status # "success" /\ job.error \in UnknownMarkers /\ job.status \in TerminalStatuses
    BY <1>1 DEF OffersReprint, Outcome, DeriveOutcome, TerminalStatuses
  <2> QED
    BY <1>1, <2>1 DEF OffersReprint, WarnsOfDuplicate, ReprintAccepted, PhysicalOutcome
<1>2. CASE OffersRetry(job)
  <2>1. job.status = "failed" /\ job.error \notin UnknownMarkers
    BY <1>2 DEF OffersRetry, Outcome, DeriveOutcome
  <2> QED
    BY <1>2, <2>1
    DEF OffersRetry, WarnsOfDuplicate, ReprintAccepted, PhysicalOutcome, TerminalStatuses
<1> QED
  BY <1>1, <1>2

(* Every lifecycle the console offers for an agent is one it may go to.    *)
THEOREM AgentOffersAreLegal ==
  ASSUME NEW agent \in Agent, NEW next \in AgentOffers(agent) \ {"delete"}
  PROVE  CanTransitionLifecycle(agent.lifecycle, next) /\ next # agent.lifecycle
<1>1. agent.lifecycle \in Lifecycles
  BY DEF Agent, Lifecycles
<1> QED
  BY <1>1 DEF AgentOffers, CanTransitionLifecycle, Lifecycles

(* Not so for a printer: beside a retired one stands a button to enable it *)
(* again that the Gateway always refuses; and a thermal printer without a  *)
(* declared language is said to print ESC/POS, which it refuses too.       *)
THEOREM PrinterOffersExceed ==
  ASSUME NEW printer
  PROVE  /\ printer.lifecycle = "retired"
              => \A next \in PrinterOffers(printer) : ~CanTransitionLifecycle("retired", next)
         /\ /\ printer.class = "thermal" /\ printer.connection = "network"
            /\ printer.protocol = "unknown" /\ printer.supported = {}
            => /\ "escpos" \in Badges(printer)
               /\ \A payload \in Payload : ~ValidatePayloadForPrinter(payload, printer)
<1>1. ASSUME printer.lifecycle = "retired", NEW next \in PrinterOffers(printer)
      PROVE  ~CanTransitionLifecycle("retired", next)
  BY <1>1 DEF PrinterOffers, CanTransitionLifecycle
<1>2. ASSUME printer.class = "thermal", printer.connection = "network",
             printer.protocol = "unknown", printer.supported = {}
      PROVE  /\ "escpos" \in Badges(printer)
             /\ \A payload \in Payload : ~ValidatePayloadForPrinter(payload, printer)
  <2>1. Family(printer) = "network"
    BY <1>2 DEF Family
  <2>2. "escpos" \in Badges(printer)
    BY <1>2 DEF Badges
  <2>3. ASSUME NEW payload \in Payload
        PROVE  ~ValidatePayloadForPrinter(payload, printer)
    BY <1>2, <2>1 DEF ValidatePayloadForPrinter, Accepts, ByteProtocols, DocumentTransports
  <2> QED
    BY <2>2, <2>3
<1> QED
  BY <1>1, <1>2
=============================================================================
