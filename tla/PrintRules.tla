----------------------------- MODULE PrintRules -----------------------------
(***************************************************************************)
(* The pure rules that decide what may be printed where, and what the      *)
(* consoles say of it: the payload schema (payload.ts), the capability     *)
(* table (routing.ts), the virtual-printer guard (printer-virtual.ts),     *)
(* availability (agent-availability.ts) and the client's own version of    *)
(* these judgements (job-vocabulary.ts).                                   *)
(*                                                                         *)
(* Texts are lower case and trimmed, "" is null or absent.  The bytes of a *)
(* payload are known by their signature, a printer's name, driver and port *)
(* by the family of the token list they match.                             *)
(***************************************************************************)
EXTENDS JobStatus, FiniteSets

CONSTANT StaleAfter       \* STALE_AGENT_THRESHOLD_SECONDS
ASSUME StaleAssumption == StaleAfter \in Nat

ByteProtocols == {"escpos", "zpl", "tspl", "raw"}
DocumentTransports == {"spooler", "ipp", "ipps"}
Signatures == {"pdf", "jpeg", "other"}

Payload ==
  [type : {"raw", "escpos", "pdf", "image"}, protocol : ByteProtocols \cup {""},
   signature : Signatures, peripherals : BOOLEAN]

(* printJobPayloadSchema, the size and base64 checks left out.             *)
ValidPayload(payload) ==
  /\ payload.type = "pdf" => payload.signature = "pdf"
  /\ payload.type = "image" => payload.signature = "jpeg"
  /\ payload.type \in {"raw", "escpos"} => payload.signature # "pdf"
  /\ payload.type = "raw" => payload.protocol # ""
  /\ payload.type = "escpos" => payload.protocol = "escpos"
  /\ payload.type \in {"pdf", "image"} => payload.protocol = ""
  /\ payload.peripherals => payload.protocol = "escpos"

(* "unknown" means no language is declared: the connection decides then.   *)
Family(printer) ==
  IF printer.protocol \notin {"", "unknown"} THEN printer.protocol ELSE printer.connection

(* A reported list of supported protocols is authoritative; the family is  *)
(* looked at only where there is none (or an empty one).                   *)
Accepts(printer, declared, transports) ==
  IF printer.supported # {} THEN declared \cap printer.supported # {}
                            ELSE Family(printer) \in transports

ValidatePayloadForPrinter(payload, printer) ==
  \/ /\ payload.type = "pdf" /\ payload.protocol = ""
     /\ Accepts(printer, {"pdf"} \cup DocumentTransports, DocumentTransports)
  \/ /\ payload.type = "image" /\ payload.protocol = ""
     /\ Accepts(printer, {"image", "jpeg", "escpos"} \cup DocumentTransports, {"spooler", "escpos"})
  \/ /\ payload.type = "escpos" /\ payload.protocol \in {"", "escpos"}
     /\ Accepts(printer, {"escpos"}, {"escpos"})
  \/ /\ payload.type = "raw" /\ payload.protocol \in ByteProtocols
     /\ Accepts(printer, {payload.protocol}, {payload.protocol})

(* The language of a test ticket: the declared one, or the first of the    *)
(* listed ones in the order escpos, zpl, tspl, raw.                        *)
TestLanguage(printer) ==
  IF printer.protocol \in ByteProtocols THEN printer.protocol
  ELSE IF "escpos" \in printer.supported THEN "escpos"
  ELSE IF "zpl" \in printer.supported THEN "zpl"
  ELSE IF "tspl" \in printer.supported THEN "tspl"
  ELSE IF "raw" \in printer.supported THEN "raw" ELSE ""

IsDocumentTransport(printer) ==
  \/ printer.connection \in DocumentTransports
  \/ printer.protocol \in DocumentTransports
  \/ printer.supported \cap ({"pdf"} \cup DocumentTransports) # {}

HasTestPage(printer) == TestLanguage(printer) # "" \/ IsDocumentTransport(printer)

(* buildTestPrintPayloadForPrinter: the payload it returns where it does   *)
(* not throw.                                                              *)
TestPayloadFor(printer) ==
  LET language == TestLanguage(printer)
  IN  [type |-> IF language = "" THEN "pdf" ELSE IF language = "escpos" THEN "escpos" ELSE "raw",
       protocol |-> language,
       signature |-> IF language = "" THEN "pdf" ELSE "other",
       peripherals |-> FALSE]

-----------------------------------------------------------------------------
(* Virtual, software and redirected printers                               *)

SoftwareOnly == {"writer", "tunnel"}

(* isVirtualPrinterRecord.  `flagged` is a capability "virtual" that is     *)
(* true; `class`, `nestedPort` and `nestedIdentity` come from the same     *)
(* bag, `port` and `driver` from the row; a port is read for its monitor   *)
(* and, like the identities, for the words of writers and sessions.  The   *)
(* name alone is the last resort, and only the software writers are known  *)
(* by it.                                                                  *)
IsVirtualPrinterRecord(printer) ==
  \/ "virtual" \in {printer.kind, printer.connection, printer.protocol}
  \/ printer.flagged
  \/ printer.class \in {"virtual", "redirected"}
  \/ "software" \in {printer.nestedPort, printer.port}
  \/ printer.name = "redirected"
  \/ {printer.driver, printer.port, printer.nestedIdentity} \cap SoftwareOnly # {}
  \/ printer.name = "writer"

-----------------------------------------------------------------------------
(* Availability                                                            *)

(* getAgentAvailability.  `age` is now minus last_seen_at, and negative     *)
(* when the stored time lies ahead of this clock.                          *)
AgentAvailability(agent) ==
  IF agent.lifecycle # "active" THEN "inactive-lifecycle"
  ELSE IF agent.status # "online" THEN "offline"
  ELSE IF ~agent.seen THEN "missing-heartbeat"
  ELSE IF agent.age < 0 \/ agent.age > StaleAfter THEN "stale" ELSE "active-online-fresh"

IsAgentAvailableForJob(agent) == AgentAvailability(agent) = "active-online-fresh"

IsPrinterAvailableForJob(printer, agent) ==
  /\ printer.lifecycle = "active"
  /\ ~IsVirtualPrinterRecord(printer)
  /\ IsAgentAvailableForJob(agent)
  /\ printer.status = "online"

GetEffectivePrinterStatus(printer, agent) ==
  IF printer.lifecycle \in {"disabled", "retired"} THEN printer.lifecycle
  ELSE IF ~IsAgentAvailableForJob(agent) THEN "offline"
  ELSE IF printer.status = "" THEN "unknown" ELSE printer.status

-----------------------------------------------------------------------------
(* What the consoles say                                                   *)

HeartbeatStaleSeconds == 90     \* AGENT_HEARTBEAT_STALE_SECONDS: not configurable

(* agentLiveView: its tone.  An agent never seen has time 0, long stale.   *)
AgentTone(agent) ==
  IF agent.lifecycle # "active" THEN "neutral"
  ELSE IF agent.status # "online" THEN "bad"
  ELSE IF agent.seen /\ agent.age <= HeartbeatStaleSeconds THEN "ok" ELSE "warn"

EffectivePrinterStatus(printer, agent) ==
  IF printer.lifecycle # "active" THEN printer.lifecycle
  ELSE IF AgentTone(agent) # "ok" THEN "offline"
  ELSE IF printer.status = "" THEN "offline" ELSE printer.status

(* deriveOutcome: work under way is "unproven" to a reader of the console. *)
DeriveOutcome(status, error) ==
  IF status = "success" THEN "printed"
  ELSE IF error \in UnknownMarkers THEN "unknown"
  ELSE IF status \in {"claimed", "printing"} THEN "unproven" ELSE "not_printed"

JobTone(status, outcome) ==
  IF outcome = "unknown" THEN "warn"
  ELSE IF status = "success" THEN "ok"
  ELSE IF status \in {"failed", "expired"} THEN "bad"
  ELSE IF status \in {"printing", "claimed"} THEN "info" ELSE "neutral"

JobLabel(status, outcome) ==
  IF status \in {"failed", "expired"} /\ outcome = "unknown" THEN "Unknown outcome"
  ELSE IF status = "queued" THEN "Queued at Gateway"
  ELSE IF status = "claimed" THEN "Sent to agent"
  ELSE IF status = "printing" THEN "Printing"
  ELSE IF status = "success" THEN "Printed"
  ELSE IF status = "failed" THEN "Failed (not printed)" ELSE "Expired (never claimed)"

(* Whether the sentence below the label tells the operator to send the     *)
(* document again: never for an unknown outcome.                           *)
GuidanceAllowsResend(status, outcome) ==
  outcome # "unknown" /\ status \in {"expired", "failed"}
=============================================================================
