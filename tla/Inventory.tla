----------------------------- MODULE Inventory -----------------------------
(***************************************************************************)
(* What a printer can print, told twice: the agent judges by its local     *)
(* configuration (agent.go, config.go, capability.go) and reports it with  *)
(* every heartbeat; the Gateway cleans the report (heartbeat/route.ts,     *)
(* printer-model.ts) and judges by what it stored (routing.ts, PrintRules).*)
(*                                                                         *)
(* Pure rules.  Texts are lower case and trimmed, "" is absent.  A         *)
(* printer's local configuration has                                       *)
(*   connection, protocol   as the operator wrote them;                    *)
(*   explicit, listed       supported_protocols, and whether it is there;  *)
(*   class                  the free text printer_type;                    *)
(*   ip, port, queue        its endpoint: how the address reads ("", "bad" *)
(*                          with a blank in it, "good"), and whether there *)
(*                          is a port and a spooler queue.                 *)
(***************************************************************************)
EXTENDS PrintRules

PrinterProtocols == ByteProtocols \cup DocumentTransports \cup {"unknown"}
ConnectionTypes == {"network", "usb"} \cup DocumentTransports
DeviceClasses == {"thermal", "laser", "inkjet", "label", "other", "unknown"}
PrinterTypes == {"physical", "virtual", "redirected"}
PrinterStatuses == {"online", "offline", "busy", "error", "unknown"}
CapabilityTokens == ByteProtocols \cup DocumentTransports \cup {"pdf", "image", "jpeg"}

Configuration ==
  [connection : STRING, protocol : STRING, explicit : SUBSET STRING, listed : BOOLEAN,
   class : STRING, ip : {"", "bad", "good"}, port : BOOLEAN, queue : BOOLEAN]

-----------------------------------------------------------------------------
(* The agent                                                               *)

(* NormalizedType: an empty connection counts as a network one.            *)
NormalizedType(config) ==
  IF config.connection \in {"", "tcp"} THEN "network" ELSE config.connection

(* NormalizedProtocolOrUnknown: no language is ever invented; a queue or   *)
(* an IPP address names its own transport.                                 *)
NormalizedProtocol(config) ==
  IF config.protocol = "windows_spooler" THEN "spooler"
  ELSE IF config.protocol \in PrinterProtocols THEN config.protocol
  ELSE IF config.protocol = "" /\ config.connection \in DocumentTransports THEN config.connection
  ELSE "unknown"

(* deviceFacts, under the names PrintRules uses for a printer.             *)
DeviceFacts(config) ==
  [protocol |-> NormalizedProtocol(config), connection |-> NormalizedType(config),
   supported |-> IF config.listed THEN config.explicit ELSE {}]

(* PayloadCompatibleForDevice.                                             *)
Declared(facts, names, families) ==
  IF facts.supported # {} THEN facts.supported \cap names # {} ELSE Family(facts) \in families

PayloadCompatibleForDevice(payload, facts) ==
  \/ /\ payload.type = "pdf" /\ payload.protocol = ""
     /\ Declared(facts, {"pdf", "spooler", "ipp", "ipps"}, {"spooler", "ipp", "ipps"})
  \/ /\ payload.type = "image" /\ payload.protocol = ""
     /\ Declared(facts, {"image", "jpeg", "spooler", "ipp", "ipps", "escpos"}, {"spooler", "escpos"})
  \/ /\ payload.type = "escpos" /\ payload.protocol \in {"", "escpos"}
     /\ Declared(facts, {"escpos"}, {"escpos"})
  \/ /\ payload.type = "raw" /\ payload.protocol \in {"raw", "escpos", "zpl", "tspl"}
     /\ Declared(facts, {payload.protocol}, {payload.protocol})

(* SupportedProtocolsForDevice: the list reported where none is configured.*)
SupportedProtocolsForDevice(facts) ==
  LET family == Family(facts)
  IN  (IF family \in ByteProtocols THEN {family} ELSE {})
      \cup (IF family \in DocumentTransports THEN {"pdf"} ELSE {})
      \cup (IF family \in {"escpos", "spooler"} THEN {"image"} ELSE {})

(* One entry of printerStatusPayload.                                      *)
Report(config, probed) ==
  [connection |-> NormalizedType(config), protocol |-> NormalizedProtocol(config),
   supported |-> IF config.listed THEN config.explicit
                 ELSE SupportedProtocolsForDevice(DeviceFacts(config)),
   kind |-> IF config.class = "virtual" THEN "virtual" ELSE "physical",
   class |-> IF config.class \in {"", "virtual"} THEN "unknown" ELSE config.class,
   status |-> probed, ip |-> config.ip, port |-> config.port, queue |-> config.queue]

-----------------------------------------------------------------------------
(* The Gateway                                                             *)

(* validateConnectionConfig: whether it returns no objection.              *)
ConnectionConfigured(report) ==
  /\ report.connection = "network" => report.ip = "good" /\ report.port
  /\ report.connection = "spooler" => report.queue

(* sanitizePrinter: whether the report is stored at all (its sizes and its *)
(* names apart).                                                           *)
Storable(report) ==
  /\ report.connection \in ConnectionTypes
  /\ report.kind \in PrinterTypes /\ report.class \in DeviceClasses
  /\ report.protocol \in PrinterProtocols
  /\ ConnectionConfigured(report)

(* And as what: tokens outside the vocabulary are dropped, a list left     *)
(* empty is no list, a status outside the vocabulary is unknown.           *)
Sanitized(report) ==
  [report EXCEPT !.supported = @ \cap CapabilityTokens,
                 !.status = IF @ \in PrinterStatuses THEN @ ELSE "unknown"]

Stored(config, probed) == Sanitized(Report(config, probed))
=============================================================================
