---------------------------- MODULE MCPrintDesk ----------------------------
(* Small instances of PrintDesk for TLC. *)
EXTENDS PrintDesk

CONSTANTS a1, a2, p1, p2, d1, d2, d3

(* Each workload brings together requests that touch the same state. *)
Load(kinds, n, orders) == [kinds |-> kinds, requests |-> n, orders |-> orders, prints |-> {}]
Clients(k, more) ==
  [kinds |-> {"clients"} \cup more, requests |-> 0, orders |-> {}, prints |-> {k}]
One == {<<p1, d1>>}
Two == {<<p1, d1>>, <<p2, d2>>}
Three == {<<p1, d1>>, <<p2, d1>>, <<p2, d2>>}
DeskWorkloads ==
  {Load({"api", "unkeyed"}, 3, Three),
   Load({"api", "expiry", "cleanup"}, 4, Two),
   Load({"api", "unkeyed", "delivery"}, 2, Two),
   Load({"api", "keys"}, 3, {<<p1, d1>>, <<p1, d3>>}),
   Load({"api", "unkeyed", "minutes"}, 3, One),
   Load({"managers", "test pages", "presence"}, 2, Printers \X Documents),
   Load({"managers", "reprints", "cleanup", "expiry"}, 4, One),
   Load({"clicks", "delivery", "expiry"}, 1, One),
   Load({"clicks", "timeouts", "faults", "expiry"}, 1, One),
   Load({"clicks", "no network", "expiry"}, 1, Two),
   Load({"clicks", "timeouts", "operators"}, 2, One),
   Load({"clicks", "operators", "expiry"}, 2, One),
   Load({"clicks", "keys", "expiry"}, 2, One),
   Clients(1, {"expiry"}), Clients(2, {}), Clients(3, {}), Clients(4, {}),
   Load({"presence page", "polls"}, 0, {}),
   Load({"polls", "list page"}, 0, {}),
   Load({"inspector"}, 0, {}),
   Load({"bodies"}, 0, {}),
   Load({"workstation"}, 2, {})}

ConsoleWorkload == {Load({"inspector"}, 0, {})}

(* Two agents with one printer each, and each printer the other's backup. *)
Owners == [p \in Printers |-> IF p = p1 THEN a1 ELSE a2]
Backups == [p \in Printers |-> IF p = p1 THEN p2 ELSE p1]

(* p1 is a receipt printer on the network, p2 a queue of the spooler that *)
(* also takes receipts.  d1 is a ticket both take, d2 a PDF, d3 a label    *)
(* neither takes, of a type no key may print.                             *)
Declared ==
  [p \in Printers |->
    [protocol |-> "escpos", connection |-> IF p = p1 THEN "network" ELSE "spooler",
     supported |-> IF p = p1 THEN {} ELSE {"escpos", "pdf"},
     kind |-> "physical", flagged |-> FALSE, class |-> "", nestedPort |-> "",
     nestedIdentity |-> "", port |-> "", name |-> "", driver |-> ""]]
Content(type, protocol, signature) ==
  [type |-> type, protocol |-> protocol, signature |-> signature, peripherals |-> FALSE]
Contents ==
  [d \in Documents |-> CASE d = d1 -> Content("escpos", "escpos", "other")
                        [] d = d2 -> Content("pdf", "", "pdf")
                        [] d = d3 -> Content("raw", "zpl", "other")]
Permitted == [k \in Keys |-> {d1, d2}]

(* One print action of each kind, all tickets for p1. *)
Kinds == [k \in Prints |-> CASE k = 1 -> "report" [] k = 2 -> "receipt" [] k = 3 -> "kitchen" [] k = 4 -> "details"]
ToP1 == [k \in Prints |-> p1]
Tickets == [k \in Prints |-> d1]
=============================================================================
